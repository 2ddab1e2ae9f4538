---------------------------- MODULE SshTerminal -----------------------------
(***************************************************************************)
(* A shared terminal: the managed sessions of                              *)
(* src/controllers/admin/ssh.rs and one terminal of the page that shows    *)
(* them, frontend/src/pages/system/ssh/SshPage.tsx with sshSession.ts.     *)
(*                                                                         *)
(* A call of connectSession and the socket it opens are one thing here, a  *)
(* connect.  Until it opens the socket it walks through the awaits of the  *)
(* page, from then on through handle_terminal_socket.  A message is        *)
(* delivered by the step that sends it: the delay of the connection is     *)
(* that of the receiver the server reads from.                             *)
(***************************************************************************)
EXTENDS Naturals, Sequences

CONSTANTS
  Sessions,      \* session ids, in the order they are used
  Connects,      \* connects the page can have at once
  HistoryChunks, \* OUTPUT_BUFFER_CHUNKS
  Capacity,      \* OUTPUT_BROADCAST_CAPACITY
  MaxAttempts,   \* MAX_AUTO_RECONNECT_ATTEMPTS
  MaxOutput,     \* bound: chunks the shells print
  MaxClicks,     \* bound: connects, disconnects and closes by the user
  MaxFaults      \* bound: failed requests, broken sockets, late tickets, restarts

ASSUME NumbersAssumption ==
  /\ Sessions \subseteq Nat \ {0} /\ 0 \notin Connects
  /\ {HistoryChunks, Capacity} \subseteq Nat \ {0}
  /\ {MaxAttempts, MaxOutput, MaxClicks, MaxFaults} \subseteq Nat

VARIABLES
  store,        \* SSH_SESSIONS
  session,      \* each ManagedSshSession with its shell and its reader thread
  tickets,      \* SSH_TICKETS: the connects whose ticket can be consumed
  connect,      \* the connects
  tab,          \* the terminal in the page
  closing,      \* the closeSharedSession of the page
  poll,         \* the sessionsQuery of the page
  stray,        \* history: a connect replaced a socket that was open
  counts        \* history: clicks, faults and chunks

vars == <<store, session, tickets, connect, tab, closing, poll, stray, counts>>

-----------------------------------------------------------------------------
(* Values *)

None == 0
Closed == 0
Chunks == 1 .. MaxOutput

NoSession == [status |-> "none", reader |-> "none", output |-> 0]

NoConnect == [pc |-> "none", session |-> None, attempt |-> 0, again |-> FALSE,
              last |-> FALSE, ended |-> FALSE, late |-> FALSE, lagged |-> FALSE,
              feed |-> <<>>, shown |-> {}]

InPage == {"create", "ticket", "open"}
OnServer == {"upgraded", "subscribed", "replay", "live"}

TypeOK ==
  /\ store \subseteq Sessions
  /\ session \in [Sessions -> [status : {"none", "running", "closed"},
                               reader : {"none", "read", "send", "eof", "remove", "ended"},
                               output : 0 .. MaxOutput]]
  /\ tickets \subseteq Connects
  /\ \A c \in Connects :
       /\ connect[c] \in [pc : {"none", "opening", "dropped"} \cup InPage \cup OnServer,
                          session : Sessions \cup {None}, attempt : 0 .. MaxAttempts,
                          again : BOOLEAN, last : BOOLEAN, ended : BOOLEAN,
                          late : BOOLEAN, lagged : BOOLEAN, feed : Seq(Chunks \cup {Closed}),
                          shown : SUBSET Chunks]
       /\ Len(connect[c].feed) <= Capacity
  /\ tab \in [status : {"idle", "connecting", "connected", "detached", "closed", "error"},
              session : Sessions \cup {None}, socket : Connects \cup {None},
              attempts : 0 .. MaxAttempts, timers : Nat, tracked : BOOLEAN]
  /\ closing \in [pc : {"idle", "remove", "kill", "answer"}, session : Sessions \cup {None}]
  /\ poll \in [pc : {"idle", "answer"}, ids : SUBSET Sessions]
  /\ stray \in BOOLEAN
  /\ counts \in [clicks : 0 .. MaxClicks, faults : 0 .. MaxFaults,
                 chunks : 0 .. MaxOutput]

Init ==
  /\ store = {}
  /\ session = [s \in Sessions |-> NoSession]
  /\ tickets = {}
  /\ connect = [c \in Connects |-> NoConnect]
  /\ tab = [status |-> "idle", session |-> None, socket |-> None, attempts |-> 0,
            timers |-> 0, tracked |-> FALSE]
  /\ closing = [pc |-> "idle", session |-> None]
  /\ poll = [pc |-> "idle", ids |-> {}]
  /\ stray = FALSE
  /\ counts = [clicks |-> 0, faults |-> 0, chunks |-> 0]

Click == counts.clicks < MaxClicks /\ counts' = [counts EXCEPT !.clicks = @ + 1]
Fault == counts.faults < MaxFaults /\ counts' = [counts EXCEPT !.faults = @ + 1]

Goto(c, pc) == connect' = [connect EXCEPT ![c].pc = pc]
Broken(c) == [NoConnect EXCEPT !.pc = "dropped", !.ended = connect[c].ended]
Forget(c) == connect' = [connect EXCEPT ![c] = NoConnect]

Running(s) == s \in store /\ session[s].status = "running"

\* Mutant: a socket subscribes when it has sent the history.
SubscribersLive(s) == {c \in Connects : connect[c].session = s /\ connect[c].pc = "live"}

Subscribers(s) == {c \in Connects : connect[c].session = s
                                      /\ connect[c].pc \in {"subscribed", "replay", "live"}}

\* output_tx.send: a receiver that is Capacity messages behind loses its oldest.
Sent(s, m) ==
  [c \in Connects |->
     IF c \notin Subscribers(s) THEN connect[c]
     ELSE IF Len(connect[c].feed) < Capacity
          THEN [connect[c] EXCEPT !.feed = Append(@, m)]
          ELSE [connect[c] EXCEPT !.feed = Append(Tail(@), m), !.lagged = TRUE]]

-----------------------------------------------------------------------------
(* A session and its reader thread *)

\* append_output, first half: the chunk enters output_buffer.
Output(s) ==
  /\ session[s].reader = "read"
  /\ counts.chunks < MaxOutput /\ counts' = [counts EXCEPT !.chunks = @ + 1]
  /\ session' = [session EXCEPT ![s].output = @ + 1, ![s].reader = "send"]
  /\ UNCHANGED <<store, tickets, connect, tab, closing, poll, stray>>

\* append_output, second half: the chunk is sent to the receivers there are.
Broadcast(s) ==
  /\ session[s].reader = "send"
  /\ session' = [session EXCEPT ![s].reader = "read"]
  /\ connect' = Sent(s, session[s].output)
  /\ UNCHANGED <<store, tickets, tab, closing, poll, counts, stray>>

\* The chunks in output_buffer.
History(s) == {k \in 1 .. session[s].output : k + HistoryChunks > session[s].output}

\* A reader that has still to say that the session ended.
Telling == {"read", "send", "eof"}

\* The shell has exited or was killed, its output is read to the end: mark_closed sets the
\* status ...
Eof(s) ==
  /\ session[s].reader = "read"
  /\ session' = [session EXCEPT ![s].status = "closed", ![s].reader = "eof"]
  /\ UNCHANGED <<store, tickets, connect, tab, closing, poll, counts, stray>>

\* Mutant: the end is recorded and not broadcast.
EofUnsaid(s) ==
  /\ session[s].reader = "eof"
  /\ session' = [session EXCEPT ![s].reader = "remove"]
  /\ UNCHANGED <<store, tickets, connect, tab, closing, poll, counts, stray>>

\* ... and then tells the receivers there are.
EofSaid(s) ==
  /\ session[s].reader = "eof"
  /\ session' = [session EXCEPT ![s].reader = "remove"]
  /\ connect' = Sent(s, Closed)
  /\ UNCHANGED <<store, tickets, tab, closing, poll, counts, stray>>

ReaderRemove(s) ==
  /\ session[s].reader = "remove"
  /\ session' = [session EXCEPT ![s].reader = "ended"]
  /\ store' = store \ {s}
  /\ UNCHANGED <<tickets, connect, tab, closing, poll, counts, stray>>

-----------------------------------------------------------------------------
(* The page connects *)

\* cleanupSocket: the handlers are removed and the socket is closed.
Cleaned == [c \in Connects |-> IF c = tab.socket THEN NoConnect ELSE connect[c]]
CleanTickets == tickets \ {tab.socket}

\* The timer that reconnectTimersRef knows is cleared.
TimersLeft == IF tab.tracked THEN tab.timers - 1 ELSE tab.timers

\* mutateAsync: isPending is about the request sent last, of each of the two mutations.
Asks(connects, c, pc) ==
  [d \in Connects |->
     IF d = c THEN [connects[c] EXCEPT !.pc = pc, !.last = TRUE]
     ELSE [connects[d] EXCEPT !.last = @ /\ (connects[d].pc = "create") # (pc = "create")]]

\* connectSession up to its first await.
StartConnect(c, attempts, timers) ==
  LET resumed == IF tab.status = "closed" THEN None ELSE tab.session
  IN  /\ connect[c] = NoConnect
      /\ connect' = Asks([Cleaned EXCEPT ![c] = [NoConnect EXCEPT !.session = resumed,
                                                                  !.attempt = attempts]],
                         c, IF resumed = None THEN "create" ELSE "ticket")
      /\ tickets' = CleanTickets
      /\ tab' = [tab EXCEPT !.status = "connecting", !.socket = None,
                            !.attempts = attempts, !.timers = timers, !.tracked = FALSE]
      /\ UNCHANGED <<store, session, closing, poll, stray>>

\* The button of the overlay, and resume when the page is shown or online again.
ConnectOverlay(c) ==
  /\ Click
  /\ tab.status \in {"idle", "detached", "closed", "error"}
  /\ StartConnect(c, 0, TimersLeft)

\* The buttons of the toolbar, which are there unless a mutation is pending.
ConnectToolbar(c) ==
  /\ Click
  /\ \A d \in Connects : ~connect[d].last
  /\ StartConnect(c, tab.attempts, TimersLeft)

TimerFires(c) ==
  /\ tab.timers > 0
  /\ StartConnect(c, tab.attempts, tab.timers - 1)
  /\ UNCHANGED counts

\* Mutant: an attempt too many.
RetriesOneMore(t) ==
  {t} \cup
  IF t.attempts > MaxAttempts THEN {}
  ELSE {[t EXCEPT !.status = "connecting", !.attempts = @ + 1,
                  !.timers = @ + 1, !.tracked = TRUE]}

\* scheduleReconnect, which does nothing in a hidden page.
Retries(t) ==
  {t} \cup
  IF t.attempts + 1 > MaxAttempts THEN {}
  ELSE {[t EXCEPT !.status = "connecting", !.attempts = @ + 1,
                  !.timers = @ + 1, !.tracked = TRUE]}

\* The catch clause of connectSession.
ConnectFails(c) ==
  /\ Forget(c)
  /\ IF connect[c].attempt = 0
     THEN tab' = [tab EXCEPT !.status = "error"]
     ELSE tab' \in Retries([tab EXCEPT !.status = "detached"])

Unused == {s \in Sessions : session[s] = NoSession}

\* create_session: the session enters the store and its reader starts.
CreateSession(c) ==
  /\ connect[c].pc = "create"
  /\ \E s \in Unused :
       /\ \A q \in Unused : s <= q
       /\ session' = [session EXCEPT ![s] = [status |-> "running", reader |-> "read",
                                             output |-> 0]]
       /\ store' = store \cup {s}
       /\ connect' = Asks([connect EXCEPT ![c].session = s], c, "ticket")
  /\ UNCHANGED <<tickets, tab, closing, poll, counts, stray>>

\* A request fails, or the host has no terminal for another session.
RequestFails(c) ==
  /\ \/ connect[c].pc \in {"create", "ticket"} /\ Fault
     \/ connect[c].pc = "create" /\ Unused = {} /\ UNCHANGED counts
  /\ ConnectFails(c)
  /\ UNCHANGED <<store, session, tickets, closing, poll, stray>>

\* create_session_ticket of a session that runs
CreateTicket(c) ==
  /\ connect[c].pc = "ticket" /\ Running(connect[c].session)
  /\ tickets' = tickets \cup {c}
  /\ connect' = [connect EXCEPT ![c] =
       [NoConnect EXCEPT !.pc = "open", !.session = connect[c].session, !.last = connect[c].last]]
  /\ UNCHANGED <<store, session, tab, closing, poll, counts, stray>>

\* create_session_ticket of a session that is gone: the first time, the page creates
\* another one.
SessionGone(c) ==
  /\ connect[c].pc = "ticket" /\ ~Running(connect[c].session)
  /\ store' = store \ {connect[c].session}
  /\ \/ /\ ~connect[c].again
        /\ connect' = Asks([connect EXCEPT ![c].again = TRUE], c, "create")
        /\ UNCHANGED tab
     \/ connect[c].again /\ ConnectFails(c)
  /\ UNCHANGED <<session, tickets, closing, poll, counts, stray>>

\* The socket takes the place of the one that is there.
OpenSocket(c) ==
  /\ connect[c].pc = "open"
  /\ connect' = [connect EXCEPT ![c].pc = "opening", ![c].last = FALSE]
  /\ stray' = (stray \/ tab.socket # None)
  /\ tab' = [tab EXCEPT !.session = connect[c].session, !.socket = c]
  /\ UNCHANGED <<store, session, tickets, closing, poll, counts>>

-----------------------------------------------------------------------------
(* The socket *)

\* session_ws: consume_ticket and find_live_session
Upgrade(c) ==
  /\ connect[c].pc = "opening"
  /\ tickets' = tickets \ {c}
  /\ IF c \in tickets /\ Running(connect[c].session)
     THEN Goto(c, "upgraded") /\ UNCHANGED store
     ELSE /\ connect' = [connect EXCEPT ![c] = Broken(c)]
          /\ store' = IF c \in tickets THEN store \ {connect[c].session} ELSE store
  /\ UNCHANGED <<session, tab, closing, poll, counts, stray>>

TicketExpires(c) ==
  /\ c \in tickets /\ Fault
  /\ tickets' = tickets \ {c}
  /\ UNCHANGED <<store, session, connect, tab, closing, poll, stray>>

Subscribe(c) ==
  /\ connect[c].pc = "upgraded"
  /\ connect' = [connect EXCEPT ![c].pc = "subscribed",
                   ![c].late = session[connect[c].session].reader \notin Telling]
  /\ UNCHANGED <<store, session, tickets, tab, closing, poll, counts, stray>>

\* The socket says connected and sends the history.
Replay(c) ==
  /\ connect[c].pc = "subscribed"
  /\ connect' = [connect EXCEPT ![c].pc = "replay", ![c].shown = History(connect[c].session)]
  /\ tab' = [tab EXCEPT !.status = "connected", !.attempts = 0]
  /\ UNCHANGED <<store, session, tickets, closing, poll, counts, stray>>

Relay(c) ==
  /\ connect[c].pc = "replay"
  /\ Goto(c, "live")
  /\ UNCHANGED <<store, session, tickets, tab, closing, poll, counts, stray>>

ReceiveOutput(c) ==
  /\ connect[c].pc = "live" /\ connect[c].feed # <<>> /\ Head(connect[c].feed) # Closed
  /\ connect' = [connect EXCEPT ![c].feed = Tail(@),
                   ![c].shown = @ \cup {Head(connect[c].feed)}]
  /\ UNCHANGED <<store, session, tickets, tab, closing, poll, counts, stray>>

ReceiveClosed(c) ==
  /\ connect[c].pc = "live" /\ connect[c].feed # <<>> /\ Head(connect[c].feed) = Closed
  /\ connect' = [connect EXCEPT ![c].feed = Tail(@), ![c].ended = TRUE]
  /\ tab' = [tab EXCEPT !.status = "closed", !.attempts = 0]
  /\ UNCHANGED <<store, session, tickets, closing, poll, counts, stray>>

Drop(c) ==
  /\ connect[c].pc \in OnServer \cup {"opening"} /\ Fault
  /\ connect' = [connect EXCEPT ![c] = Broken(c)]
  /\ tickets' = tickets \ {c}
  /\ UNCHANGED <<store, session, tab, closing, poll, stray>>

\* socket.onclose: only the socket the terminal uses is missed, and only while the
\* terminal has not been told the end.
OnClose(c) ==
  /\ connect[c].pc = "dropped"
  /\ Forget(c)
  /\ \/ tab.socket # c /\ UNCHANGED tab
     \/ /\ tab.socket = c
        /\ IF connect[c].ended \/ tab.status \in {"closed", "error"}
           THEN tab' = [tab EXCEPT !.socket = None]
           ELSE tab' \in Retries([tab EXCEPT !.socket = None, !.status = "detached"])
  /\ UNCHANGED <<store, session, tickets, closing, poll, counts, stray>>

-----------------------------------------------------------------------------
(* The page disconnects, closes and polls *)

\* disconnectSession
Disconnected ==
  /\ connect' = Cleaned
  /\ tickets' = CleanTickets
  /\ tab' = [tab EXCEPT !.status = IF tab.session # None THEN "detached" ELSE "closed",
                        !.socket = None, !.timers = TimersLeft, !.tracked = FALSE]

Disconnect ==
  /\ Click
  /\ Disconnected
  /\ UNCHANGED <<store, session, closing, poll, stray>>

CloseShared ==
  /\ Click
  /\ closing.pc = "idle" /\ tab.session # None
  /\ Disconnected
  /\ closing' = [pc |-> "remove", session |-> tab.session]
  /\ UNCHANGED <<store, session, poll, stray>>

\* close_session: a session that is gone is an error, which the page does not catch.
CloseRemove ==
  /\ closing.pc = "remove"
  /\ store' = store \ {closing.session}
  /\ closing' = IF closing.session \in store THEN [closing EXCEPT !.pc = "kill"]
                ELSE [pc |-> "idle", session |-> None]
  /\ UNCHANGED <<session, tickets, connect, tab, poll, counts, stray>>

\* ManagedSshSession::close: kill, and mark_closed, which the reader repeats at the end of
\* the output
CloseKill ==
  /\ closing.pc = "kill"
  /\ session' = [session EXCEPT ![closing.session].status = "closed"]
  /\ connect' = Sent(closing.session, Closed)
  /\ closing' = [closing EXCEPT !.pc = "answer"]
  /\ UNCHANGED <<store, tickets, tab, poll, counts, stray>>

CloseAnswer ==
  /\ closing.pc = "answer"
  /\ closing' = [pc |-> "idle", session |-> None]
  /\ tab' = [tab EXCEPT !.status = "closed"]
  /\ UNCHANGED <<store, session, tickets, connect, poll, counts, stray>>

\* sessions: what has ended is dropped from the store.
List ==
  /\ poll.pc = "idle"
  /\ store' = {s \in store : session[s].status = "running"}
  /\ poll' = [pc |-> "answer", ids |-> store']
  /\ UNCHANGED <<session, tickets, connect, tab, closing, counts, stray>>

\* forgetMissingServerSessions, and the listed session's status
Listed(ids) ==
  CASE tab.session = None -> tab
    [] tab.session \in ids ->
         IF tab.socket = None THEN [tab EXCEPT !.status = "detached"] ELSE tab
    [] OTHER ->
         IF tab.status = "connecting" \/ tab.socket # None THEN tab
         ELSE [tab EXCEPT !.session = None,
                          !.status = IF @ = "detached" THEN "idle" ELSE @]

ListAnswer ==
  /\ poll.pc = "answer"
  /\ poll' = [pc |-> "idle", ids |-> {}]
  /\ tab' = Listed(poll.ids)
  /\ UNCHANGED <<store, session, tickets, connect, closing, counts, stray>>

-----------------------------------------------------------------------------
(* The server restarts *)

Restart ==
  /\ Fault
  /\ store' = {} /\ tickets' = {}
  /\ session' = [s \in Sessions |->
       IF session[s] = NoSession THEN NoSession
       ELSE [status |-> "closed", reader |-> "ended", output |-> 0]]
  /\ connect' = [c \in Connects |->
       IF connect[c].pc \in OnServer THEN Broken(c) ELSE connect[c]]
  /\ closing' = [pc |-> "idle", session |-> None]
  /\ UNCHANGED <<tab, poll, stray>>

-----------------------------------------------------------------------------

PageStep(c) ==
  CreateSession(c) \/ RequestFails(c) \/ CreateTicket(c) \/ SessionGone(c) \/ OpenSocket(c)

SocketStep(c) ==
  \/ Upgrade(c) \/ Subscribe(c) \/ Replay(c) \/ Relay(c)
  \/ ReceiveOutput(c) \/ ReceiveClosed(c) \/ OnClose(c)

CloseStep == CloseRemove \/ CloseKill \/ CloseAnswer

Next ==
  \/ \E s \in Sessions : Output(s) \/ Broadcast(s) \/ Eof(s) \/ EofSaid(s) \/ ReaderRemove(s)
  \/ \E c \in Connects : \/ ConnectOverlay(c) \/ ConnectToolbar(c) \/ TimerFires(c)
                         \/ PageStep(c) \/ SocketStep(c) \/ TicketExpires(c) \/ Drop(c)
  \/ Disconnect \/ CloseShared \/ CloseStep
  \/ List \/ ListAnswer
  \/ Restart

Spec == Init /\ [][Next]_vars

-----------------------------------------------------------------------------
(* Properties *)

\* What a socket has sent or still has to send of the output.
Covered(c) ==
  connect[c].shown \cup ({connect[c].feed[i] : i \in DOMAIN connect[c].feed} \ {Closed})

\* Chunks that have been broadcast.
Said(s) == IF session[s].reader = "send" THEN session[s].output - 1 ELSE session[s].output

\* A terminal that keeps up misses nothing: from its first chunk to the newest that was
\* broadcast, each is in the history it was sent or among the messages it receives, although
\* the session prints while handle_terminal_socket takes the history.
NoGap ==
  \A c \in Connects :
    connect[c].pc \in {"replay", "live"} /\ ~connect[c].lagged =>
      \A k \in 1 .. Said(connect[c].session) :
        \/ k \in Covered(c)
        \/ Covered(c) # {} /\ \A j \in Covered(c) : k < j

Awaited(pcs) == tab.socket # None /\ connect[tab.socket].pc \in pcs

\* The end of the session is on its way to the socket, or will be when its output is read.
EndComes(c) ==
  \/ Closed \in {connect[c].feed[i] : i \in DOMAIN connect[c].feed}
  \/ session[connect[c].session].reader \in Telling

\* The terminal does not stay in a state that is not the case, whatever ends, breaks or
\* restarts: while it connects, a request, a timer or a socket is to answer, also when
\* connects overtake each other; while it is connected, its session runs, or its socket
\* has still to say that it ended or broke.  Excepted are a session whose end was said
\* between find_live_session and subscribe, and connects that left a stray socket behind.
NeverStuck ==
  /\ tab.status = "connecting" =>
       \/ tab.timers > 0
       \/ \E c \in Connects : connect[c].pc \in InPage
       \/ Awaited({"opening", "upgraded", "subscribed", "dropped"})
  /\ tab.status = "connected" /\ ~stray =>
       \/ Awaited({"dropped"})
       \/ /\ Awaited({"replay", "live"})
          /\ \/ session[connect[tab.socket].session].status = "running"
             \/ connect[tab.socket].late
             \/ EndComes(tab.socket)
=============================================================================
