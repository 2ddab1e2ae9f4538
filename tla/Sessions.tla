------------------------------ MODULE Sessions ------------------------------
(***************************************************************************)
(* How a signed-in browser stays signed in: the refresh and logout         *)
(* handlers of src/controllers/auth.rs with models/refresh_tokens.rs, and  *)
(* the browser's side of them, frontend/src/api/client.ts and              *)
(* stores/auth.ts, in several tabs that share one localStorage.            *)
(*                                                                         *)
(* A sign-in or a refresh issues a pair, an access token and a refresh     *)
(* token, which are always stored together: a pair is a number, 0 is none. *)
(* A step is one database call of a handler, or one callback in a tab.     *)
(***************************************************************************)
EXTENDS Naturals

CONSTANTS
  Tabs,         \* browser tabs
  Requests,     \* requests a tab can have in flight, each a tab and a number
  MaxSignIns,   \* bound: sign-ins
  MaxExpiries,  \* bound: access tokens that expire
  MaxClicks,    \* bound: page loads and logouts
  MaxFaults     \* bound: failed database calls and broken connections

ASSUME RequestsAssumption == Requests \subseteq Tabs \X Nat
ASSUME BoundsAssumption == {MaxSignIns, MaxExpiries, MaxClicks, MaxFaults} \subseteq Nat

VARIABLES
  issued,       \* how many pairs were issued
  live,         \* refresh tokens find_valid_by_token finds
  fresh,        \* access tokens that have not expired
  storage,      \* the pair in localStorage
  held,         \* the pair in each tab's useAuthStore
  refreshing,   \* refreshRequest of each tab: the token it was made for
  handler,      \* the refresh each tab waits for, and one it gave up on
  leaving,      \* the logout of each tab
  request,      \* the requests of each tab through apiClient
  lost,         \* history: tokens revoked by a refresh whose answer never came
  over,         \* history: tokens a logout revoked, that expired, or that a tab replaced
  counts        \* history: sign-ins, expiries, clicks and faults

serverVars == <<issued, live, fresh>>
vars == <<serverVars, storage, held, refreshing, handler, leaving, request, lost, over, counts>>

-----------------------------------------------------------------------------
(* Values *)

Calls == Tabs \X {"awaited", "late"}
None == 0

HandlerPc == {"idle", "find", "issue", "revoke", "renewed", "denied", "error"}
RequestPc == {"idle", "sent", "refused", "waiting"}

TypeOK ==
  /\ issued \in Nat
  /\ live \subseteq 1 .. issued /\ fresh \subseteq 1 .. issued
  /\ storage \in 0 .. issued
  /\ held \in [Tabs -> 0 .. issued]
  /\ refreshing \in [Tabs -> 0 .. issued]
  /\ handler \in [Calls -> [pc : HandlerPc, token : 0 .. issued, new : 0 .. issued]]
  /\ leaving \in [Tabs -> [pc : {"no", "find", "revoke", "signout"}, token : 0 .. issued]]
  /\ request \in [Requests -> [pc : RequestPc, bearer : 0 .. issued, token : 0 .. issued,
                               again : BOOLEAN]]
  /\ lost \subseteq 1 .. issued /\ over \subseteq 1 .. issued
  /\ counts \in [signins : 0 .. MaxSignIns, expiries : 0 .. MaxExpiries,
                 clicks : 0 .. MaxClicks, faults : 0 .. MaxFaults]

NoCall == [pc |-> "idle", token |-> None, new |-> None]
NoRequest == [pc |-> "idle", bearer |-> None, token |-> None, again |-> FALSE]
Stays == [pc |-> "no", token |-> None]

Init ==
  /\ issued = 0 /\ live = {} /\ fresh = {}
  /\ storage = None
  /\ held = [t \in Tabs |-> None]
  /\ refreshing = [t \in Tabs |-> None]
  /\ handler = [c \in Calls |-> NoCall]
  /\ leaving = [t \in Tabs |-> Stays]
  /\ request = [q \in Requests |-> NoRequest]
  /\ lost = {} /\ over = {}
  /\ counts = [signins |-> 0, expiries |-> 0, clicks |-> 0, faults |-> 0]

Click == counts.clicks < MaxClicks /\ counts' = [counts EXCEPT !.clicks = @ + 1]
Fault == counts.faults < MaxFaults /\ counts' = [counts EXCEPT !.faults = @ + 1]

\* jwt_for_user and refresh_tokens::Model::issue
IssuePair ==
  /\ issued' = issued + 1
  /\ live' = live \cup {issued + 1}
  /\ fresh' = fresh \cup {issued + 1}

\* useAuthStore.setTokens and signIn
SetTokens(t, pair) == storage' = pair /\ held' = [held EXCEPT ![t] = pair]

\* useAuthStore.signOut
SignOut(t) == SetTokens(t, None)

\* The requests of a tab that wait for its refresh are rejected.
Rejected(t) ==
  [q \in Requests |-> IF q[1] = t /\ request[q].pc = "waiting" THEN NoRequest ELSE request[q]]

-----------------------------------------------------------------------------
(* Time passes *)

\* A request takes seconds and an access token lives for days: none expires while a
\* request is under way that was first sent with an older one.
AccessExpires(k) ==
  /\ k \in fresh
  /\ \A q \in Requests : request[q].pc # "idle" => request[q].bearer >= k /\ ~request[q].again
  /\ counts.expiries < MaxExpiries
  /\ counts' = [counts EXCEPT !.expiries = @ + 1]
  /\ fresh' = fresh \ {k}
  /\ UNCHANGED <<issued, live, storage, held, refreshing, handler, leaving, request, lost, over>>

\* A refresh token outlives the access token it came with.  That of a pair the browser
\* no longer has makes no difference and is left alone.
RefreshExpires(k) ==
  /\ k \in live \ fresh /\ k \in {storage} \cup {held[t] : t \in Tabs}
  /\ live' = live \ {k}
  /\ over' = over \cup {k}
  /\ UNCHANGED <<issued, fresh, storage, held, refreshing, handler, leaving, request, lost, counts>>

-----------------------------------------------------------------------------
(* Signing in, loading pages, sending requests *)

\* login, and signIn with its answer.
SignIn(t) ==
  /\ held[t] = None /\ counts.signins < MaxSignIns
  /\ counts' = [counts EXCEPT !.signins = @ + 1]
  /\ IssuePair
  /\ SetTokens(t, issued + 1)
  /\ UNCHANGED <<refreshing, handler, leaving, request, lost, over>>

\* What becomes of a handler whose connection breaks: it is dropped where it awaits, or
\* goes on unheard, and of its token if the answer was on its way.
Abandon(t) ==
  LET call == handler[<<t, "awaited">>]
  IN  /\ \/ handler' = [handler EXCEPT ![<<t, "awaited">>] = NoCall]
         \/ /\ call.pc \in {"find", "issue", "revoke"} /\ handler[<<t, "late">>].pc = "idle"
            /\ handler' = [handler EXCEPT ![<<t, "awaited">>] = NoCall, ![<<t, "late">>] = call]
      /\ lost' = IF call.pc = "renewed" THEN lost \cup {call.token} ELSE lost

\* A tab is opened or loaded again: its store is read from localStorage.
LoadPage(t) ==
  /\ leaving[t].pc = "no" /\ Click
  /\ held' = [held EXCEPT ![t] = storage]
  /\ refreshing' = [refreshing EXCEPT ![t] = None]
  /\ request' = [q \in Requests |-> IF q[1] = t THEN NoRequest ELSE request[q]]
  /\ Abandon(t)
  /\ UNCHANGED <<serverVars, storage, leaving, over>>

Send(q) ==
  /\ request[q].pc = "idle" /\ held[q[1]] # None
  /\ request' = [request EXCEPT ![q] = [NoRequest EXCEPT !.pc = "sent", !.bearer = held[q[1]]]]
  /\ UNCHANGED <<serverVars, storage, held, refreshing, handler, leaving, lost, over, counts>>

\* The backend answers; whatever is not a 401 ends the request.
Answer(q) ==
  /\ request[q].pc = "sent"
  /\ request' = [request EXCEPT ![q] = IF @.bearer \in fresh THEN NoRequest
                                       ELSE [@ EXCEPT !.pc = "refused"]]
  /\ UNCHANGED <<serverVars, storage, held, refreshing, handler, leaving, lost, over, counts>>

\* Mutant: any 401 counts against the session the tab has now.
AnySession(q) == held[q[1]] # None

\* isCurrentSessionRequest
Current(q) == held[q[1]] # None /\ request[q].bearer = held[q[1]]

\* The response interceptor on a 401: refreshSession, which joins a refresh under way.
Refused(q) ==
  LET t == q[1]
  IN  /\ request[q].pc = "refused"
      /\ IF Current(q) /\ ~request[q].again
           THEN /\ request' = [request EXCEPT ![q].pc = "waiting", ![q].token = held[t]]
                /\ IF refreshing[t] = None
                     THEN /\ refreshing' = [refreshing EXCEPT ![t] = held[t]]
                          /\ handler' = [handler EXCEPT ![<<t, "awaited">>] =
                                           [NoCall EXCEPT !.pc = "find", !.token = held[t]]]
                     ELSE UNCHANGED <<refreshing, handler>>
                /\ UNCHANGED <<storage, held>>
           ELSE /\ request' = [request EXCEPT ![q] = NoRequest]
                /\ IF Current(q) THEN SignOut(t) ELSE UNCHANGED <<storage, held>>
                /\ UNCHANGED <<refreshing, handler>>
      /\ UNCHANGED <<serverVars, leaving, lost, over, counts>>

-----------------------------------------------------------------------------
(* The refresh handler *)

\* The handler answers; the answer of one that nobody waits for goes nowhere.
Reply(c, answer) ==
  handler' = [handler EXCEPT ![c] = IF c[2] = "late" THEN NoCall ELSE [@ EXCEPT !.pc = answer]]

\* Mutant: the token is used up by the lookup.
FindAndRevoke(c) ==
  /\ handler[c].pc = "find"
  /\ IF handler[c].token \in live
       THEN handler' = [handler EXCEPT ![c].pc = "issue"] ELSE Reply(c, "denied")
  /\ live' = live \ {handler[c].token}
  /\ UNCHANGED <<issued, fresh, storage, held, refreshing, leaving, request, lost, over, counts>>

\* find_valid_by_token
FindValid(c) ==
  /\ handler[c].pc = "find"
  /\ IF handler[c].token \in live
       THEN handler' = [handler EXCEPT ![c].pc = "issue"] ELSE Reply(c, "denied")
  /\ UNCHANGED <<serverVars, storage, held, refreshing, leaving, request, lost, over, counts>>

\* Mutant: the replacement is answered without being stored.
IssueUnsaved(c) ==
  /\ handler[c].pc = "issue"
  /\ handler' = [handler EXCEPT ![c].pc = "revoke", ![c].new = issued + 1]
  /\ UNCHANGED <<serverVars, storage, held, refreshing, leaving, request, lost, over, counts>>

Issue(c) ==
  /\ handler[c].pc = "issue"
  /\ IssuePair
  /\ handler' = [handler EXCEPT ![c].pc = "revoke", ![c].new = issued + 1]
  /\ UNCHANGED <<storage, held, refreshing, leaving, request, lost, over, counts>>

\* A handler nobody waits for revokes a token its tab may still have.
Revoke(c) ==
  /\ handler[c].pc = "revoke"
  /\ live' = live \ {handler[c].token}
  /\ Reply(c, "renewed")
  /\ lost' = IF c[2] = "late" THEN lost \cup {handler[c].token} ELSE lost
  /\ UNCHANGED <<issued, fresh, storage, held, refreshing, leaving, request, over, counts>>

\* A database call fails and the answer is a 500.  An update can have been done although
\* its acknowledgement was lost.
HandlerFails(c) ==
  /\ handler[c].pc \in {"find", "issue", "revoke"} /\ Fault
  /\ Reply(c, "error")
  /\ \/ UNCHANGED <<live, lost>>
     \/ /\ handler[c].pc = "revoke"
        /\ live' = live \ {handler[c].token}
        /\ lost' = lost \cup {handler[c].token}
  /\ UNCHANGED <<issued, fresh, storage, held, refreshing, leaving, request, over>>

-----------------------------------------------------------------------------
(* The answer reaches refreshSession *)

\* The promise is settled: finally clears refreshRequest.
Settled(t) ==
  /\ handler' = [handler EXCEPT ![<<t, "awaited">>] = NoCall]
  /\ refreshing' = [refreshing EXCEPT ![t] = None]

\* The new pair is taken if the tab still has the one it was asked for, and the waiting
\* requests are sent again; otherwise it is thrown away.
Renew(t) ==
  LET call == handler[<<t, "awaited">>]
  IN  /\ call.pc = "renewed"
      /\ Settled(t)
      /\ IF held[t] = call.token
           THEN /\ SetTokens(t, call.new)
                /\ request' = [q \in Requests |->
                     IF q[1] = t /\ request[q].pc = "waiting"
                       THEN [request[q] EXCEPT !.pc = "sent", !.again = TRUE, !.bearer = call.new]
                       ELSE request[q]]
                /\ over' = over \cup {call.token}
                /\ UNCHANGED lost
           ELSE /\ request' = Rejected(t)
                /\ lost' = lost \cup {call.token}
                /\ UNCHANGED <<storage, held, over>>
      /\ UNCHANGED <<serverVars, leaving, counts>>

\* Only a 401 signs out, and only if the tab still has the token it is about.
Deny(t) ==
  /\ handler[<<t, "awaited">>].pc = "denied"
  /\ Settled(t)
  /\ request' = Rejected(t)
  /\ IF \E q \in Requests : q[1] = t /\ request[q].pc = "waiting" /\ request[q].token = held[t]
       THEN SignOut(t) ELSE UNCHANGED <<storage, held>>
  /\ UNCHANGED <<serverVars, leaving, lost, over, counts>>

\* Mutant: any error of the refresh signs out.
ErrorSignsOut(t) ==
  /\ handler[<<t, "awaited">>].pc = "error"
  /\ Settled(t)
  /\ request' = Rejected(t)
  /\ SignOut(t)
  /\ UNCHANGED <<serverVars, leaving, lost, over, counts>>

\* Mutant: refreshRequest is cleared only when the refresh succeeds.
ErrorKeepsPromise(t) ==
  /\ handler[<<t, "awaited">>].pc = "error"
  /\ handler' = [handler EXCEPT ![<<t, "awaited">>] = NoCall]
  /\ request' = Rejected(t)
  /\ UNCHANGED <<serverVars, storage, held, refreshing, leaving, lost, over, counts>>

Error(t) ==
  /\ handler[<<t, "awaited">>].pc = "error"
  /\ Settled(t)
  /\ request' = Rejected(t)
  /\ UNCHANGED <<serverVars, storage, held, leaving, lost, over, counts>>

\* The call times out after 15 seconds, or the connection breaks.
GiveUp(t) ==
  /\ handler[<<t, "awaited">>].pc # "idle" /\ Fault
  /\ Abandon(t)
  /\ refreshing' = [refreshing EXCEPT ![t] = None]
  /\ request' = Rejected(t)
  /\ UNCHANGED <<serverVars, storage, held, leaving, over>>

-----------------------------------------------------------------------------
(* Logout *)

Logout(t) ==
  /\ held[t] # None /\ leaving[t].pc = "no" /\ Click
  /\ leaving' = [leaving EXCEPT ![t] = [pc |-> "find", token |-> held[t]]]
  /\ UNCHANGED <<serverVars, storage, held, refreshing, handler, request, lost, over>>

LogoutFind(t) ==
  /\ leaving[t].pc = "find"
  /\ leaving' = [leaving EXCEPT ![t].pc = IF leaving[t].token \in live
                                            THEN "revoke" ELSE "signout"]
  /\ UNCHANGED <<serverVars, storage, held, refreshing, handler, request, lost, over, counts>>

LogoutRevoke(t) ==
  /\ leaving[t].pc = "revoke"
  /\ live' = live \ {leaving[t].token}
  /\ over' = over \cup {leaving[t].token}
  /\ leaving' = [leaving EXCEPT ![t].pc = "signout"]
  /\ UNCHANGED <<issued, fresh, storage, held, refreshing, handler, request, lost, counts>>

\* logout answers with success and the tab signs out whatever fails.  A handler whose
\* connection breaks is taken to end there, with or without its update.
LogoutFails(t) ==
  /\ leaving[t].pc \in {"find", "revoke"} /\ Fault
  /\ leaving' = [leaving EXCEPT ![t].pc = "signout"]
  /\ \/ UNCHANGED <<live, over>>
     \/ /\ leaving[t].pc = "revoke"
        /\ live' = live \ {leaving[t].token}
        /\ over' = over \cup {leaving[t].token}
  /\ UNCHANGED <<issued, fresh, storage, held, refreshing, handler, request, lost>>

Leave(t) ==
  /\ leaving[t].pc = "signout"
  /\ SignOut(t)
  /\ leaving' = [leaving EXCEPT ![t] = Stays]
  /\ UNCHANGED <<serverVars, refreshing, handler, request, lost, over, counts>>

-----------------------------------------------------------------------------

HandlerStep(c) == FindValid(c) \/ Issue(c) \/ Revoke(c)
TabStep(t) == Renew(t) \/ Deny(t) \/ Error(t)
LogoutStep(t) == LogoutFind(t) \/ LogoutRevoke(t) \/ Leave(t)
RequestStep(q) == Send(q) \/ Answer(q) \/ Refused(q)

Next ==
  \/ \E k \in 1 .. issued : AccessExpires(k) \/ RefreshExpires(k)
  \/ \E t \in Tabs :
       \/ SignIn(t) \/ LoadPage(t) \/ TabStep(t) \/ GiveUp(t)
       \/ Logout(t) \/ LogoutStep(t) \/ LogoutFails(t)
  \/ \E q \in Requests : RequestStep(q)
  \/ \E c \in Calls : HandlerStep(c) \/ HandlerFails(c)

Spec == Init /\ [][Next]_vars

\* Handlers and callbacks are scheduled, calls are answered, and the pages keep asking.
FairSpec ==
  /\ Spec
  /\ \A t \in Tabs : WF_vars(HandlerStep(<<t, "awaited">>) \/ TabStep(t))
  /\ \A q \in Requests : WF_vars(RequestStep(q))

-----------------------------------------------------------------------------
(* Properties *)

\* "Keep the existing token usable if issuing its replacement fails.": the refresh token
\* a tab or the browser's storage still has is accepted, unless a refresh whose answer
\* was lost revoked it, its replacement is on its way or with a tab, or it was logged
\* out or too old.  No order of lookups, issues, revocations and database errors in
\* several tabs makes an exception.
UsableUnlessLost ==
  \A k \in ({storage} \cup {held[t] : t \in Tabs}) \ {None} :
    k \in live \cup lost \cup over \/
    \E t \in Tabs : handler[<<t, "awaited">>].token = k /\ handler[<<t, "awaited">>].pc = "renewed"

\* "A database outage must not invalidate the browser's persisted session.": a tab drops
\* its session only when its user leaves, when it is loaded with an empty storage, or
\* when the backend no longer accepts its refresh token.  Late answers, errors and
\* timeouts never do it.
SignsOutOnlyDead ==
  [][\A t \in Tabs : held[t] # None /\ held'[t] = None =>
       held[t] \notin live \/ leaving[t].pc = "signout" \/ LoadPage(t)]_vars

\* A tab refreshes only a session whose access token has expired: however many requests
\* were refused, and however late their answers, none uses up the renewed pair.
RefreshesOnce ==
  [][\A t \in Tabs : refreshing[t] = None /\ refreshing'[t] # None =>
       refreshing'[t] \notin fresh]_vars

\* A tab in use whose access token expired gets another one or is signed out, whatever
\* went wrong before.
Renews ==
  \A t \in Tabs : held[t] # None /\ held[t] \notin fresh ~>
                    held[t] = None \/ held[t] \in fresh
=============================================================================
