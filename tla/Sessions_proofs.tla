--------------------------- MODULE Sessions_proofs ----------------------------
(***************************************************************************)
(* What holds of signed-in browsers for any tabs and requests, and any     *)
(* number of sign-ins, expiries, clicks and faults.                        *)
(***************************************************************************)
EXTENDS Sessions, TLAPS

-----------------------------------------------------------------------------
(* The inductive invariant *)

\* The refresh a tab waits for.
Call(t) == handler[<<t, "awaited">>]
Refreshing(t) == Call(t).pc # "idle"

\* Every pair that was ever issued can be used, or it is known why not.
Renewed(k) == \E t \in Tabs : Call(t).token = k /\ Call(t).pc = "renewed"
Accounted == \A k \in 1 .. issued : k \in live \cup lost \cup over \/ Renewed(k)

\* A refresh is for the pair the tab has, unless the tab was signed out, perhaps in again,
\* since.  A request waits for it, and that is why neither the pair it gets nor the one of
\* a later sign-in is too old when it is answered.
Joined(t) ==
  /\ refreshing[t] = None <=> ~Refreshing(t)
  /\ Refreshing(t) =>
       /\ held[t] \in {None, Call(t).token} \/ (held[t] > Call(t).token /\ held[t] \in fresh)
       /\ \E q \in Requests : q[1] = t /\ request[q].pc = "waiting"
  /\ Call(t).pc \in {"revoke", "renewed"} => Call(t).new > Call(t).token /\ Call(t).new \in fresh
  /\ Call(t).pc = "denied" => Call(t).token \notin live

\* A request that waits was refused for the token its tab's refresh is for; one that was
\* sent again has a token that is still good.
Tracked(q) ==
  /\ request[q].pc = "waiting" =>
       /\ Refreshing(q[1])
       /\ request[q].token = Call(q[1]).token /\ request[q].bearer = request[q].token
  /\ request[q].pc # "idle" /\ request[q].again => request[q].bearer \in fresh
  /\ request[q].pc = "refused" => request[q].bearer \notin fresh

\* A handler that runs, and a logout, is about a pair.
Named ==
  /\ \A c \in Calls : handler[c].pc # "idle" => handler[c].token # None
  /\ \A t \in Tabs : leaving[t].pc \in {"find", "revoke"} => leaving[t].token # None

Inv ==
  /\ TypeOK
  /\ Named
  /\ Accounted
  /\ \A t \in Tabs : Joined(t)
  /\ \A q \in Requests : Tracked(q)

-----------------------------------------------------------------------------
(* Types *)

HandlerSet(n) == [pc : HandlerPc, token : 0 .. n, new : 0 .. n]
RequestSet(n) == [pc : RequestPc, bearer : 0 .. n, token : 0 .. n, again : BOOLEAN]
LeavingSet(n) == [pc : {"no", "find", "revoke", "signout"}, token : 0 .. n]
CountSet == [signins : 0 .. MaxSignIns, expiries : 0 .. MaxExpiries,
             clicks : 0 .. MaxClicks, faults : 0 .. MaxFaults]

LEMMA TabOfRequest ==
  ASSUME NEW q \in Requests
  PROVE  q[1] \in Tabs
BY RequestsAssumption

LEMMA CallsOfTab ==
  ASSUME NEW t \in Tabs
  PROVE  <<t, "awaited">> \in Calls /\ <<t, "late">> \in Calls
BY DEF Calls

\* A pair that was issued stays one.
LEMMA Grown ==
  ASSUME NEW n \in Nat
  PROVE  /\ 1 .. n \subseteq 1 .. n + 1 /\ 0 .. n \subseteq 0 .. n + 1 /\ n + 1 \in 1 .. n + 1
         /\ HandlerSet(n) \subseteq HandlerSet(n + 1)
         /\ RequestSet(n) \subseteq RequestSet(n + 1)
         /\ LeavingSet(n) \subseteq LeavingSet(n + 1)
<1>1. 1 .. n \subseteq 1 .. n + 1 /\ 0 .. n \subseteq 0 .. n + 1 /\ n + 1 \in 1 .. n + 1
  OBVIOUS
<1>2. HandlerSet(n) \subseteq HandlerSet(n + 1)
  BY <1>1 DEF HandlerSet
<1>3. RequestSet(n) \subseteq RequestSet(n + 1)
  BY <1>1 DEF RequestSet
<1>4. LeavingSet(n) \subseteq LeavingSet(n + 1)
  BY <1>1 DEF LeavingSet
<1> QED BY <1>1, <1>2, <1>3, <1>4

LEMMA InitType == Init => TypeOK
BY BoundsAssumption
DEF Init, TypeOK, NoCall, NoRequest, Stays, HandlerPc, RequestPc, None

LEMMA ClickType ==
  ASSUME TypeOK, Click
  PROVE  counts' \in CountSet
BY BoundsAssumption DEF TypeOK, Click, CountSet

LEMMA FaultType ==
  ASSUME TypeOK, Fault
  PROVE  counts' \in CountSet
BY BoundsAssumption DEF TypeOK, Fault, CountSet

\* TypeOK, with names for the sets of records.
Typed ==
  /\ issued \in Nat
  /\ live \subseteq 1 .. issued /\ fresh \subseteq 1 .. issued
  /\ storage \in 0 .. issued
  /\ held \in [Tabs -> 0 .. issued]
  /\ refreshing \in [Tabs -> 0 .. issued]
  /\ handler \in [Calls -> HandlerSet(issued)]
  /\ leaving \in [Tabs -> LeavingSet(issued)]
  /\ request \in [Requests -> RequestSet(issued)]
  /\ lost \subseteq 1 .. issued /\ over \subseteq 1 .. issued
  /\ counts \in CountSet

LEMMA TypeParts == (TypeOK => Typed) /\ (Typed' => TypeOK')
BY DEF Typed, TypeOK, HandlerSet, LeavingSet, RequestSet, CountSet

LEMMA RejectedType ==
  ASSUME TypeOK, NEW t \in Tabs
  PROVE  Rejected(t) \in [Requests -> RequestSet(issued)]
BY TypeParts DEF Typed, Rejected, NoRequest, RequestSet, RequestPc, None

LEMMA ReplyType ==
  ASSUME TypeOK, NEW c \in Calls, NEW answer \in {"renewed", "denied", "error"}, Reply(c, answer)
  PROVE  handler' \in [Calls -> HandlerSet(issued)]
<1>1. NoCall \in HandlerSet(issued)
  BY DEF TypeOK, NoCall, HandlerSet, HandlerPc, None
<1>2. [handler[c] EXCEPT !.pc = answer] \in HandlerSet(issued)
  BY TypeParts DEF Typed, HandlerSet, HandlerPc
<1> QED BY <1>1, <1>2, TypeParts DEF Typed, Reply

LEMMA AbandonType ==
  ASSUME TypeOK, Named, NEW t \in Tabs, Abandon(t)
  PROVE  handler' \in [Calls -> HandlerSet(issued)] /\ lost' \subseteq 1 .. issued
<1>1. NoCall \in HandlerSet(issued)
  BY DEF TypeOK, NoCall, HandlerSet, HandlerPc, None
<1>2. handler[<<t, "awaited">>] \in HandlerSet(issued)
  BY TypeParts, CallsOfTab DEF Typed
<1>3. handler' \in [Calls -> HandlerSet(issued)]
  BY <1>1, <1>2, TypeParts DEF Typed, Abandon
<1>4. lost' \subseteq 1 .. issued
  <2>1. CASE Call(t).pc = "renewed"
    <3>1. Call(t).token \in 0 .. issued
      BY <1>2 DEF Call, HandlerSet
    <3>2. Call(t).token # 0
      BY <2>1, CallsOfTab DEF Call, None, Named
    <3> QED BY <2>1, <3>1, <3>2, TypeParts DEF Typed, Abandon, Call
  <2>2. CASE Call(t).pc # "renewed"
    BY <2>2, TypeParts DEF Typed, Abandon, Call
  <2> QED BY <2>1, <2>2
<1> QED BY <1>3, <1>4

-----------------------------------------------------------------------------
(* What a step leaves alone *)

\* The pairs that were issued before are as good as they were, but for refresh tokens
\* that are no longer accepted.
OlderKept ==
  /\ fresh \subseteq fresh'
  /\ \A k \in 0 .. issued : k \in fresh' => k \in fresh
  /\ \A k \in 0 .. issued : k \in live' => k \in live

SameTab(t) == held'[t] = held[t] /\ refreshing'[t] = refreshing[t] /\ Call(t)' = Call(t)

LEMMA CallType ==
  ASSUME TypeOK, NEW t \in Tabs
  PROVE  Call(t) \in HandlerSet(issued)
BY TypeParts, CallsOfTab DEF Typed, Call

LEMMA JoinedKept ==
  ASSUME TypeOK, Named, OlderKept, NEW t \in Tabs, Joined(t), SameTab(t),
         \A q \in Requests : q[1] = t /\ request[q].pc = "waiting" => request'[q].pc = "waiting"
  PROVE  Joined(t)'
<1>1. Call(t) \in HandlerSet(issued) /\ <<t, "awaited">> \in Calls
  BY CallType, CallsOfTab
<1>2. Refreshing(t)' <=> Refreshing(t)
  BY DEF SameTab, Refreshing
<1>3. (refreshing[t] = None <=> ~Refreshing(t))'
  BY <1>2 DEF SameTab, Joined
<1>4. ASSUME Refreshing(t)
      PROVE  /\ held'[t] \in {None, Call(t)'.token} \/ (held'[t] > Call(t)'.token /\ held'[t] \in fresh')
             /\ \E q \in Requests : q[1] = t /\ request'[q].pc = "waiting"
  BY <1>4 DEF SameTab, Joined, OlderKept
<1>5. (Call(t).pc \in {"revoke", "renewed"} => Call(t).new > Call(t).token /\ Call(t).new \in fresh)'
  BY DEF SameTab, Joined, OlderKept
<1>6. ASSUME Call(t)'.pc = "denied"
      PROVE  Call(t)'.token \notin live'
  <2>1. Call(t).token \in 0 .. issued
    BY <1>1 DEF HandlerSet
  <2> QED BY <2>1, <1>6 DEF SameTab, Joined, OlderKept
<1> QED BY <1>2, <1>3, <1>4, <1>5, <1>6 DEF Joined

LEMMA TrackedKept ==
  ASSUME TypeOK, OlderKept, NEW q \in Requests, Tracked(q), request'[q] = request[q],
         request[q].pc = "waiting" /\ Refreshing(q[1]) =>
           Refreshing(q[1])' /\ Call(q[1])'.token = Call(q[1]).token
  PROVE  Tracked(q)'
<1>1. request[q].bearer \in 0 .. issued
  BY TypeParts DEF Typed, RequestSet
<1>2. (request[q].pc = "waiting" =>
       /\ Refreshing(q[1])
       /\ request[q].token = Call(q[1]).token /\ request[q].bearer = request[q].token)'
  BY DEF Tracked
<1>3. (request[q].pc # "idle" /\ request[q].again => request[q].bearer \in fresh)'
  BY DEF Tracked, OlderKept
<1>4. (request[q].pc = "refused" => request[q].bearer \notin fresh)'
  BY <1>1 DEF Tracked, OlderKept
<1> QED BY <1>2, <1>3, <1>4 DEF Tracked

LEMMA AccountedKept ==
  ASSUME Accounted, issued' = issued,
         live \cup lost \cup over \subseteq live' \cup lost' \cup over',
         \A t \in Tabs : Call(t).pc = "renewed" =>
           Call(t)' = Call(t) \/ Call(t).token \in lost' \cup over'
  PROVE  Accounted'
<1> SUFFICES ASSUME NEW k \in 1 .. issued
             PROVE  k \in live' \cup lost' \cup over' \/ Renewed(k)'
  BY DEF Accounted
<1>1. CASE k \in live \cup lost \cup over
  BY <1>1
<1>2. CASE Renewed(k)
  BY <1>2 DEF Renewed
<1> QED BY <1>1, <1>2 DEF Accounted

\* Steps that tabs, handlers and requests take no notice of.
LEMMA Unnoticed ==
  ASSUME Inv, UNCHANGED <<issued, held, refreshing, handler, request>>, OlderKept,
         live \cup lost \cup over \subseteq live' \cup lost' \cup over'
  PROVE  Accounted' /\ (\A t \in Tabs : Joined(t)') /\ (\A q \in Requests : Tracked(q)')
<1>1. Accounted'
  BY AccountedKept DEF Inv, Call
<1>2. ASSUME NEW t \in Tabs PROVE Joined(t)'
  BY JoinedKept DEF Inv, SameTab, Call
<1>3. ASSUME NEW q \in Requests PROVE Tracked(q)'
  BY TrackedKept DEF Inv, Call, Refreshing
<1> QED BY <1>1, <1>2, <1>3

\* Steps of one tab.
LEMMA OthersKept ==
  ASSUME Inv, OlderKept, NEW t \in Tabs,
         \A s \in Tabs : s # t => SameTab(s),
         \A q \in Requests : q[1] # t => request'[q] = request[q]
  PROVE  /\ \A s \in Tabs : s # t => Joined(s)'
         /\ \A q \in Requests : q[1] # t => Tracked(q)'
<1>1. ASSUME NEW s \in Tabs, s # t PROVE Joined(s)'
  BY <1>1, JoinedKept DEF Inv
<1>2. ASSUME NEW q \in Requests, q[1] # t PROVE Tracked(q)'
  <2>1. SameTab(q[1])
    BY <1>2, TabOfRequest
  <2> QED BY <1>2, <2>1, TrackedKept DEF Inv, SameTab, Refreshing
<1> QED BY <1>1, <1>2

\* A tab that waits for no refresh, with requests that do not wait.
LEMMA LetGo ==
  ASSUME NEW t \in Tabs, refreshing'[t] = None, Call(t)'.pc = "idle"
  PROVE  Joined(t)'
BY DEF Joined, Refreshing

LEMMA RejectedTracked ==
  ASSUME Inv, OlderKept, NEW t \in Tabs, request' = Rejected(t), NEW q \in Requests, q[1] = t
  PROVE  Tracked(q)'
<1>1. CASE request[q].pc = "waiting"
  <2>1. request'[q] = NoRequest
    BY <1>1 DEF Rejected
  <2> QED BY <2>1 DEF Tracked, NoRequest
<1>2. CASE request[q].pc # "waiting"
  <2>1. request'[q] = request[q]
    BY <1>2 DEF Rejected
  <2> QED BY <1>2, <2>1, TrackedKept DEF Inv
<1> QED BY <1>1, <1>2

LEMMA RejectedOthers ==
  ASSUME NEW t \in Tabs, request' = Rejected(t), NEW q \in Requests, q[1] # t
  PROVE  request'[q] = request[q]
BY DEF Rejected

LEMMA AbandonFrame ==
  ASSUME Inv, NEW t \in Tabs, Abandon(t)
  PROVE  /\ \A s \in Tabs : s # t => Call(s)' = Call(s)
         /\ Call(t)'.pc = "idle"
         /\ \A c \in Calls : handler'[c].pc # "idle" => handler'[c].token # None
         /\ lost \subseteq lost'
         /\ Call(t).pc = "renewed" => Call(t).token \in lost'
<1> DEFINE awaited == <<t, "awaited">>
           late == <<t, "late">>
<1>1. awaited \in Calls /\ late \in Calls /\ awaited # late
  BY CallsOfTab
<1>2. handler \in [Calls -> HandlerSet(issued)]
  BY TypeParts DEF Typed, Inv
<1>3. \/ handler' = [handler EXCEPT ![awaited] = NoCall]
      \/ handler' = [handler EXCEPT ![awaited] = NoCall, ![late] = handler[awaited]]
  BY DEF Abandon
<1>4. handler'[awaited] = NoCall
  BY <1>1, <1>2, <1>3
<1>5. ASSUME NEW c \in Calls, c # awaited
      PROVE  handler'[c] \in {handler[c], handler[awaited]} /\ (c # late => handler'[c] = handler[c])
  BY <1>1, <1>2, <1>3, <1>5
<1>6. ASSUME NEW s \in Tabs, s # t PROVE Call(s)' = Call(s)
  <2>1. <<s, "awaited">> \in Calls /\ <<s, "awaited">> # awaited /\ <<s, "awaited">> # late
    BY <1>6, CallsOfTab
  <2> HIDE DEF awaited, late
  <2> QED BY <1>5, <2>1 DEF Call
<1>7. Call(t)'.pc = "idle"
  BY <1>4 DEF Call, NoCall
<1>8. ASSUME NEW c \in Calls, handler'[c].pc # "idle" PROVE handler'[c].token # None
  BY <1>1, <1>4, <1>5, <1>8 DEF Inv, Named, NoCall
<1>9. lost \subseteq lost' /\ (Call(t).pc = "renewed" => Call(t).token \in lost')
  BY DEF Abandon, Call
<1> QED BY <1>6, <1>7, <1>8, <1>9

-----------------------------------------------------------------------------
(* The initial states *)

LEMMA InvInit == Init => Inv
<1> SUFFICES ASSUME Init PROVE Inv
  OBVIOUS
<1>1. TypeOK
  BY InitType
<1>2. Named
  BY DEF Init, Named, NoCall, Stays
<1>3. Accounted
  BY DEF Init, Accounted
<1>4. ASSUME NEW t \in Tabs PROVE Joined(t)
  BY CallsOfTab DEF Init, Joined, Call, Refreshing, NoCall
<1>5. ASSUME NEW q \in Requests PROVE Tracked(q)
  BY DEF Init, Tracked, NoRequest
<1> QED BY <1>1, <1>2, <1>3, <1>4, <1>5 DEF Inv

-----------------------------------------------------------------------------
(* Time passes *)

LEMMA InvAccessExpires ==
  ASSUME Inv, NEW k \in 1 .. issued, AccessExpires(k)
  PROVE  Inv'
<1> USE DEF AccessExpires
<1>1. TypeOK'
  <2>1. counts' \in CountSet
    BY BoundsAssumption DEF Inv, TypeOK, CountSet
  <2> QED BY <2>1, TypeParts DEF Typed, Inv
<1>2. Named'
  BY DEF Inv, Named
<1>3. Accounted'
  BY AccountedKept DEF Inv, Call
<1>4. ASSUME NEW t \in Tabs PROVE Joined(t)'
  <2>1. Call(t)' = Call(t) /\ Call(t) \in HandlerSet(issued) /\ held[t] \in 0 .. issued
    BY CallType, TypeParts DEF Typed, Call, Inv
  <2>2. ASSUME Refreshing(t) PROVE k <= Call(t).token
    BY <2>2, TabOfRequest DEF Inv, Joined, Tracked
  <2>3. Refreshing(t)' <=> Refreshing(t)
    BY <2>1 DEF Refreshing
  <2>4. ASSUME Refreshing(t)
        PROVE  held[t] \in {None, Call(t).token} \/ (held[t] > Call(t).token /\ held[t] \in fresh')
    BY <2>1, <2>2, <2>4 DEF Inv, Joined, HandlerSet
  <2>5. ASSUME Call(t).pc \in {"revoke", "renewed"}
        PROVE  Call(t).new > Call(t).token /\ Call(t).new \in fresh'
    BY <2>1, <2>2, <2>5 DEF Inv, Joined, HandlerSet, Refreshing
  <2> QED BY <2>1, <2>3, <2>4, <2>5 DEF Inv, Joined
<1>5. ASSUME NEW q \in Requests PROVE Tracked(q)'
  BY <1>5 DEF Inv, Tracked, Call, Refreshing
<1> QED BY <1>1, <1>2, <1>3, <1>4, <1>5 DEF Inv

LEMMA InvRefreshExpires ==
  ASSUME Inv, NEW k \in 1 .. issued, RefreshExpires(k)
  PROVE  Inv'
<1> USE DEF RefreshExpires
<1>1. TypeOK'
  BY TypeParts DEF Typed, Inv
<1>2. Named'
  BY DEF Inv, Named
<1> QED BY <1>1, <1>2, Unnoticed DEF Inv, OlderKept

-----------------------------------------------------------------------------
(* Signing in, loading pages, sending requests *)

\* What follows from TypeOK when a pair is issued.
LEMMA IssueType ==
  ASSUME TypeOK, IssuePair
  PROVE  /\ issued' = issued + 1 /\ issued' \in Nat
         /\ live' \subseteq 1 .. issued' /\ fresh' \subseteq 1 .. issued'
         /\ lost \subseteq 1 .. issued' /\ over \subseteq 1 .. issued'
         /\ storage \in 0 .. issued'
         /\ held \in [Tabs -> 0 .. issued'] /\ refreshing \in [Tabs -> 0 .. issued']
         /\ handler \in [Calls -> HandlerSet(issued')]
         /\ leaving \in [Tabs -> LeavingSet(issued')]
         /\ request \in [Requests -> RequestSet(issued')]
         /\ OlderKept
<1>1. issued' = issued + 1 /\ issued' \in Nat
  BY DEF TypeOK, IssuePair
<1>2. /\ 1 .. issued \subseteq 1 .. issued' /\ 0 .. issued \subseteq 0 .. issued' /\ issued' \in 1 .. issued'
      /\ HandlerSet(issued) \subseteq HandlerSet(issued')
      /\ RequestSet(issued) \subseteq RequestSet(issued')
      /\ LeavingSet(issued) \subseteq LeavingSet(issued')
  BY <1>1, Grown, TypeParts DEF Typed
<1>3. live' = live \cup {issued'} /\ fresh' = fresh \cup {issued'}
  BY <1>1 DEF IssuePair
<1>4. live' \subseteq 1 .. issued' /\ fresh' \subseteq 1 .. issued'
  BY <1>2, <1>3, TypeParts DEF Typed
<1>5. lost \subseteq 1 .. issued' /\ over \subseteq 1 .. issued' /\ storage \in 0 .. issued'
  BY <1>2, TypeParts DEF Typed
<1>6. held \in [Tabs -> 0 .. issued'] /\ refreshing \in [Tabs -> 0 .. issued']
  BY <1>2, TypeParts DEF Typed
<1>7. handler \in [Calls -> HandlerSet(issued')]
  BY <1>2, TypeParts DEF Typed
<1>8. leaving \in [Tabs -> LeavingSet(issued')] /\ request \in [Requests -> RequestSet(issued')]
  BY <1>2, TypeParts DEF Typed
<1>9. OlderKept
  BY <1>1, <1>3 DEF OlderKept, TypeOK
<1> QED BY <1>1, <1>4, <1>5, <1>6, <1>7, <1>8, <1>9

LEMMA InvSignIn ==
  ASSUME Inv, NEW t \in Tabs, SignIn(t)
  PROVE  Inv'
<1> USE DEF SignIn, SetTokens
<1>1. TypeOK'
  <2>1. counts' \in CountSet
    BY BoundsAssumption DEF Inv, TypeOK, CountSet
  <2>2. issued' \in 0 .. issued' /\ issued + 1 = issued'
    BY IssueType DEF Inv
  <2>3. storage' \in 0 .. issued' /\ held' \in [Tabs -> 0 .. issued']
    BY <2>2, IssueType DEF Inv
  <2> QED BY <2>1, <2>3, IssueType, TypeParts DEF Typed, Inv
<1>2. Named'
  BY DEF Inv, Named
<1>3. Accounted'
  <2> SUFFICES ASSUME NEW k \in 1 .. issued'
               PROVE  k \in live' \cup lost' \cup over' \/ Renewed(k)'
    BY DEF Accounted
  <2>1. CASE k = issued + 1
    BY <2>1 DEF IssuePair
  <2>2. CASE k # issued + 1
    <3>1. k \in 1 .. issued
      BY <2>2, IssueType, TypeParts DEF Typed, Inv
    <3>2. Renewed(k)' <=> Renewed(k)
      BY DEF Renewed, Call
    <3> QED BY <3>1, <3>2 DEF Inv, Accounted, IssuePair
  <2> QED BY <2>1, <2>2
<1>4. ASSUME NEW s \in Tabs PROVE Joined(s)'
  <2>1. CASE s # t
    <3>1. SameTab(s)
      BY <2>1, TypeParts DEF Typed, SameTab, Call, Inv
    <3> QED BY <3>1, JoinedKept, IssueType DEF Inv
  <2>2. CASE s = t
    <3>1. Call(t)' = Call(t) /\ Call(t) \in HandlerSet(issued) /\ issued \in Nat
      BY CallType, TypeParts DEF Typed, Call, Inv
    <3>2. held'[t] = issued + 1 /\ held'[t] \in fresh'
      BY TypeParts DEF Typed, Inv, IssuePair
    <3>3. issued + 1 > Call(t).token
      BY <3>1 DEF HandlerSet
    <3>4. Refreshing(t)' <=> Refreshing(t)
      BY <3>1 DEF Refreshing
    <3>5. Call(t).pc = "denied" => Call(t).token \notin live'
      <4>1. Call(t).token \in 0 .. issued
        BY <3>1 DEF HandlerSet
      <4> QED BY <4>1, IssueType DEF Inv, Joined, OlderKept
    <3>6. Call(t).pc \in {"revoke", "renewed"} => Call(t).new > Call(t).token /\ Call(t).new \in fresh'
      BY DEF Inv, Joined, IssuePair
    <3> QED BY <2>2, <3>1, <3>2, <3>3, <3>4, <3>5, <3>6 DEF Inv, Joined
  <2> QED BY <2>1, <2>2
<1>5. ASSUME NEW q \in Requests PROVE Tracked(q)'
  BY <1>5, TrackedKept, IssueType DEF Inv, Call, Refreshing
<1> QED BY <1>1, <1>2, <1>3, <1>4, <1>5 DEF Inv

LEMMA InvLoadPage ==
  ASSUME Inv, NEW t \in Tabs, LoadPage(t)
  PROVE  Inv'
<1> USE DEF LoadPage
<1>1. TypeOK'
  <2>1. request' \in [Requests -> RequestSet(issued)]
    BY TypeParts DEF Typed, Inv, NoRequest, RequestSet, RequestPc, None
  <2>2. refreshing' \in [Tabs -> 0 .. issued]
    BY TypeParts DEF Typed, Inv, None
  <2>3. held' \in [Tabs -> 0 .. issued]
    BY TypeParts DEF Typed, Inv
  <2> QED BY <2>1, <2>2, <2>3, ClickType, AbandonType, TypeParts DEF Typed, Inv, serverVars
<1>2. Named'
  BY AbandonFrame DEF Inv, Named
<1>3. Accounted'
  <2>1. \A s \in Tabs : Call(s).pc = "renewed" => Call(s)' = Call(s) \/ Call(s).token \in lost'
    BY AbandonFrame
  <2> QED BY <2>1, AbandonFrame, AccountedKept DEF Inv, serverVars
<1>4. OlderKept
  BY DEF OlderKept, serverVars
<1>5. /\ \A s \in Tabs : s # t => SameTab(s)
      /\ \A q \in Requests : q[1] # t => request'[q] = request[q]
  BY AbandonFrame, TypeParts DEF Typed, Inv, SameTab
<1>6. Joined(t)'
  BY AbandonFrame, LetGo, TypeParts DEF Typed, Inv
<1>7. ASSUME NEW q \in Requests, q[1] = t PROVE Tracked(q)'
  <2>1. request'[q] = NoRequest
    BY <1>7
  <2> QED BY <2>1 DEF Tracked, NoRequest
<1> QED BY <1>1, <1>2, <1>3, <1>4, <1>5, <1>6, <1>7, OthersKept DEF Inv

LEMMA SentType ==
  ASSUME NEW n \in Nat, NEW b \in 0 .. n, NEW r, r = [NoRequest EXCEPT !.pc = "sent", !.bearer = b]
  PROVE  r \in RequestSet(n) /\ r.pc = "sent" /\ r.again = FALSE
<1>1. NoRequest \in RequestSet(n) /\ NoRequest.again = FALSE
  BY DEF NoRequest, RequestSet, RequestPc, None
<1> QED BY <1>1 DEF RequestSet, RequestPc

LEMMA InvSend ==
  ASSUME Inv, NEW q \in Requests, Send(q)
  PROVE  Inv'
<1> USE DEF Send
<1> DEFINE r == [NoRequest EXCEPT !.pc = "sent", !.bearer = held[q[1]]]
<1>1. r \in RequestSet(issued) /\ r.pc = "sent" /\ r.again = FALSE
  <2>1. held[q[1]] \in 0 .. issued /\ issued \in Nat
    BY TabOfRequest, TypeParts DEF Typed, Inv
  <2> QED BY <2>1, SentType
<1>2. /\ request' = [request EXCEPT ![q] = r]
      /\ request'[q] = r
      /\ \A o \in Requests : o # q => request'[o] = request[o]
  BY TypeParts DEF Typed, Inv
<1> HIDE DEF r
<1>3. TypeOK'
  BY <1>1, <1>2, TypeParts DEF Typed, Inv, serverVars
<1>4. Named'
  BY DEF Inv, Named
<1>5. Accounted'
  BY AccountedKept DEF Inv, Call, serverVars
<1>6. OlderKept
  BY DEF OlderKept, serverVars
<1>7. ASSUME NEW t \in Tabs PROVE Joined(t)'
  BY <1>1, <1>2, <1>6, JoinedKept DEF Inv, SameTab, Call
<1>8. ASSUME NEW o \in Requests PROVE Tracked(o)'
  <2>1. CASE o = q
    BY <1>1, <1>2, <2>1 DEF Tracked
  <2>2. CASE o # q
    BY <1>2, <1>6, <2>2, TrackedKept DEF Inv, Call, Refreshing
  <2> QED BY <2>1, <2>2
<1> QED BY <1>3, <1>4, <1>5, <1>7, <1>8 DEF Inv

LEMMA InvAnswer ==
  ASSUME Inv, NEW q \in Requests, Answer(q)
  PROVE  Inv'
<1> USE DEF Answer
<1>1. PICK r \in RequestSet(issued) :
        /\ request' = [request EXCEPT ![q] = r]
        /\ r.pc \in {"idle", "refused"} /\ (r.again => request[q].again)
        /\ r.pc = "refused" => r.bearer = request[q].bearer /\ r.bearer \notin fresh
  <2>1. CASE request[q].bearer \in fresh
    <3>1. NoRequest \in RequestSet(issued) /\ NoRequest.pc = "idle" /\ ~NoRequest.again
      BY TypeParts DEF Typed, Inv, NoRequest, RequestSet, RequestPc, None
    <3>2. request' = [request EXCEPT ![q] = NoRequest]
      BY <2>1
    <3> QED BY <3>1, <3>2
  <2>2. CASE request[q].bearer \notin fresh
    <3>1. [request[q] EXCEPT !.pc = "refused"] \in RequestSet(issued)
      BY TypeParts DEF Typed, Inv, RequestSet, RequestPc
    <3> QED BY <2>2, <3>1, TypeParts DEF Typed, Inv, RequestSet
  <2> QED BY <2>1, <2>2
<1>2. request'[q] = r /\ \A o \in Requests : o # q => request'[o] = request[o]
  BY <1>1, TypeParts DEF Typed, Inv
<1>3. TypeOK'
  BY <1>1, TypeParts DEF Typed, Inv, serverVars
<1>4. Named'
  BY DEF Inv, Named
<1>5. Accounted'
  BY AccountedKept DEF Inv, Call, serverVars
<1>6. OlderKept
  BY DEF OlderKept, serverVars
<1>7. ASSUME NEW t \in Tabs PROVE Joined(t)'
  BY <1>2, <1>6, JoinedKept DEF Inv, SameTab, Call
<1>8. ASSUME NEW o \in Requests PROVE Tracked(o)'
  <2>1. CASE o = q
    <3>1. r.again /\ r.pc # "idle" => r.bearer \in fresh
      BY <1>1 DEF Inv, Tracked
    <3>2. UNCHANGED fresh
      BY DEF serverVars
    <3> QED BY <1>1, <1>2, <2>1, <3>1, <3>2 DEF Tracked
  <2>2. CASE o # q
    BY <1>2, <1>6, <2>2, TrackedKept DEF Inv, Call, Refreshing
  <2> QED BY <2>1, <2>2
<1> QED BY <1>3, <1>4, <1>5, <1>7, <1>8 DEF Inv

\* A step that replaces one handler.
LEMMA OneHandler ==
  ASSUME TypeOK, NEW c \in Calls, NEW v, handler' = [handler EXCEPT ![c] = v]
  PROVE  /\ handler'[c] = v
         /\ \A d \in Calls : d # c => handler'[d] = handler[d]
         /\ \A t \in Tabs : Call(t)' = IF c = <<t, "awaited">> THEN v ELSE Call(t)
         /\ v \in HandlerSet(issued) => handler' \in [Calls -> HandlerSet(issued)]
<1>1. handler \in [Calls -> HandlerSet(issued)]
  BY TypeParts DEF Typed
<1>2. handler'[c] = v /\ \A d \in Calls : d # c => handler'[d] = handler[d]
  BY <1>1
<1>3. ASSUME NEW t \in Tabs PROVE Call(t)' = IF c = <<t, "awaited">> THEN v ELSE Call(t)
  BY <1>2, CallsOfTab DEF Call
<1>4. v \in HandlerSet(issued) => handler' \in [Calls -> HandlerSet(issued)]
  BY <1>1
<1> QED BY <1>2, <1>3, <1>4

\* A request that was refused was not sent again, and is about the token its tab's
\* refresh is for, if the tab still has it.
LEMMA RefusedIsStale ==
  ASSUME Inv, NEW q \in Requests, request[q].pc = "refused"
  PROVE  /\ ~request[q].again
         /\ Current(q) /\ Refreshing(q[1]) => held[q[1]] = Call(q[1]).token
<1>1. request[q].bearer \notin fresh
  BY DEF Inv, Tracked
<1>2. ~request[q].again
  BY <1>1 DEF Inv, Tracked
<1>3. Current(q) /\ Refreshing(q[1]) => held[q[1]] = Call(q[1]).token
  BY <1>1, TabOfRequest DEF Inv, Joined, Current
<1> QED BY <1>2, <1>3

\* The request waits for a refresh: one under way, or a new one.
LEMMA InvWait ==
  ASSUME Inv, NEW q \in Requests, Refused(q), Current(q)
  PROVE  Inv'
<1> DEFINE t == q[1]
           r == [request[q] EXCEPT !.pc = "waiting", !.token = held[t]]
           v == [NoCall EXCEPT !.pc = "find", !.token = held[t]]
<1>1. t \in Tabs /\ issued \in Nat /\ held[t] \in 1 .. issued /\ request[q] \in RequestSet(issued)
  BY TabOfRequest, TypeParts DEF Typed, Inv, Current, None
<1>2. ~request[q].again /\ request[q].pc = "refused" /\ (Refreshing(t) => held[t] = Call(t).token)
  BY RefusedIsStale DEF Refused
<1>3. request' = [request EXCEPT ![q].pc = "waiting", ![q].token = held[t]]
  BY <1>2 DEF Refused
<1>4. UNCHANGED <<serverVars, storage, held, leaving, lost, over, counts>>
  BY <1>2 DEF Refused
<1>5. \/ /\ refreshing[t] = None
         /\ refreshing' = [refreshing EXCEPT ![t] = held[t]]
         /\ handler' = [handler EXCEPT ![<<t, "awaited">>] = v]
      \/ refreshing[t] # None /\ UNCHANGED <<refreshing, handler>>
  BY <1>2 DEF Refused
<1>6. /\ r \in RequestSet(issued) /\ r.pc = "waiting" /\ r.again = FALSE
      /\ r.token = held[t] /\ r.bearer = held[t]
  BY <1>1, <1>2 DEF RequestSet, RequestPc, Current
<1>7. v \in HandlerSet(issued) /\ v.pc = "find" /\ v.token = held[t]
  <2>1. NoCall \in HandlerSet(issued)
    BY <1>1 DEF NoCall, HandlerSet, HandlerPc, None
  <2>2. held[t] \in 0 .. issued
    BY <1>1
  <2> QED BY <2>1, <2>2 DEF HandlerSet, HandlerPc
<1>8. /\ request' = [request EXCEPT ![q] = r]
      /\ request'[q] = r
      /\ \A o \in Requests : o # q => request'[o] = request[o]
  BY <1>3, TypeParts DEF Typed, Inv
<1> HIDE DEF r, v
<1>9. refreshing[t] = None <=> ~Refreshing(t)
  BY <1>1 DEF Inv, Joined
<1>10. CASE refreshing[t] = None
  <2> DEFINE c == <<t, "awaited">>
  <2>1. c \in Calls /\ handler' = [handler EXCEPT ![c] = v]
    BY <1>1, <1>5, <1>10, CallsOfTab
  <2>2. /\ handler' \in [Calls -> HandlerSet(issued)] /\ handler'[c] = v
        /\ \A d \in Calls : d # c => handler'[d] = handler[d]
        /\ \A s \in Tabs : Call(s)' = IF c = <<s, "awaited">> THEN v ELSE Call(s)
    BY <1>7, <2>1, OneHandler DEF Inv
  <2>3. Call(t)' = v
    BY <1>1, <2>2
  <2>4. \A s \in Tabs : s # t => SameTab(s)
    <3>1. \A s \in Tabs : s # t => Call(s)' = Call(s)
      BY <2>2
    <3> QED BY <1>4, <1>5, <1>10, <3>1, TypeParts DEF Typed, Inv, SameTab
  <2> HIDE DEF c
  <2>5. TypeOK'
    <3>1. refreshing' \in [Tabs -> 0 .. issued]
      BY <1>1, <1>5, <1>10, TypeParts DEF Typed, Inv
    <3>2. request' \in [Requests -> RequestSet(issued)]
      BY <1>6, <1>8, TypeParts DEF Typed, Inv
    <3> QED BY <1>4, <2>2, <3>1, <3>2, TypeParts DEF Typed, Inv, serverVars
  <2>6. Named'
    BY <1>1, <1>4, <1>7, <2>1, <2>2 DEF Inv, Named, None
  <2>7. Accounted'
    <3>1. \A s \in Tabs : Call(s).pc = "renewed" => Call(s)' = Call(s)
      BY <1>9, <1>10, <2>4 DEF SameTab, Refreshing
    <3> QED BY <1>4, <3>1, AccountedKept DEF Inv, serverVars
  <2>8. OlderKept
    BY <1>4 DEF OlderKept, serverVars
  <2>9. Joined(t)'
    <3>1. refreshing'[t] = held[t] /\ held[t] # None
      BY <1>1, <1>5, <1>10, TypeParts DEF Typed, Inv, None
    <3>2. held' = held
      BY <1>4
    <3> QED BY <1>6, <1>7, <1>8, <2>3, <3>1, <3>2 DEF Joined, Refreshing
  <2>10. ASSUME NEW o \in Requests PROVE Tracked(o)'
    <3>1. CASE o = q
      BY <1>6, <1>7, <1>8, <2>3, <3>1 DEF Tracked, Refreshing
    <3>2. CASE o # q
      <4>1. Refreshing(o[1]) => Call(o[1])' = Call(o[1])
        BY <1>9, <1>10, <2>4, TabOfRequest DEF SameTab
      <4> QED BY <1>8, <2>8, <3>2, <4>1, TrackedKept DEF Inv, Refreshing
    <3> QED BY <3>1, <3>2
  <2> QED BY <2>4, <2>5, <2>6, <2>7, <2>8, <2>9, <2>10, JoinedKept, <1>6, <1>8 DEF Inv
<1>11. CASE refreshing[t] # None
  <2>1. UNCHANGED <<refreshing, handler>>
    BY <1>5, <1>11
  <2>2. TypeOK'
    BY <1>4, <1>6, <1>8, <2>1, TypeParts DEF Typed, Inv, serverVars
  <2>3. Named'
    BY <1>4, <2>1 DEF Inv, Named
  <2>4. Accounted'
    BY <1>4, <2>1, AccountedKept DEF Inv, Call, serverVars
  <2>5. OlderKept
    BY <1>4 DEF OlderKept, serverVars
  <2>6. ASSUME NEW s \in Tabs PROVE Joined(s)'
    BY <1>4, <1>6, <1>8, <2>1, <2>5, JoinedKept DEF Inv, SameTab, Call
  <2>7. ASSUME NEW o \in Requests PROVE Tracked(o)'
    <3>1. CASE o = q
      BY <1>2, <1>6, <1>8, <1>9, <1>11, <2>1, <3>1 DEF Tracked, Refreshing, Call
    <3>2. CASE o # q
      BY <1>8, <2>1, <2>5, <3>2, TrackedKept DEF Inv, Refreshing, Call
    <3> QED BY <3>1, <3>2
  <2> QED BY <2>2, <2>3, <2>4, <2>6, <2>7 DEF Inv
<1> QED BY <1>10, <1>11

\* A refused request of a session the tab no longer has ends, and changes nothing else.
LEMMA InvRefused ==
  ASSUME Inv, NEW q \in Requests, Refused(q)
  PROVE  Inv'
<1>1. CASE Current(q)
  BY <1>1, InvWait
<1>2. CASE ~Current(q)
  <2>1. /\ request[q].pc = "refused" /\ request' = [request EXCEPT ![q] = NoRequest]
        /\ UNCHANGED <<serverVars, storage, held, refreshing, handler, leaving, lost, over, counts>>
    BY <1>2 DEF Refused
  <2>2. request'[q] = NoRequest /\ \A o \in Requests : o # q => request'[o] = request[o]
    BY <2>1, TypeParts DEF Typed, Inv
  <2>3. TypeOK'
    <3>1. NoRequest \in RequestSet(issued)
      BY TypeParts DEF Typed, Inv, NoRequest, RequestSet, RequestPc, None
    <3> QED BY <2>1, <3>1, TypeParts DEF Typed, Inv, serverVars
  <2>4. Named'
    BY <2>1 DEF Inv, Named
  <2>5. Accounted'
    BY <2>1, AccountedKept DEF Inv, Call, serverVars
  <2>6. OlderKept
    BY <2>1 DEF OlderKept, serverVars
  <2>7. ASSUME NEW s \in Tabs PROVE Joined(s)'
    BY <2>1, <2>2, <2>6, JoinedKept DEF Inv, SameTab, Call
  <2>8. ASSUME NEW o \in Requests PROVE Tracked(o)'
    <3>1. CASE o = q
      BY <2>2, <3>1 DEF Tracked, NoRequest
    <3>2. CASE o # q
      BY <2>1, <2>2, <2>6, <3>2, TrackedKept DEF Inv, Call, Refreshing
    <3> QED BY <3>1, <3>2
  <2> QED BY <2>3, <2>4, <2>5, <2>7, <2>8 DEF Inv
<1> QED BY <1>1, <1>2

-----------------------------------------------------------------------------
(* The refresh handler *)

\* A step of a handler that does not end while its tab waits.
LEMMA HandlerMoves ==
  ASSUME Inv, OlderKept, NEW c \in Calls, NEW v,
         handler' = [handler EXCEPT ![c] = v],
         UNCHANGED <<held, refreshing, request, leaving>>,
         handler[c].pc # "idle",
         v.pc # "idle" => v.token = handler[c].token,
         c[2] # "late" =>
           /\ v.pc # "idle"
           /\ v.pc \in {"revoke", "renewed"} => v.new > v.token /\ v.new \in fresh'
           /\ v.pc = "denied" => v.token \notin live'
  PROVE  Named' /\ (\A t \in Tabs : Joined(t)') /\ (\A q \in Requests : Tracked(q)')
<1>1. /\ handler'[c] = v
      /\ \A d \in Calls : d # c => handler'[d] = handler[d]
      /\ \A t \in Tabs : Call(t)' = IF c = <<t, "awaited">> THEN v ELSE Call(t)
  BY OneHandler DEF Inv
<1>2. Named'
  BY <1>1 DEF Inv, Named
<1>3. ASSUME NEW t \in Tabs PROVE Joined(t)'
  <2>1. CASE c = <<t, "awaited">>
    <3>1. Call(t) = handler[c] /\ Call(t)' = v /\ c[2] # "late"
      BY <1>1, <2>1 DEF Call
    <3>2. Refreshing(t) /\ Refreshing(t)' /\ v.token = Call(t).token
      BY <3>1 DEF Refreshing
    <3>3. held'[t] \in {None, v.token} \/ (held'[t] > v.token /\ held'[t] \in fresh')
      BY <3>2 DEF Inv, Joined, OlderKept
    <3>4. refreshing'[t] # None /\ \E q \in Requests : q[1] = t /\ request'[q].pc = "waiting"
      BY <3>2 DEF Inv, Joined
    <3> QED BY <3>1, <3>2, <3>3, <3>4 DEF Joined
  <2>2. CASE c # <<t, "awaited">>
    BY <1>1, <2>2, JoinedKept DEF Inv, SameTab
  <2> QED BY <2>1, <2>2
<1>4. ASSUME NEW q \in Requests PROVE Tracked(q)'
  <2>1. Refreshing(q[1]) => Refreshing(q[1])' /\ Call(q[1])'.token = Call(q[1]).token
    <3>1. CASE c = <<q[1], "awaited">>
      <4>1. Call(q[1]) = handler[c] /\ Call(q[1])' = v /\ c[2] # "late"
        BY <1>1, <3>1, TabOfRequest DEF Call
      <4> QED BY <4>1 DEF Refreshing
    <3>2. CASE c # <<q[1], "awaited">>
      BY <1>1, <3>2, TabOfRequest DEF Refreshing
    <3> QED BY <3>1, <3>2
  <2> QED BY <2>1, TrackedKept DEF Inv
<1> QED BY <1>2, <1>3, <1>4

\* What Reply leaves of a handler.
Replied(c, answer) == IF c[2] = "late" THEN NoCall ELSE [handler[c] EXCEPT !.pc = answer]

LEMMA RepliedParts ==
  ASSUME TypeOK, NEW c \in Calls, NEW answer \in {"renewed", "denied", "error"}, Reply(c, answer)
  PROVE  /\ handler' = [handler EXCEPT ![c] = Replied(c, answer)]
         /\ c[2] # "late" =>
              /\ Replied(c, answer).pc = answer
              /\ Replied(c, answer).token = handler[c].token
              /\ Replied(c, answer).new = handler[c].new
         /\ c[2] = "late" => Replied(c, answer).pc = "idle"
<1>1. handler' = [handler EXCEPT ![c] = Replied(c, answer)]
  BY DEF Reply, Replied
<1>2. handler[c] \in HandlerSet(issued)
  BY TypeParts DEF Typed
<1>3. CASE c[2] = "late"
  BY <1>1, <1>3 DEF Replied, NoCall
<1>4. CASE c[2] # "late"
  BY <1>1, <1>2, <1>4 DEF Replied, HandlerSet
<1> QED BY <1>3, <1>4

LEMMA OfCall ==
  ASSUME NEW c \in Calls
  PROVE  /\ c[1] \in Tabs /\ c = <<c[1], c[2]>> /\ c[2] \in {"awaited", "late"}
         /\ c[2] # "late" => handler[c] = Call(c[1])
BY DEF Calls, Call

LEMMA InvFindValid ==
  ASSUME Inv, NEW c \in Calls, FindValid(c)
  PROVE  Inv'
<1>1. OlderKept
  BY DEF OlderKept, FindValid, serverVars
<1>2. CASE handler[c].token \in live
  <2> DEFINE v == [handler[c] EXCEPT !.pc = "issue"]
  <2>1. handler' = [handler EXCEPT ![c] = v] /\ handler[c].pc = "find"
    BY <1>2, TypeParts DEF Typed, Inv, FindValid
  <2>2. v \in HandlerSet(issued) /\ v.pc = "issue" /\ v.token = handler[c].token
    BY TypeParts DEF Typed, Inv, HandlerSet, HandlerPc
  <2> HIDE DEF v
  <2>3. Named' /\ (\A t \in Tabs : Joined(t)') /\ (\A q \in Requests : Tracked(q)')
    BY <1>1, <2>1, <2>2, HandlerMoves DEF FindValid
  <2>4. handler' \in [Calls -> HandlerSet(issued)]
        /\ \A t \in Tabs : Call(t).pc = "renewed" => Call(t)' = Call(t)
    BY <2>1, <2>2, OneHandler DEF Inv, Call
  <2>5. TypeOK'
    BY <2>4, TypeParts DEF Typed, Inv, FindValid, serverVars
  <2>6. Accounted'
    BY <2>4, AccountedKept DEF Inv, FindValid, serverVars
  <2> QED BY <2>3, <2>5, <2>6 DEF Inv
<1>3. CASE handler[c].token \notin live
  <2> DEFINE v == Replied(c, "denied")
  <2>1. Reply(c, "denied") /\ handler[c].pc = "find"
    BY <1>3 DEF FindValid
  <2>2. /\ handler' = [handler EXCEPT ![c] = v]
        /\ c[2] # "late" => v.pc = "denied" /\ v.token = handler[c].token
        /\ c[2] = "late" => v.pc = "idle"
    BY <2>1, RepliedParts DEF Inv
  <2> HIDE DEF v
  <2>3. handler[c].token \notin live'
    BY <1>3 DEF FindValid, serverVars
  <2>4. Named' /\ (\A t \in Tabs : Joined(t)') /\ (\A q \in Requests : Tracked(q)')
    BY <1>1, <2>1, <2>2, <2>3, HandlerMoves DEF FindValid
  <2>5. \A t \in Tabs : Call(t).pc = "renewed" => Call(t)' = Call(t)
    BY <2>1, <2>2, OneHandler DEF Inv, Call
  <2>6. handler' \in [Calls -> HandlerSet(issued)]
    BY <2>1, ReplyType DEF Inv
  <2>7. TypeOK'
    BY <2>6, TypeParts DEF Typed, Inv, FindValid, serverVars
  <2>8. Accounted'
    BY <2>5, AccountedKept DEF Inv, FindValid, serverVars
  <2> QED BY <2>4, <2>7, <2>8 DEF Inv
<1> QED BY <1>2, <1>3

LEMMA InvIssue ==
  ASSUME Inv, NEW c \in Calls, Issue(c)
  PROVE  Inv'
<1> DEFINE v == [handler[c] EXCEPT !.pc = "revoke", !.new = issued + 1]
<1>1. IssuePair /\ handler[c].pc = "issue" /\ handler' = [handler EXCEPT ![c] = v]
  BY TypeParts DEF Typed, Inv, Issue
<1>2. OlderKept /\ issued' = issued + 1 /\ handler \in [Calls -> HandlerSet(issued')] /\ issued \in Nat
  BY <1>1, IssueType DEF Inv, TypeOK
<1>3. handler[c] \in HandlerSet(issued)
  BY TypeParts DEF Typed, Inv
<1>4. /\ v \in HandlerSet(issued') /\ v.pc = "revoke" /\ v.token = handler[c].token
      /\ v.new > v.token /\ v.new \in fresh'
  <2>1. v.pc = "revoke" /\ v.token = handler[c].token /\ v.new = issued + 1
    BY <1>3 DEF HandlerSet
  <2>2. v \in HandlerSet(issued')
    <3>1. handler[c] \in HandlerSet(issued') /\ issued + 1 \in 0 .. issued'
      BY <1>2
    <3> QED BY <3>1 DEF HandlerSet, HandlerPc
  <2>3. v.new > v.token
    BY <1>2, <1>3, <2>1 DEF HandlerSet
  <2> QED BY <1>1, <2>1, <2>2, <2>3 DEF IssuePair
<1> HIDE DEF v
<1>5. Named' /\ (\A t \in Tabs : Joined(t)') /\ (\A q \in Requests : Tracked(q)')
  BY <1>1, <1>2, <1>4, HandlerMoves DEF Issue
<1>6. \A t \in Tabs : Call(t).pc = "renewed" => Call(t)' = Call(t)
  BY <1>1, OneHandler DEF Inv, Call
<1>7. handler' \in [Calls -> HandlerSet(issued')]
  BY <1>1, <1>2, <1>4
<1>8. TypeOK'
  BY <1>1, <1>7, IssueType, TypeParts DEF Typed, Inv, Issue
<1>9. Accounted'
  <2> SUFFICES ASSUME NEW k \in 1 .. issued'
               PROVE  k \in live' \cup lost' \cup over' \/ Renewed(k)'
    BY DEF Accounted
  <2>1. CASE k = issued + 1
    BY <1>1, <2>1 DEF IssuePair
  <2>2. CASE k # issued + 1
    <3>1. k \in 1 .. issued
      BY <1>2, <2>2
    <3>2. Renewed(k) => Renewed(k)'
      BY <1>6 DEF Renewed
    <3> QED BY <1>1, <3>1, <3>2 DEF Inv, Accounted, IssuePair, Issue
  <2> QED BY <2>1, <2>2
<1> QED BY <1>5, <1>8, <1>9 DEF Inv

LEMMA InvRevoke ==
  ASSUME Inv, NEW c \in Calls, Revoke(c)
  PROVE  Inv'
<1> DEFINE v == Replied(c, "renewed")
<1>1. Reply(c, "renewed") /\ handler[c].pc = "revoke" /\ handler[c] \in HandlerSet(issued)
  BY TypeParts DEF Typed, Inv, Revoke
<1>2. /\ handler' = [handler EXCEPT ![c] = v]
      /\ c[2] # "late" => v.pc = "renewed" /\ v.token = handler[c].token /\ v.new = handler[c].new
      /\ c[2] = "late" => v.pc = "idle"
  BY <1>1, RepliedParts DEF Inv
<1> HIDE DEF v
<1>3. OlderKept
  BY DEF OlderKept, Revoke
<1>4. c[2] # "late" => v.new > v.token /\ v.new \in fresh'
  BY <1>1, <1>2, OfCall DEF Inv, Joined, Revoke
<1>5. Named' /\ (\A t \in Tabs : Joined(t)') /\ (\A q \in Requests : Tracked(q)')
  BY <1>1, <1>2, <1>3, <1>4, HandlerMoves DEF Revoke
<1>6. \A t \in Tabs : Call(t).pc = "renewed" => Call(t)' = Call(t)
  BY <1>1, <1>2, OneHandler DEF Inv, Call
<1>7. handler[c].token \in 1 .. issued
  <2>1. handler[c].token \in 0 .. issued /\ handler[c].token # 0
    BY <1>1 DEF Inv, Named, HandlerSet, None
  <2> QED BY <2>1
<1>8. TypeOK'
  <2>1. handler' \in [Calls -> HandlerSet(issued)]
    BY <1>1, ReplyType DEF Inv
  <2>2. lost' \subseteq 1 .. issued /\ live' \subseteq 1 .. issued
    BY <1>7, TypeParts DEF Typed, Inv, Revoke
  <2> QED BY <2>1, <2>2, TypeParts DEF Typed, Inv, Revoke
<1>9. Accounted'
  <2> SUFFICES ASSUME NEW k \in 1 .. issued
               PROVE  k \in live' \cup lost' \cup over' \/ Renewed(k)'
    BY DEF Accounted, Revoke
  <2>1. CASE k = handler[c].token
    <3>1. CASE c[2] = "late"
      BY <2>1, <3>1 DEF Revoke
    <3>2. CASE c[2] # "late"
      <4>1. c[1] \in Tabs /\ c = <<c[1], "awaited">>
        BY <3>2, OfCall
      <4>2. handler'[c] = v /\ Call(c[1])' = handler'[c]
        BY <1>2, <4>1, OneHandler DEF Inv, Call
      <4> QED BY <1>2, <2>1, <3>2, <4>1, <4>2 DEF Renewed
    <3> QED BY <3>1, <3>2
  <2>2. CASE k # handler[c].token
    <3>1. Renewed(k) => Renewed(k)'
      BY <1>6 DEF Renewed
    <3> QED BY <2>2, <3>1 DEF Inv, Accounted, Revoke
  <2> QED BY <2>1, <2>2
<1> QED BY <1>5, <1>8, <1>9 DEF Inv

LEMMA InvHandlerFails ==
  ASSUME Inv, NEW c \in Calls, HandlerFails(c)
  PROVE  Inv'
<1> DEFINE v == Replied(c, "error")
<1>1. /\ Reply(c, "error") /\ handler[c].pc \in {"find", "issue", "revoke"}
      /\ handler[c] \in HandlerSet(issued) /\ Fault
  BY TypeParts DEF Typed, Inv, HandlerFails
<1>2. /\ handler' = [handler EXCEPT ![c] = v]
      /\ c[2] # "late" => v.pc = "error" /\ v.token = handler[c].token
      /\ c[2] = "late" => v.pc = "idle"
  BY <1>1, RepliedParts DEF Inv
<1> HIDE DEF v
<1>3. OlderKept
  BY DEF OlderKept, HandlerFails
<1>4. Named' /\ (\A t \in Tabs : Joined(t)') /\ (\A q \in Requests : Tracked(q)')
  BY <1>1, <1>2, <1>3, HandlerMoves DEF HandlerFails
<1>5. \A t \in Tabs : Call(t).pc = "renewed" => Call(t)' = Call(t)
  BY <1>1, <1>2, OneHandler DEF Inv, Call
<1>6. handler[c].token \in 1 .. issued
  <2>1. handler[c].token \in 0 .. issued /\ handler[c].token # 0
    BY <1>1 DEF Inv, Named, HandlerSet, None
  <2> QED BY <2>1
<1>7. TypeOK'
  <2>1. handler' \in [Calls -> HandlerSet(issued)]
    BY <1>1, ReplyType DEF Inv
  <2>2. lost' \subseteq 1 .. issued /\ live' \subseteq 1 .. issued
    BY <1>6, TypeParts DEF Typed, Inv, HandlerFails
  <2>3. counts' \in CountSet
    BY <1>1, FaultType DEF Inv
  <2> QED BY <2>1, <2>2, <2>3, TypeParts DEF Typed, Inv, HandlerFails
<1>8. Accounted'
  <2>1. live \cup lost \cup over \subseteq live' \cup lost' \cup over'
    BY DEF HandlerFails
  <2> QED BY <1>5, <2>1, AccountedKept DEF Inv, HandlerFails
<1> QED BY <1>4, <1>7, <1>8 DEF Inv

-----------------------------------------------------------------------------
(* The answer reaches refreshSession *)

LEMMA SettledFrame ==
  ASSUME Inv, NEW t \in Tabs, Settled(t)
  PROVE  /\ handler' \in [Calls -> HandlerSet(issued)] /\ refreshing' \in [Tabs -> 0 .. issued]
         /\ \A s \in Tabs : s # t => Call(s)' = Call(s) /\ refreshing'[s] = refreshing[s]
         /\ refreshing'[t] = None /\ Call(t)'.pc = "idle"
         /\ \A c \in Calls : handler'[c].pc # "idle" => handler'[c].token # None
<1> DEFINE c == <<t, "awaited">>
<1>1. c \in Calls /\ handler' = [handler EXCEPT ![c] = NoCall]
  BY CallsOfTab DEF Settled
<1>2. NoCall \in HandlerSet(issued) /\ NoCall.pc = "idle"
  BY TypeParts DEF Typed, Inv, NoCall, HandlerSet, HandlerPc, None
<1>3. /\ handler'[c] = NoCall /\ \A d \in Calls : d # c => handler'[d] = handler[d]
      /\ \A s \in Tabs : Call(s)' = IF c = <<s, "awaited">> THEN NoCall ELSE Call(s)
      /\ handler' \in [Calls -> HandlerSet(issued)]
  BY <1>1, <1>2, OneHandler DEF Inv
<1>4. \A s \in Tabs : s # t => Call(s)' = Call(s)
  BY <1>3
<1>5. Call(t)'.pc = "idle"
  BY <1>2, <1>3
<1>6. \A d \in Calls : handler'[d].pc # "idle" => handler'[d].token # None
  <2> HIDE DEF c
  <2> QED BY <1>1, <1>2, <1>3 DEF Inv, Named
<1>7. /\ refreshing' \in [Tabs -> 0 .. issued] /\ refreshing'[t] = None
      /\ \A s \in Tabs : s # t => refreshing'[s] = refreshing[s]
  BY TypeParts DEF Typed, Inv, Settled, None
<1> QED BY <1>3, <1>4, <1>5, <1>6, <1>7

\* The requests that waited for a refresh whose answer is no new pair are rejected.
LEMMA SettledRejected ==
  ASSUME Inv, NEW t \in Tabs, Settled(t), request' = Rejected(t),
         UNCHANGED <<serverVars, leaving, lost, over, counts>>,
         storage' \in 0 .. issued, held' \in [Tabs -> 0 .. issued],
         \A s \in Tabs : s # t => held'[s] = held[s],
         Call(t).pc # "renewed"
  PROVE  Inv'
<1>1. TypeOK'
  BY SettledFrame, RejectedType, TypeParts DEF Typed, Inv, serverVars
<1>2. Named'
  BY SettledFrame DEF Inv, Named
<1>3. Accounted'
  BY SettledFrame, AccountedKept DEF Inv, serverVars
<1>4. OlderKept
  BY DEF OlderKept, serverVars
<1>5. /\ \A s \in Tabs : s # t => SameTab(s)
      /\ \A q \in Requests : q[1] # t => request'[q] = request[q]
  BY SettledFrame, RejectedOthers DEF SameTab
<1>6. Joined(t)'
  BY SettledFrame, LetGo
<1>7. ASSUME NEW q \in Requests, q[1] = t PROVE Tracked(q)'
  BY <1>4, <1>7, RejectedTracked
<1> QED BY <1>1, <1>2, <1>3, <1>4, <1>5, <1>6, <1>7, OthersKept DEF Inv

LEMMA InvDeny ==
  ASSUME Inv, NEW t \in Tabs, Deny(t)
  PROVE  Inv'
<1>1. storage' \in 0 .. issued /\ held' \in [Tabs -> 0 .. issued]
  BY TypeParts DEF Typed, Inv, Deny, SignOut, SetTokens, None
<1>2. \A s \in Tabs : s # t => held'[s] = held[s]
  BY TypeParts DEF Typed, Inv, Deny, SignOut, SetTokens
<1> QED BY <1>1, <1>2, SettledRejected DEF Deny, Call

LEMMA InvError ==
  ASSUME Inv, NEW t \in Tabs, Error(t)
  PROVE  Inv'
<1>1. storage' \in 0 .. issued /\ held' \in [Tabs -> 0 .. issued]
  BY TypeParts DEF Typed, Inv, Error
<1> QED BY <1>1, SettledRejected DEF Error, Call

LEMMA InvGiveUp ==
  ASSUME Inv, NEW t \in Tabs, GiveUp(t)
  PROVE  Inv'
<1> USE DEF GiveUp
<1>1. TypeOK'
  <2>1. refreshing' \in [Tabs -> 0 .. issued]
    BY TypeParts DEF Typed, Inv, None
  <2> QED BY <2>1, RejectedType, FaultType, AbandonType, TypeParts DEF Typed, Inv, serverVars
<1>2. Named'
  BY AbandonFrame DEF Inv, Named
<1>3. Accounted'
  <2>1. \A s \in Tabs : Call(s).pc = "renewed" => Call(s)' = Call(s) \/ Call(s).token \in lost'
    BY AbandonFrame
  <2> QED BY <2>1, AbandonFrame, AccountedKept DEF Inv, serverVars
<1>4. OlderKept
  BY DEF OlderKept, serverVars
<1>5. /\ \A s \in Tabs : s # t => SameTab(s)
      /\ \A q \in Requests : q[1] # t => request'[q] = request[q]
  BY AbandonFrame, RejectedOthers, TypeParts DEF Typed, Inv, SameTab
<1>6. Joined(t)'
  BY AbandonFrame, LetGo, TypeParts DEF Typed, Inv
<1>7. ASSUME NEW q \in Requests, q[1] = t PROVE Tracked(q)'
  BY <1>4, <1>7, RejectedTracked
<1> QED BY <1>1, <1>2, <1>3, <1>4, <1>5, <1>6, <1>7, OthersKept DEF Inv

LEMMA InvRenew ==
  ASSUME Inv, NEW t \in Tabs, Renew(t)
  PROVE  Inv'
<1>1. /\ Call(t).pc = "renewed" /\ Settled(t) /\ UNCHANGED <<serverVars, leaving, counts>>
      /\ Call(t) \in HandlerSet(issued) /\ issued \in Nat
  BY CallType, TypeParts DEF Typed, Inv, Renew, Call
<1>2. Call(t).token \in 1 .. issued /\ Call(t).new \in 1 .. issued /\ Call(t).new \in fresh
  <2>1. Call(t).token \in 0 .. issued /\ Call(t).token # 0
    BY <1>1, CallsOfTab DEF Inv, Named, HandlerSet, None, Call
  <2>2. Call(t).new \in fresh
    BY <1>1 DEF Inv, Joined
  <2> QED BY <2>1, <2>2, TypeParts DEF Typed, Inv
<1>3. OlderKept
  BY <1>1 DEF OlderKept, serverVars
<1>4. \A s \in Tabs : s # t => Call(s)' = Call(s) /\ refreshing'[s] = refreshing[s]
  BY <1>1, SettledFrame
<1>5. Joined(t)'
  BY <1>1, SettledFrame, LetGo
<1>6. Named'
  BY <1>1, SettledFrame DEF Inv, Named
<1>7. CASE held[t] = Call(t).token
  <2>1. /\ storage' = Call(t).new /\ held' = [held EXCEPT ![t] = Call(t).new]
        /\ over' = over \cup {Call(t).token} /\ UNCHANGED lost
        /\ request' = [q \in Requests |->
             IF q[1] = t /\ request[q].pc = "waiting"
               THEN [request[q] EXCEPT !.pc = "sent", !.again = TRUE, !.bearer = Call(t).new]
               ELSE request[q]]
    BY <1>7 DEF Renew, SetTokens, Call
  <2>2. ASSUME NEW q \in Requests
        PROVE  /\ request'[q] \in RequestSet(issued)
               /\ \/ request'[q] = request[q] /\ (q[1] # t \/ request[q].pc # "waiting")
                  \/ request'[q].pc = "sent" /\ request'[q].bearer \in fresh /\ q[1] = t
    <3>1. request[q] \in RequestSet(issued)
      BY TypeParts DEF Typed, Inv
    <3>2. CASE q[1] = t /\ request[q].pc = "waiting"
      <4>1. request'[q] = [request[q] EXCEPT !.pc = "sent", !.again = TRUE, !.bearer = Call(t).new]
        BY <2>1, <3>2
      <4>2. Call(t).new \in 0 .. issued
        BY <1>1 DEF HandlerSet
      <4> QED BY <1>2, <3>1, <3>2, <4>1, <4>2 DEF RequestSet, RequestPc
    <3>3. CASE ~(q[1] = t /\ request[q].pc = "waiting")
      <4>1. request'[q] = request[q]
        BY <2>1, <3>3
      <4> QED BY <3>1, <3>3, <4>1
    <3> QED BY <3>2, <3>3
  <2>3. TypeOK'
    <3>1. request' \in [Requests -> RequestSet(issued)]
      BY <2>1, <2>2
    <3>2. Call(t).new \in 0 .. issued
      BY <1>1 DEF HandlerSet
    <3>3. storage' \in 0 .. issued /\ held' \in [Tabs -> 0 .. issued] /\ over' \subseteq 1 .. issued
      BY <1>2, <2>1, <3>2, TypeParts DEF Typed, Inv
    <3> QED BY <1>1, <2>1, <3>1, <3>3, SettledFrame, TypeParts DEF Typed, Inv, serverVars
  <2>4. Accounted'
    BY <1>1, <1>4, <2>1, AccountedKept DEF Inv, serverVars
  <2>5. /\ \A s \in Tabs : s # t => SameTab(s)
        /\ \A q \in Requests : q[1] # t => request'[q] = request[q]
    BY <1>4, <2>1, <2>2, TypeParts DEF Typed, Inv, SameTab
  <2>6. ASSUME NEW q \in Requests, q[1] = t PROVE Tracked(q)'
    <3>1. CASE request'[q] = request[q] /\ request[q].pc # "waiting"
      BY <1>3, <3>1, TrackedKept DEF Inv
    <3>2. CASE request'[q].pc = "sent" /\ request'[q].bearer \in fresh
      BY <1>1, <3>2 DEF Tracked, serverVars
    <3> QED BY <2>2, <2>6, <3>1, <3>2
  <2> QED BY <1>3, <1>5, <1>6, <2>3, <2>4, <2>5, <2>6, OthersKept DEF Inv
<1>8. CASE held[t] # Call(t).token
  <2>1. request' = Rejected(t) /\ lost' = lost \cup {Call(t).token} /\ UNCHANGED <<storage, held, over>>
    BY <1>8 DEF Renew, Call
  <2>2. TypeOK'
    <3>1. lost' \subseteq 1 .. issued
      BY <1>2, <2>1, TypeParts DEF Typed, Inv
    <3> QED BY <1>1, <2>1, <3>1, SettledFrame, RejectedType, TypeParts DEF Typed, Inv, serverVars
  <2>3. Accounted'
    BY <1>1, <1>4, <2>1, AccountedKept DEF Inv, serverVars
  <2>4. /\ \A s \in Tabs : s # t => SameTab(s)
        /\ \A q \in Requests : q[1] # t => request'[q] = request[q]
    BY <1>4, <2>1, RejectedOthers DEF SameTab
  <2>5. ASSUME NEW q \in Requests, q[1] = t PROVE Tracked(q)'
    BY <1>3, <2>1, <2>5, RejectedTracked
  <2> QED BY <1>3, <1>5, <1>6, <2>2, <2>3, <2>4, <2>5, OthersKept DEF Inv
<1> QED BY <1>7, <1>8

-----------------------------------------------------------------------------
(* Logout *)

LEMMA InvLogout ==
  ASSUME Inv, NEW t \in Tabs, Logout(t)
  PROVE  Inv'
<1> USE DEF Logout
<1>1. TypeOK'
  <2>1. [pc |-> "find", token |-> held[t]] \in LeavingSet(issued)
    BY TypeParts DEF Typed, Inv, LeavingSet
  <2> QED BY <2>1, ClickType, TypeParts DEF Typed, Inv, serverVars
<1>2. Named'
  BY TypeParts DEF Typed, Inv, Named
<1> QED BY <1>1, <1>2, Unnoticed DEF Inv, OlderKept, serverVars

\* The token a logout is about.
LEMMA LeavingNamed ==
  ASSUME Inv, NEW t \in Tabs, leaving[t].pc \in {"find", "revoke"}
  PROVE  leaving[t].token \in 1 .. issued
<1>1. leaving[t].token \in 0 .. issued /\ leaving[t].token # 0
  BY TypeParts DEF Typed, Inv, Named, LeavingSet, None
<1> QED BY <1>1

\* A step of a logout of a tab that stays the same otherwise.
LEMMA LeavingMoves ==
  ASSUME Inv, NEW t \in Tabs, NEW pc \in {"revoke", "signout"},
         leaving[t].pc \in {"find", "revoke"}, leaving' = [leaving EXCEPT ![t].pc = pc]
  PROVE  leaving' \in [Tabs -> LeavingSet(issued)] /\
         \A s \in Tabs : leaving'[s].pc \in {"find", "revoke"} => leaving'[s].token # None
<1>1. [leaving[t] EXCEPT !.pc = pc] \in LeavingSet(issued)
      /\ [leaving[t] EXCEPT !.pc = pc].token = leaving[t].token
  BY TypeParts DEF Typed, Inv, LeavingSet
<1>2. leaving' = [leaving EXCEPT ![t] = [leaving[t] EXCEPT !.pc = pc]]
  BY TypeParts DEF Typed, Inv
<1> QED BY <1>1, <1>2, TypeParts DEF Typed, Inv, Named

LEMMA InvLogoutFind ==
  ASSUME Inv, NEW t \in Tabs, LogoutFind(t)
  PROVE  Inv'
<1>1. /\ leaving' \in [Tabs -> LeavingSet(issued)]
      /\ \A s \in Tabs : leaving'[s].pc \in {"find", "revoke"} => leaving'[s].token # None
  BY LeavingMoves DEF LogoutFind
<1>2. TypeOK'
  BY <1>1, TypeParts DEF Typed, Inv, LogoutFind, serverVars
<1>3. Named'
  BY <1>1 DEF Inv, Named, LogoutFind
<1> QED BY <1>2, <1>3, Unnoticed DEF Inv, OlderKept, LogoutFind, serverVars

LEMMA InvLogoutRevoke ==
  ASSUME Inv, NEW t \in Tabs, LogoutRevoke(t)
  PROVE  Inv'
<1>1. /\ leaving' \in [Tabs -> LeavingSet(issued)]
      /\ \A s \in Tabs : leaving'[s].pc \in {"find", "revoke"} => leaving'[s].token # None
  BY LeavingMoves DEF LogoutRevoke
<1>2. TypeOK'
  BY <1>1, LeavingNamed, TypeParts DEF Typed, Inv, LogoutRevoke
<1>3. Named'
  BY <1>1 DEF Inv, Named, LogoutRevoke
<1> QED BY <1>2, <1>3, Unnoticed DEF Inv, OlderKept, LogoutRevoke

LEMMA InvLogoutFails ==
  ASSUME Inv, NEW t \in Tabs, LogoutFails(t)
  PROVE  Inv'
<1>1. /\ leaving' \in [Tabs -> LeavingSet(issued)]
      /\ \A s \in Tabs : leaving'[s].pc \in {"find", "revoke"} => leaving'[s].token # None
  BY LeavingMoves DEF LogoutFails
<1>2. TypeOK'
  BY <1>1, LeavingNamed, FaultType, TypeParts DEF Typed, Inv, LogoutFails
<1>3. Named'
  BY <1>1 DEF Inv, Named, LogoutFails
<1> QED BY <1>2, <1>3, Unnoticed DEF Inv, OlderKept, LogoutFails

LEMMA InvLeave ==
  ASSUME Inv, NEW t \in Tabs, Leave(t)
  PROVE  Inv'
<1> USE DEF Leave, SignOut, SetTokens
<1>1. TypeOK'
  <2>1. Stays \in LeavingSet(issued)
    BY TypeParts DEF Typed, Inv, LeavingSet, Stays, None
  <2> QED BY <2>1, TypeParts DEF Typed, Inv, serverVars, None
<1>2. Named'
  BY TypeParts DEF Typed, Inv, Named, Stays
<1>3. Accounted'
  BY AccountedKept DEF Inv, Call, serverVars
<1>4. OlderKept
  BY DEF OlderKept, serverVars
<1>5. Joined(t)'
  <2>1. held'[t] = None /\ Call(t)' = Call(t)
    BY TypeParts DEF Typed, Inv, Call
  <2> QED BY <2>1 DEF Inv, Joined, Refreshing, serverVars
<1>6. /\ \A s \in Tabs : s # t => SameTab(s)
      /\ \A q \in Requests : request'[q] = request[q]
  BY TypeParts DEF Typed, Inv, SameTab, Call
<1>7. ASSUME NEW q \in Requests PROVE Tracked(q)'
  BY <1>4, TrackedKept DEF Inv, Call, Refreshing
<1> QED BY <1>1, <1>2, <1>3, <1>4, <1>5, <1>6, <1>7, OthersKept DEF Inv

-----------------------------------------------------------------------------
(* The theorems *)

LEMMA InvNext == Inv /\ [Next]_vars => Inv'
<1> SUFFICES ASSUME Inv, [Next]_vars PROVE Inv'
  OBVIOUS
<1>1. CASE UNCHANGED vars
  <2>1. TypeOK' /\ Named' /\ OlderKept
    BY <1>1, TypeParts DEF vars, Typed, Inv, Named, OlderKept, serverVars
  <2> QED BY <1>1, <2>1, Unnoticed DEF Inv, vars, serverVars
<1>2. ASSUME NEW k \in 1 .. issued, AccessExpires(k) \/ RefreshExpires(k) PROVE Inv'
  BY <1>2, InvAccessExpires, InvRefreshExpires
<1>3. ASSUME NEW t \in Tabs,
             \/ SignIn(t) \/ LoadPage(t) \/ TabStep(t) \/ GiveUp(t)
             \/ Logout(t) \/ LogoutStep(t) \/ LogoutFails(t)
      PROVE  Inv'
  BY <1>3, InvSignIn, InvLoadPage, InvRenew, InvDeny, InvError, InvGiveUp,
     InvLogout, InvLogoutFind, InvLogoutRevoke, InvLeave, InvLogoutFails
  DEF TabStep, LogoutStep
<1>4. ASSUME NEW q \in Requests, RequestStep(q) PROVE Inv'
  BY <1>4, InvSend, InvAnswer, InvRefused DEF RequestStep
<1>5. ASSUME NEW c \in Calls, HandlerStep(c) \/ HandlerFails(c) PROVE Inv'
  BY <1>5, InvFindValid, InvIssue, InvRevoke, InvHandlerFails DEF HandlerStep
<1> QED BY <1>1, <1>2, <1>3, <1>4, <1>5 DEF Next

\* Every state the handlers and the tabs reach has values of its types: pairs that were
\* issued, and handlers, requests and logouts with fields of their kinds.
THEOREM TypeCorrect == Spec => []TypeOK
<1>1. Inv => TypeOK
  BY DEF Inv
<1> QED BY <1>1, InvInit, InvNext, PTL DEF Spec

\* Whatever the order of lookups, issues, revocations, errors and late answers in any
\* number of tabs, the refresh token a tab or localStorage has is accepted, unless the
\* answer of the refresh that revoked it was lost, is on its way, or it is over.
THEOREM KeepsUsable == Spec => []UsableUnlessLost
<1>1. Inv => UsableUnlessLost
  <2> SUFFICES ASSUME Inv, NEW k \in ({storage} \cup {held[t] : t \in Tabs}) \ {None}
               PROVE  k \in live \cup lost \cup over \/ Renewed(k)
    BY DEF UsableUnlessLost, Renewed, Call
  <2>1. k \in 1 .. issued
    BY TypeParts DEF Typed, Inv, None
  <2> QED BY <2>1 DEF Inv, Accounted
<1> QED BY <1>1, InvInit, InvNext, PTL DEF Spec

\* No late answer, error or timeout makes a tab drop a session whose refresh token is
\* still accepted.
THEOREM NeverSignsOutAlive == Spec => SignsOutOnlyDead
<1> DEFINE Drops(t) ==
      held[t] # None /\ held'[t] = None => held[t] \notin live \/ leaving[t].pc = "signout" \/ LoadPage(t)
<1>1. ASSUME Inv, [Next]_vars, NEW t \in Tabs PROVE Drops(t)
  <2> USE <1>1
  <2> SUFFICES ASSUME held[t] # None, held'[t] = None
               PROVE  held[t] \notin live \/ leaving[t].pc = "signout" \/ LoadPage(t)
    OBVIOUS
  <2>1. held \in [Tabs -> 0 .. issued] /\ held' # held
    BY TypeParts DEF Typed, Inv
  <2>2. ASSUME NEW s \in Tabs, SignIn(s) PROVE FALSE
    <3>1. held' = [held EXCEPT ![s] = issued + 1] /\ held[s] = None
      BY <2>2 DEF SignIn, SetTokens
    <3> QED BY <2>1, <3>1, TypeParts DEF Typed, Inv, None
  <2>3. ASSUME NEW s \in Tabs, LoadPage(s) PROVE LoadPage(t)
    BY <2>1, <2>3 DEF LoadPage
  <2>4. ASSUME NEW s \in Tabs, Renew(s) PROVE FALSE
    <3>1. held' = [held EXCEPT ![s] = Call(s).new] /\ Call(s).pc = "renewed"
      BY <2>1, <2>4 DEF Renew, SetTokens, Call
    <3>2. Call(s).new \in fresh
      BY <3>1 DEF Inv, Joined
    <3> QED BY <2>1, <3>1, <3>2, TypeParts DEF Typed, Inv, None
  <2>5. ASSUME NEW s \in Tabs, Deny(s) PROVE held[t] \notin live
    <3>1. /\ Call(s).pc = "denied" /\ held' = [held EXCEPT ![s] = None]
          /\ \E q \in Requests : q[1] = s /\ request[q].pc = "waiting" /\ request[q].token = held[s]
      BY <2>1, <2>5 DEF Deny, SignOut, SetTokens, Call
    <3>2. held[s] = Call(s).token
      BY <3>1 DEF Inv, Tracked
    <3> QED BY <2>1, <3>1, <3>2 DEF Inv, Joined
  <2>6. ASSUME NEW s \in Tabs, Leave(s) PROVE leaving[t].pc = "signout"
    BY <2>1, <2>6 DEF Leave, SignOut, SetTokens
  <2>7. ASSUME NEW q \in Requests, Refused(q) PROVE FALSE
    BY <2>1, <2>7, RefusedIsStale DEF Refused
  <2> QED BY <2>1, <2>2, <2>3, <2>4, <2>5, <2>6, <2>7
          DEF Next, vars, TabStep, LogoutStep, RequestStep, HandlerStep, AccessExpires, RefreshExpires,
              Error, GiveUp, Logout, LogoutFind, LogoutRevoke, LogoutFails, Send, Answer,
              FindValid, Issue, Revoke, HandlerFails
<1>2. Inv /\ [Next]_vars => \A t \in Tabs : Drops(t)
  BY <1>1
<1> QED BY <1>2, InvInit, InvNext, PTL DEF Spec, SignsOutOnlyDead

\* A tab asks for a new pair only for an access token that has expired, however many of
\* its requests were refused and whatever became of the refreshes before.
THEOREM RefreshesOnlyStale == Spec => RefreshesOnce
<1> DEFINE Stale(t) == refreshing[t] = None /\ refreshing'[t] # None => refreshing'[t] \notin fresh
<1>1. ASSUME Inv, [Next]_vars, NEW t \in Tabs PROVE Stale(t)
  <2> USE <1>1
  <2> SUFFICES ASSUME refreshing[t] = None, refreshing'[t] # None
               PROVE  refreshing'[t] \notin fresh
    OBVIOUS
  <2>1. refreshing \in [Tabs -> 0 .. issued] /\ refreshing' # refreshing
    BY TypeParts DEF Typed, Inv
  <2>2. \A s \in Tabs : refreshing' # [refreshing EXCEPT ![s] = None]
    BY <2>1
  <2>3. ASSUME NEW q \in Requests, Refused(q) PROVE refreshing'[t] \notin fresh
    <3>1. Current(q) /\ request[q].pc = "refused"
      BY <2>1, <2>3 DEF Refused
    <3>2. held[q[1]] \notin fresh
      BY <3>1 DEF Inv, Tracked, Current
    <3>3. refreshing' = [refreshing EXCEPT ![q[1]] = held[q[1]]]
      BY <2>1, <2>3 DEF Refused
    <3> QED BY <2>1, <3>2, <3>3
  <2> QED BY <2>1, <2>2, <2>3
          DEF Next, vars, TabStep, LogoutStep, RequestStep, HandlerStep, AccessExpires, RefreshExpires,
              SignIn, LoadPage, Renew, Deny, Error, Settled, GiveUp, Logout, LogoutFind, LogoutRevoke,
              LogoutFails, Leave, Send, Answer, FindValid, Issue, Revoke, HandlerFails
<1>2. Inv /\ [Next]_vars => \A t \in Tabs : Stale(t)
  BY <1>1
<1> QED BY <1>2, InvInit, InvNext, PTL DEF Spec, RefreshesOnce
=============================================================================
