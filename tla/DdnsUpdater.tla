----------------------------- MODULE DdnsUpdater -----------------------------
(***************************************************************************)
(* The Cloudflare IPv6 updater of src/services/cloudflare_ddns.rs: the     *)
(* periodic loop (start_updater), the "sync now" calls of administrators   *)
(* (sync_now), the run both share under one lock (sync_with_settings), and *)
(* save_config, which changes the settings under them.                     *)
(*                                                                         *)
(* Settings are rows read and written one by one.  Two of them stand for   *)
(* all: ddns.enabled, and options for what the fingerprint covers besides  *)
(* the address (token, zone, names, proxied, ttl ...).  A step is one row, *)
(* one detection or one DNS record.                                        *)
(***************************************************************************)
EXTENDS Naturals

CONSTANTS
  Names,        \* settings.record_names
  Addresses,    \* public IPv6 addresses
  Options,      \* values of the other settings a record depends on
  Admins,       \* administrators, one call of sync_now each at a time
  MaxChanges,   \* bound: saves, new addresses, edits by hand and typed-in addresses
  MaxFaults     \* bound: failed requests, aborted calls and restarts

ASSUME ConstantsAssumption ==
  /\ MaxChanges \in Nat
  /\ MaxFaults \in Nat

Updater == "updater"
Nobody == "nobody"
None == "none"
Actors == Admins \cup {Updater}

ASSUME ActorsAssumption == {Updater, Nobody} \cap Admins = {}
ASSUME ValuesAssumption == None \notin Addresses \cup Options

VARIABLES
  settings,     \* the system_settings rows
  saver,        \* a save_config under way: the options it has still to write
  host,         \* the address detect_ipv6 finds
  record,       \* the AAAA records at Cloudflare
  memory,       \* SyncMemory, the value the lock guards
  lock,         \* who holds sync_lock
  run,          \* the loop's and each administrator's call
  error,        \* DdnsStatus.last_error
  edited,       \* history: records changed by hand since they were last verified
  cut,          \* history: records an aborted run wrote since they were last verified
  changes,      \* history: how many changes there were
  faults        \* history: how many faults there were

vars == <<settings, saver, host, record, memory, lock, run, error, edited, cut, changes, faults>>
env == <<settings, saver, host, changes>>

-----------------------------------------------------------------------------
(* Values *)

Target == [address : Addresses, options : Options]
NoTarget == [address |-> None, options |-> None]
Trigger == {"schedule", "manual"} \cup Addresses
RunPc == {"idle", "options", "lock", "detect", "decide", "write"}
Run == [pc : RunPc, trigger : Trigger, enabled : BOOLEAN, options : Options,
        address : Addresses, left : SUBSET Names, wrote : SUBSET Names, failed : BOOLEAN]

TypeOK ==
  /\ settings \in [enabled : BOOLEAN, options : Options]
  /\ saver \in Options \cup {None}
  /\ host \in Addresses
  /\ record \in [Names -> Target \cup {NoTarget}]
  /\ memory \in [print : Target \cup {NoTarget}, fresh : BOOLEAN]
  /\ lock \in Actors \cup {Nobody}
  /\ run \in [Actors -> Run]
  /\ error \in {None, "detect", "client", "records"}
  /\ edited \in SUBSET Names
  /\ cut \in SUBSET Names
  /\ changes \in 0 .. MaxChanges
  /\ faults \in 0 .. MaxFaults

\* A run that is not under way: its locals are gone.
Rest == [pc |-> "idle", trigger |-> "schedule", enabled |-> FALSE,
         options |-> CHOOSE o \in Options : TRUE, address |-> CHOOSE a \in Addresses : TRUE,
         left |-> {}, wrote |-> {}, failed |-> FALSE]

Goto(a, pc) == run' = [run EXCEPT ![a].pc = pc]
Return(a) == run' = [run EXCEPT ![a] = Rest]
Want(a) == [address |-> run[a].address, options |-> run[a].options]

Forgotten == [print |-> NoTarget, fresh |-> FALSE]

\* Mutant: the settings a record depends on are left out of the hash.
AddressFingerprint(target) == target.address

\* DdnsSettings::fingerprint
Fingerprint(target) == target

Init ==
  /\ settings \in [enabled : {FALSE}, options : Options]
  /\ saver = None
  /\ host \in Addresses
  /\ record = [n \in Names |-> NoTarget]
  /\ memory = Forgotten
  /\ lock = Nobody
  /\ run = [a \in Actors |-> Rest]
  /\ error = None
  /\ edited = {}
  /\ cut = {}
  /\ changes = 0
  /\ faults = 0

-----------------------------------------------------------------------------
(* The environment and save_config *)

Change == changes < MaxChanges /\ changes' = changes + 1
Fault == faults < MaxFaults /\ faults' = faults + 1

\* The host gets another address.
NewAddress ==
  /\ Change
  /\ host' \in Addresses \ {host}
  /\ UNCHANGED <<settings, saver, record, memory, lock, run, error, edited, cut, faults>>

\* Someone edits a record on the Cloudflare dashboard.
EditByHand(n) ==
  /\ Change
  /\ \E target \in Target : target # record[n] /\ record' = [record EXCEPT ![n] = target]
  /\ edited' = edited \cup {n}
  /\ UNCHANGED <<settings, saver, host, memory, lock, run, error, cut, faults>>

\* save_config upserts ddns.enabled first and the other rows after it.
SaveEnabled ==
  /\ saver = None /\ Change
  /\ \E on \in BOOLEAN : settings' = [settings EXCEPT !.enabled = on]
  /\ saver' \in Options
  /\ UNCHANGED <<host, record, memory, lock, run, error, edited, cut, faults>>

SaveOptions ==
  /\ saver # None
  /\ settings' = [settings EXCEPT !.options = saver]
  /\ saver' = None
  /\ UNCHANGED <<host, record, memory, lock, run, error, edited, cut, changes, faults>>

\* VERIFY_INTERVAL passes since the records were verified.
HourPasses ==
  /\ memory.fresh
  /\ memory' = [memory EXCEPT !.fresh = FALSE]
  /\ UNCHANGED <<env, record, lock, run, error, edited, cut, faults>>

-----------------------------------------------------------------------------
(* start_updater and sync_now *)

\* The interval is over: load_settings begins.
Wake ==
  /\ run[Updater].pc = "idle"
  /\ run' = [run EXCEPT ![Updater] = [Rest EXCEPT !.pc = "options",
                                                  !.enabled = settings.enabled]]
  /\ UNCHANGED <<env, record, memory, lock, error, edited, cut, faults>>

\* Some callers type an address in (SyncTrigger::Address).
SyncNow(m) ==
  /\ run[m].pc = "idle"
  /\ \E trigger \in {"manual"} \cup Addresses :
       /\ run' = [run EXCEPT ![m] = [Rest EXCEPT !.pc = "options", !.trigger = trigger,
                                                 !.enabled = settings.enabled]]
  /\ Change
  /\ UNCHANGED <<settings, saver, host, record, memory, lock, error, edited, cut, faults>>

\* A disabled updater only refreshes its status, a disabled sync_now is refused.
LoadOptions(a) ==
  /\ run[a].pc = "options"
  /\ IF run[a].enabled
       THEN run' = [run EXCEPT ![a].pc = "lock", ![a].options = settings.options]
       ELSE Return(a)
  /\ UNCHANGED <<env, record, memory, lock, error, edited, cut, faults>>

LoadFails(a) ==
  /\ run[a].pc = "options" /\ Fault
  /\ Return(a)
  /\ UNCHANGED <<env, record, memory, lock, error, edited, cut>>

-----------------------------------------------------------------------------
(* sync_with_settings *)

\* A typed-in address is not detected.
Acquire(a) ==
  /\ run[a].pc = "lock" /\ lock = Nobody
  /\ lock' = a
  /\ IF run[a].trigger \in Addresses
       THEN run' = [run EXCEPT ![a].pc = "decide", ![a].address = run[a].trigger]
       ELSE Goto(a, "detect")
  /\ UNCHANGED <<env, record, memory, error, edited, cut, faults>>

\* The run is over: last_error is set (record_failure) or cleared, the lock released.
Ends(a, message) ==
  /\ error' = message
  /\ lock' = Nobody
  /\ Return(a)

Detect(a) ==
  /\ run[a].pc = "detect"
  /\ run' = [run EXCEPT ![a].pc = "decide", ![a].address = host]
  /\ UNCHANGED <<env, record, memory, lock, error, edited, cut, faults>>

DetectFails(a) ==
  /\ run[a].pc = "detect" /\ Fault
  /\ Ends(a, "detect")
  /\ UNCHANGED <<env, record, memory, edited, cut>>

\* Mutant: the age of the last verification is not looked at.
FreshWhateverAge(a) == memory.print = Fingerprint(Want(a))

Fresh(a) == memory.fresh /\ memory.print = Fingerprint(Want(a))

\* A scheduled check that finds nothing new returns without asking Cloudflare.
Skip(a) ==
  /\ run[a].pc = "decide" /\ run[a].trigger = "schedule" /\ Fresh(a)
  /\ lock' = Nobody
  /\ Return(a)
  /\ UNCHANGED <<env, record, memory, error, edited, cut, faults>>

Connect(a) ==
  /\ run[a].pc = "decide" /\ ~(run[a].trigger = "schedule" /\ Fresh(a))
  /\ run' = [run EXCEPT ![a].pc = "write", ![a].left = Names]
  /\ UNCHANGED <<env, record, memory, lock, error, edited, cut, faults>>

ConnectFails(a) ==
  /\ run[a].pc = "decide" /\ ~(run[a].trigger = "schedule" /\ Fresh(a)) /\ Fault
  /\ Ends(a, "client")
  /\ UNCHANGED <<env, record, memory, edited, cut>>

\* upsert_record: afterwards the record is as wanted, created, updated or unchanged.
Upsert(a, n) ==
  /\ run[a].pc = "write" /\ n \in run[a].left
  /\ record' = [record EXCEPT ![n] = Want(a)]
  /\ run' = [run EXCEPT ![a].left = @ \ {n}, ![a].wrote = @ \cup {n}]
  /\ edited' = edited \ {n}
  /\ cut' = cut \ {n}
  /\ UNCHANGED <<env, memory, lock, error, faults>>

\* A request fails, before or after Cloudflare acted on it; the other names go on.
UpsertFails(a, n) ==
  /\ run[a].pc = "write" /\ n \in run[a].left /\ Fault
  /\ record' \in {record, [record EXCEPT ![n] = Want(a)]}
  /\ run' = [run EXCEPT ![a].left = @ \ {n}, ![a].wrote = @ \cup {n}, ![a].failed = TRUE]
  /\ UNCHANGED <<env, memory, lock, error, edited, cut>>

\* Mutant: a failed record keeps what the memory held before the run.
FinishKeepsMemory(a) ==
  /\ run[a].pc = "write" /\ run[a].left = {}
  /\ IF run[a].failed
       THEN Ends(a, "records") /\ UNCHANGED memory
       ELSE /\ memory' = [print |-> Fingerprint(Want(a)), fresh |-> TRUE]
            /\ Ends(a, None)
  /\ UNCHANGED <<env, record, edited, cut, faults>>

Finish(a) ==
  /\ run[a].pc = "write" /\ run[a].left = {}
  /\ IF run[a].failed
       THEN Ends(a, "records") /\ memory' = [memory EXCEPT !.print = NoTarget]
       ELSE /\ memory' = [print |-> Fingerprint(Want(a)), fresh |-> TRUE]
            /\ Ends(a, None)
  /\ UNCHANGED <<env, record, edited, cut, faults>>

\* The administrator's connection breaks: the handler is dropped where it awaits, and
\* the guard of the lock with it.  Cloudflare may still carry out the request it had sent.
Abort(m) ==
  /\ run[m].pc # "idle" /\ Fault
  /\ lock' = IF lock = m THEN Nobody ELSE lock
  /\ \E sent \in {{}} \cup {{n} : n \in run[m].left} :
       /\ record' = [n \in Names |-> IF n \in sent THEN Want(m) ELSE record[n]]
       /\ cut' = cut \cup run[m].wrote \cup sent
  /\ Return(m)
  /\ UNCHANGED <<env, memory, error, edited>>

\* The backend restarts: lock, memory and status start afresh.
Restart ==
  /\ Fault
  /\ memory' = Forgotten
  /\ lock' = Nobody
  /\ run' = [a \in Actors |-> Rest]
  /\ saver' = None
  /\ error' = None
  /\ UNCHANGED <<settings, host, record, edited, cut, changes>>

SyncStep(a) ==
  \/ LoadOptions(a) \/ Acquire(a) \/ Detect(a) \/ Skip(a) \/ Connect(a)
  \/ (\E n \in Names : Upsert(a, n)) \/ Finish(a)

Next ==
  \/ NewAddress \/ SaveEnabled \/ SaveOptions \/ HourPasses \/ Restart \/ Wake
  \/ \E n \in Names : EditByHand(n)
  \/ \E m \in Admins : SyncNow(m) \/ Abort(m)
  \/ \E a \in Actors :
       \/ SyncStep(a) \/ LoadFails(a) \/ DetectFails(a) \/ ConnectFails(a)
       \/ \E n \in Names : UpsertFails(a, n)

Spec == Init /\ [][Next]_vars

\* The timers fire, calls under way are scheduled, and the lock of tokio is fair: it is
\* handed out in the order it was asked for.
FairSpec ==
  /\ Spec
  /\ WF_vars(Wake) /\ WF_vars(HourPasses) /\ WF_vars(SaveOptions)
  /\ \A a \in Actors : WF_vars(SyncStep(a)) /\ SF_vars(Acquire(a))

-----------------------------------------------------------------------------
(* Properties *)

\* When nobody holds the lock, what the memory says was published is what Cloudflare
\* has, except in records edited by hand or written by an aborted run since: failed and
\* half-failed runs, restarts, and settings saved under a run never make a scheduled
\* check skip records that are wrong.
MemoryIsPublished ==
  lock = Nobody /\ memory.print # NoTarget =>
    \A n \in Names \ (edited \cup cut) : Fingerprint(record[n]) = memory.print

\* What a scheduled check skips is what it would publish.
SkipIsSafe ==
  [][\A n \in Names \ (edited \cup cut) : Skip(Updater) => record[n] = Want(Updater)]_vars

\* "Periodic background check; skips Cloudflare when nothing changed."
SkipMeansUnchanged ==
  [][\A n \in Names \ edited : Skip(Updater) => record[n] = Want(Updater)]_vars

\* Once settings, address and Cloudflare are left alone, an enabled updater publishes
\* the host's address under the saved options in every record, and keeps it there.
Converges ==
  <>[](settings.enabled =>
         \A n \in Names : record[n] = [address |-> host, options |-> settings.options])
=============================================================================
