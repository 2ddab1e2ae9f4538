-------------------------- MODULE DdnsUpdater_proofs --------------------------
(***************************************************************************)
(* What holds of the DDNS updater for any names, addresses, settings and   *)
(* administrators, and any number of changes and faults.                   *)
(***************************************************************************)
EXTENDS DdnsUpdater, TLAPS

-----------------------------------------------------------------------------
(* The inductive invariant *)

\* A run is between the lock and its release exactly when it holds the lock.
Inside == {"detect", "decide", "write"}

HolderInside == \A a \in Actors : run[a].pc \in Inside <=> lock = a

\* A run that does not write has written nothing and seen no request fail.
StartsClean == \A a \in Actors : run[a].pc # "write" => run[a].wrote = {} /\ ~run[a].failed

\* The run that has written record n, whatever came of it, and is still at work.
BeingWritten(n) == \E a \in Actors : run[a].pc = "write" /\ n \in run[a].wrote

\* MemoryIsPublished, under a run as well: only what that run has written can differ.
Published ==
  \A n \in Names \ (edited \cup cut) :
    memory.print # NoTarget /\ record[n] # memory.print => BeingWritten(n)

\* A run without a failed request has put what it wants into every record it wrote, and
\* has written every record that is not left.
WrittenFor(a) ==
  run[a].pc = "write" =>
    /\ run[a].left \cup run[a].wrote = Names
    /\ ~run[a].failed => \A n \in run[a].wrote \ (edited \cup cut) : record[n] = Want(a)

Written == \A a \in Actors : WrittenFor(a)

Inv == TypeOK /\ HolderInside /\ StartsClean /\ Published /\ Written

-----------------------------------------------------------------------------
\* The locals of a run that is over are values of their types, once there are options and
\* addresses at all.
LEMMA RestTyped == ASSUME TypeOK PROVE Rest \in Run
<1>1. settings.options \in Options /\ host \in Addresses
  BY DEF TypeOK
<1>2. (CHOOSE o \in Options : TRUE) \in Options /\ (CHOOSE a \in Addresses : TRUE) \in Addresses
  BY <1>1
<1> QED
  BY <1>2 DEF Rest, Run, RunPc, Trigger

LEMMA NobodyActs == Nobody \notin Actors /\ Updater \in Actors
  BY ActorsAssumption DEF Actors, Nobody, Updater

LEMMA InvInit == Init => Inv
<1> SUFFICES ASSUME Init PROVE Inv
  OBVIOUS
<1>1. settings.options \in Options /\ host \in Addresses
  BY DEF Init
<1>2. (CHOOSE o \in Options : TRUE) \in Options /\ (CHOOSE a \in Addresses : TRUE) \in Addresses
  BY <1>1
<1>3. Rest \in Run
  BY <1>2 DEF Rest, Run, RunPc, Trigger
<1>4. TypeOK
  <2>1. record \in [Names -> Target \cup {NoTarget}] /\ run \in [Actors -> Run]
    BY <1>3 DEF Init
  <2>2. memory \in [print : Target \cup {NoTarget}, fresh : BOOLEAN]
    BY DEF Init, Forgotten
  <2>3. settings \in [enabled : BOOLEAN, options : Options]
    BY DEF Init
  <2>4. changes \in 0 .. MaxChanges /\ faults \in 0 .. MaxFaults
    BY ConstantsAssumption DEF Init
  <2> QED
    BY <2>1, <2>2, <2>3, <2>4 DEF Init, TypeOK
<1>5. HolderInside
  BY NobodyActs DEF Init, HolderInside, Inside, Rest
<1>6. StartsClean /\ Published /\ Written
  BY DEF Init, StartsClean, Published, Written, WrittenFor, Forgotten, Rest
<1> QED
  BY <1>4, <1>5, <1>6 DEF Inv

LEMMA TypeNext == ASSUME TypeOK, [Next]_vars PROVE TypeOK'
<1> USE DEF TypeOK, env
<1>0. Rest \in Run
  BY RestTyped
<1>1. CASE NewAddress
  BY <1>1, ConstantsAssumption DEF NewAddress, Change
<1>2. CASE SaveEnabled
  BY <1>2, ConstantsAssumption DEF SaveEnabled, Change
<1>3. CASE SaveOptions
  BY <1>3, ValuesAssumption DEF SaveOptions
<1>4. CASE HourPasses
  BY <1>4 DEF HourPasses
<1>5. CASE Restart
  BY <1>5, <1>0, ConstantsAssumption DEF Restart, Fault, Forgotten
<1>6. CASE Wake
  BY <1>6, <1>0, NobodyActs DEF Wake, Run, RunPc, Trigger
<1>7. ASSUME NEW n \in Names, EditByHand(n) PROVE TypeOK'
  BY <1>7, ConstantsAssumption DEF EditByHand, Change
<1>8. ASSUME NEW m \in Admins, SyncNow(m) PROVE TypeOK'
  <2>1. PICK trigger \in {"manual"} \cup Addresses :
          run' = [run EXCEPT ![m] = [Rest EXCEPT !.pc = "options", !.trigger = trigger,
                                                 !.enabled = settings.enabled]]
    BY <1>8 DEF SyncNow
  <2>2. [Rest EXCEPT !.pc = "options", !.trigger = trigger, !.enabled = settings.enabled] \in Run
    BY <1>0, ZenonT(60) DEF Run, RunPc, Trigger
  <2> QED
    BY <1>8, <2>1, <2>2, ConstantsAssumption DEF SyncNow, Change, Actors
<1>9. ASSUME NEW m \in Admins, Abort(m) PROVE TypeOK'
  <2>1. m \in Actors /\ run[m] \in Run
    BY DEF Actors
  <2>2. Want(m) \in Target /\ run[m].left \subseteq Names /\ run[m].wrote \subseteq Names
    BY <2>1 DEF Want, Target, Run
  <2>3. PICK sent \in {{}} \cup {{n} : n \in run[m].left} :
          /\ record' = [n \in Names |-> IF n \in sent THEN Want(m) ELSE record[n]]
          /\ cut' = cut \cup run[m].wrote \cup sent
    BY <1>9 DEF Abort
  <2>4. record' \in [Names -> Target \cup {NoTarget}]
    BY <2>2, <2>3
  <2>5. cut' \subseteq Names
    BY <2>2, <2>3
  <2>6. run' \in [Actors -> Run]
    BY <1>9, <1>0 DEF Abort, Return
  <2> QED
    BY <1>9, <2>4, <2>5, <2>6, ConstantsAssumption DEF Abort, Fault
<1>10. ASSUME NEW a \in Actors, LoadOptions(a) PROVE TypeOK'
  BY <1>10, <1>0 DEF LoadOptions, Return, Run, RunPc
<1>11. ASSUME NEW a \in Actors, LoadFails(a) PROVE TypeOK'
  BY <1>11, <1>0, ConstantsAssumption DEF LoadFails, Fault, Return
<1>12. ASSUME NEW a \in Actors, Acquire(a) PROVE TypeOK'
  BY <1>12 DEF Acquire, Goto, Run, RunPc
<1>13. ASSUME NEW a \in Actors, Detect(a) PROVE TypeOK'
  <2>1. [run[a] EXCEPT !.pc = "decide", !.address = host] \in Run
    BY ZenonT(60) DEF Run, RunPc
  <2> QED
    BY <1>13, <2>1 DEF Detect
<1>14. ASSUME NEW a \in Actors, DetectFails(a) PROVE TypeOK'
  BY <1>14, <1>0, ConstantsAssumption DEF DetectFails, Fault, Ends, Return
<1>15. ASSUME NEW a \in Actors, Skip(a) PROVE TypeOK'
  BY <1>15, <1>0 DEF Skip, Return
<1>16. ASSUME NEW a \in Actors, Connect(a) PROVE TypeOK'
  <2>1. [run[a] EXCEPT !.pc = "write", !.left = Names] \in Run
    BY ZenonT(60) DEF Run, RunPc
  <2> QED
    BY <1>16, <2>1 DEF Connect
<1>17. ASSUME NEW a \in Actors, ConnectFails(a) PROVE TypeOK'
  BY <1>17, <1>0, ConstantsAssumption DEF ConnectFails, Fault, Ends, Return
<1>18. ASSUME NEW a \in Actors, NEW n \in Names, Upsert(a, n) PROVE TypeOK'
  <2>1. Want(a) \in Target
    BY DEF Want, Target, Run
  <2>2. [run[a] EXCEPT !.left = @ \ {n}, !.wrote = @ \cup {n}] \in Run
    BY DEF Run
  <2> QED
    BY <1>18, <2>1, <2>2 DEF Upsert
<1>19. ASSUME NEW a \in Actors, NEW n \in Names, UpsertFails(a, n) PROVE TypeOK'
  <2>1. Want(a) \in Target
    BY DEF Want, Target, Run
  <2>2. [run[a] EXCEPT !.left = @ \ {n}, !.wrote = @ \cup {n}, !.failed = TRUE] \in Run
    BY DEF Run
  <2> QED
    BY <1>19, <2>1, <2>2, ConstantsAssumption DEF UpsertFails, Fault
<1>20. ASSUME NEW a \in Actors, Finish(a) PROVE TypeOK'
  <2>1. Want(a) \in Target
    BY DEF Want, Target, Run
  <2>2. memory' \in [print : Target \cup {NoTarget}, fresh : BOOLEAN]
    <3>1. CASE run[a].failed
      BY <1>20, <3>1 DEF Finish
    <3>2. CASE ~run[a].failed
      <4>1. memory' = [print |-> Want(a), fresh |-> TRUE]
        BY <1>20, <3>2 DEF Finish, Fingerprint
      <4> QED
        BY <2>1, <4>1
    <3> QED
      BY <3>1, <3>2
  <2>3. run' \in [Actors -> Run]
    BY <1>20, <1>0 DEF Finish, Ends, Return
  <2> QED
    BY <1>20, <2>2, <2>3 DEF Finish, Ends
<1>21. CASE UNCHANGED vars
  BY <1>21 DEF vars
<1> QED
  BY <1>1, <1>2, <1>3, <1>4, <1>5, <1>6, <1>7, <1>8, <1>9, <1>10, <1>11, <1>12, <1>13, <1>14,
     <1>15, <1>16, <1>17, <1>18, <1>19, <1>20, <1>21 DEF Next, SyncStep

-----------------------------------------------------------------------------
(* The steps by what they do to the lock and the runs *)

Others(a) == \A b \in Actors \ {a} : run'[b] = run[b]

\* Nobody else is at work while a run is.
LEMMA OneInside ==
  ASSUME HolderInside, NEW a \in Actors, run[a].pc \in Inside,
         NEW b \in Actors, b # a
  PROVE  run[b].pc \notin Inside
BY DEF HolderInside

\* A step that leaves the runs alone, and touches only records that it marks as edited.
LEMMA Quiet ==
  ASSUME Inv, TypeOK', UNCHANGED <<run, lock, cut>>, memory'.print = memory.print,
         edited \subseteq edited', \A n \in Names \ edited' : record'[n] = record[n]
  PROVE  Inv'
<1>1. HolderInside' /\ StartsClean'
  BY DEF Inv, HolderInside, StartsClean
<1>2. Published'
  BY DEF Inv, Published, BeingWritten
<1>3. Written'
  BY DEF Inv, Written, WrittenFor, Want
<1> QED
  BY <1>1, <1>2, <1>3 DEF Inv

\* A step of a run that is not writing, and does not begin to.
LEMMA Moves ==
  ASSUME Inv, TypeOK', NEW a \in Actors, Others(a), UNCHANGED <<record, edited, cut>>,
         memory' = memory, run[a].pc # "write", run'[a].pc # "write",
         run'[a].wrote = {}, ~run'[a].failed,
         run'[a].pc \in Inside <=> lock' = a,
         \A b \in Actors \ {a} : lock' = b <=> lock = b
  PROVE  Inv'
<1>1. HolderInside' /\ StartsClean'
  BY DEF Inv, HolderInside, StartsClean, Others
<1>2. ASSUME NEW n \in Names, BeingWritten(n) PROVE BeingWritten(n)'
  BY <1>2 DEF BeingWritten, Others
<1>3. Published'
  BY <1>2 DEF Inv, Published
<1>4. ASSUME NEW b \in Actors, WrittenFor(b) PROVE WrittenFor(b)'
  <2>1. CASE b = a
    BY <2>1 DEF WrittenFor
  <2>2. CASE b # a
    BY <1>4, <2>2 DEF WrittenFor, Want, Others
  <2> QED
    BY <2>1, <2>2
<1>5. Written'
  BY <1>4 DEF Inv, Written
<1> QED
  BY <1>1, <1>3, <1>5 DEF Inv

LEMMA InvNext == ASSUME Inv, [Next]_vars PROVE Inv'
<1>0. TypeOK /\ TypeOK' /\ HolderInside /\ StartsClean /\ Published /\ Written
  BY TypeNext DEF Inv
<1>r. Rest.pc = "idle" /\ Rest.wrote = {} /\ ~Rest.failed /\ Rest.trigger = "schedule"
  BY DEF Rest
<1>t. run \in [Actors -> Run] /\ lock \in Actors \cup {Nobody} /\ run' \in [Actors -> Run]
  BY <1>0 DEF TypeOK
<1>n. Nobody \notin Actors /\ Updater \in Actors /\ Admins \subseteq Actors
  BY NobodyActs DEF Actors
<1>1. CASE NewAddress
  BY <1>1, <1>0, Quiet DEF NewAddress
<1>2. CASE SaveEnabled
  BY <1>2, <1>0, Quiet DEF SaveEnabled
<1>3. CASE SaveOptions
  BY <1>3, <1>0, Quiet DEF SaveOptions
<1>4. CASE HourPasses
  <2>1. memory'.print = memory.print
    BY <1>4, <1>0 DEF HourPasses, TypeOK
  <2> QED
    BY <1>4, <2>1, <1>0, Quiet DEF HourPasses
<1>5. CASE Restart
  <2>1. HolderInside' /\ StartsClean' /\ Written'
    BY <1>5, <1>r, <1>n DEF Restart, HolderInside, Inside, StartsClean, Written, WrittenFor
  <2>2. Published'
    BY <1>5 DEF Restart, Forgotten, Published
  <2> QED
    BY <1>0, <2>1, <2>2 DEF Inv
<1>6. CASE Wake
  <2>1. /\ run[Updater].pc = "idle" /\ run'[Updater].pc = "options"
        /\ run'[Updater].wrote = {} /\ ~run'[Updater].failed /\ Others(Updater)
    BY <1>6, <1>t, <1>r, <1>n DEF Wake, Others, Run, Rest
  <2> QED
    BY <1>6, <2>1, <1>0, <1>n, Moves DEF Wake, HolderInside, Inside
<1>7. ASSUME NEW n \in Names, EditByHand(n) PROVE Inv'
  <2>1. PICK target \in Target : record' = [record EXCEPT ![n] = target]
    BY <1>7 DEF EditByHand
  <2> QED
    BY <1>7, <2>1, <1>0, Quiet DEF EditByHand, TypeOK
<1>8. ASSUME NEW m \in Admins, SyncNow(m) PROVE Inv'
  <2>1. /\ run[m].pc = "idle" /\ run'[m].pc = "options"
        /\ run'[m].wrote = {} /\ ~run'[m].failed /\ Others(m)
    <3>1. PICK trigger \in {"manual"} \cup Addresses :
            run' = [run EXCEPT ![m] = [Rest EXCEPT !.pc = "options", !.trigger = trigger,
                                                   !.enabled = settings.enabled]]
      BY <1>8 DEF SyncNow
    <3>2. Rest \in Run /\ m \in Actors
      BY <1>0, <1>n, RestTyped
    <3> QED
      BY <1>8, <3>1, <3>2, <1>t, <1>r DEF SyncNow, Others, Run
  <2> QED
    BY <1>8, <2>1, <1>0, <1>n, Moves DEF SyncNow, HolderInside, Inside
<1>9. ASSUME NEW m \in Admins, Abort(m) PROVE Inv'
  <2>1. run'[m] = Rest /\ Others(m) /\ m \in Actors
    BY <1>9, <1>t, <1>n DEF Abort, Return, Others
  <2>2. HolderInside' /\ StartsClean'
    BY <1>9, <2>1, <1>0, <1>r, <1>n DEF Abort, HolderInside, Inside, StartsClean, Others
  <2>3. Published'
    <3> SUFFICES ASSUME NEW n \in Names \ (edited' \cup cut'),
                        memory'.print # NoTarget, record'[n] # memory'.print
                 PROVE  BeingWritten(n)'
      BY DEF Published
    <3>1. n \notin run[m].wrote /\ BeingWritten(n)
      BY <1>9, <1>0 DEF Abort, env, Published
    <3> QED
      BY <3>1, <2>1 DEF BeingWritten, Others
  <2>4. ASSUME NEW b \in Actors, WrittenFor(b) PROVE WrittenFor(b)'
    <3>1. CASE b = m
      BY <3>1, <2>1, <1>r DEF WrittenFor
    <3>2. CASE b # m
      BY <2>4, <3>2, <2>1, <1>9 DEF WrittenFor, Want, Others, Abort
    <3> QED
      BY <3>1, <3>2
  <2>5. Written'
    BY <2>4, <1>0 DEF Written
  <2> QED
    BY <1>0, <2>2, <2>3, <2>5 DEF Inv
<1>10. ASSUME NEW a \in Actors, LoadOptions(a) PROVE Inv'
  <2>1. run[a].pc = "options" /\ run[a].wrote = {} /\ ~run[a].failed
    BY <1>10, <1>0 DEF LoadOptions, StartsClean
  <2>2. run'[a].pc \in {"lock", "idle"} /\ run'[a].wrote = {} /\ ~run'[a].failed /\ Others(a)
    BY <1>10, <2>1, <1>t, <1>r DEF LoadOptions, Return, Others, Run
  <2> QED
    BY <1>10, <2>1, <2>2, <1>0, Moves DEF LoadOptions, HolderInside, Inside
<1>11. ASSUME NEW a \in Actors, LoadFails(a) PROVE Inv'
  <2>1. run[a].pc = "options" /\ run'[a] = Rest /\ Others(a)
    BY <1>11, <1>t DEF LoadFails, Return, Others
  <2> QED
    BY <1>11, <2>1, <1>r, <1>0, Moves DEF LoadFails, HolderInside, Inside
<1>12. ASSUME NEW a \in Actors, Acquire(a) PROVE Inv'
  <2>1. run[a].pc = "lock" /\ run[a].wrote = {} /\ ~run[a].failed
    BY <1>12, <1>0 DEF Acquire, StartsClean
  <2>2. run'[a].pc \in {"detect", "decide"} /\ run'[a].wrote = {} /\ ~run'[a].failed /\ Others(a)
    BY <1>12, <2>1, <1>t DEF Acquire, Goto, Others, Run
  <2> QED
    BY <1>12, <2>1, <2>2, <1>0, <1>n, Moves DEF Acquire, Inside
<1>13. ASSUME NEW a \in Actors, Detect(a) PROVE Inv'
  <2>1. run[a].pc = "detect" /\ run[a].wrote = {} /\ ~run[a].failed
    BY <1>13, <1>0 DEF Detect, StartsClean
  <2>2. run'[a].pc = "decide" /\ run'[a].wrote = {} /\ ~run'[a].failed /\ Others(a)
    BY <1>13, <2>1, <1>t DEF Detect, Others, Run
  <2> QED
    BY <1>13, <2>1, <2>2, <1>0, Moves DEF Detect, HolderInside, Inside
<1>14. ASSUME NEW a \in Actors, DetectFails(a) PROVE Inv'
  <2>1. run[a].pc = "detect" /\ run'[a] = Rest /\ Others(a) /\ lock = a /\ lock' = Nobody
    BY <1>14, <1>t, <1>0 DEF DetectFails, Ends, Return, Others, HolderInside, Inside
  <2> QED
    BY <1>14, <2>1, <1>r, <1>0, <1>n, Moves DEF DetectFails, Inside
<1>15. ASSUME NEW a \in Actors, Skip(a) PROVE Inv'
  <2>1. run[a].pc = "decide" /\ run'[a] = Rest /\ Others(a) /\ lock = a /\ lock' = Nobody
    BY <1>15, <1>t, <1>0 DEF Skip, Return, Others, HolderInside, Inside
  <2> QED
    BY <1>15, <2>1, <1>r, <1>0, <1>n, Moves DEF Skip, Inside
<1>17. ASSUME NEW a \in Actors, ConnectFails(a) PROVE Inv'
  <2>1. run[a].pc = "decide" /\ run'[a] = Rest /\ Others(a) /\ lock = a /\ lock' = Nobody
    BY <1>17, <1>t, <1>0 DEF ConnectFails, Ends, Return, Others, HolderInside, Inside
  <2> QED
    BY <1>17, <2>1, <1>r, <1>0, <1>n, Moves DEF ConnectFails, Inside
<1>16. ASSUME NEW a \in Actors, Connect(a) PROVE Inv'
  <2>1. run[a].pc = "decide" /\ run[a].wrote = {} /\ ~run[a].failed
    BY <1>16, <1>0 DEF Connect, StartsClean
  <2>2. run'[a].pc = "write" /\ run'[a].left = Names /\ run'[a].wrote = {} /\ Others(a)
    BY <1>16, <2>1, <1>t DEF Connect, Others, Run
  <2>3. HolderInside' /\ StartsClean'
    BY <1>16, <2>1, <2>2, <1>0 DEF Connect, HolderInside, Inside, StartsClean, Others
  <2>4. ASSUME NEW n \in Names, BeingWritten(n) PROVE BeingWritten(n)'
    BY <2>4, <2>1, <2>2 DEF BeingWritten, Others
  <2>5. Published'
    BY <1>16, <2>4, <1>0 DEF Connect, Published, env
  <2>6. ASSUME NEW b \in Actors, WrittenFor(b) PROVE WrittenFor(b)'
    <3>1. CASE b = a
      BY <3>1, <2>2 DEF WrittenFor
    <3>2. CASE b # a
      BY <2>6, <3>2, <2>2, <1>16 DEF WrittenFor, Want, Others, Connect
    <3> QED
      BY <3>1, <3>2
  <2> QED
    BY <1>0, <2>3, <2>5, <2>6 DEF Inv, Written
<1>18. ASSUME NEW a \in Actors, NEW n \in Names, Upsert(a, n) PROVE Inv'
  <2>1. /\ run'[a].pc = "write" /\ run'[a].left = run[a].left \ {n}
        /\ run'[a].wrote = run[a].wrote \cup {n} /\ run'[a].failed = run[a].failed
        /\ Want(a)' = Want(a) /\ Others(a) /\ run[a].pc = "write" /\ lock = a
    BY <1>18, <1>t, <1>0 DEF Upsert, Others, Run, Want, HolderInside, Inside
  <2>2. record'[n] = Want(a) /\ \A k \in Names \ {n} : record'[k] = record[k]
    BY <1>18, <1>0 DEF Upsert, TypeOK
  <2>3. HolderInside' /\ StartsClean'
    BY <1>18, <2>1, <1>0 DEF Upsert, HolderInside, Inside, StartsClean, Others
  <2>4. ASSUME NEW k \in Names, k = n \/ BeingWritten(k) PROVE BeingWritten(k)'
    BY <2>4, <2>1 DEF BeingWritten, Others
  <2>5. Published'
    BY <1>18, <2>2, <2>4, <1>0 DEF Upsert, Published, env
  <2>6. ASSUME NEW b \in Actors, WrittenFor(b) PROVE WrittenFor(b)'
    <3>1. CASE b = a
      <4>1. run[a].left \cup run[a].wrote = Names
        BY <2>6, <2>1, <3>1 DEF WrittenFor
      <4>2. run'[a].left \cup run'[a].wrote = Names
        BY <4>1, <2>1
      <4>3. ASSUME ~run[a].failed, NEW k \in run'[a].wrote \ (edited' \cup cut')
            PROVE  record'[k] = Want(a)
        <5>1. CASE k = n
          BY <5>1, <2>2
        <5>2. CASE k # n
          BY <5>2, <2>6, <3>1, <2>1, <2>2, <4>1, <4>2, <4>3, <1>18 DEF WrittenFor, Upsert
        <5> QED
          BY <5>1, <5>2
      <4> QED
        BY <3>1, <4>2, <4>3, <2>1 DEF WrittenFor
    <3>2. CASE b # a
      BY <3>2, <2>1, <1>0, OneInside DEF WrittenFor, Others, Inside
    <3> QED
      BY <3>1, <3>2
  <2> QED
    BY <1>0, <2>3, <2>5, <2>6 DEF Inv, Written
<1>19. ASSUME NEW a \in Actors, NEW n \in Names, UpsertFails(a, n) PROVE Inv'
  <2>1. /\ run'[a].pc = "write" /\ run'[a].left = run[a].left \ {n}
        /\ run'[a].wrote = run[a].wrote \cup {n} /\ run'[a].failed
        /\ Others(a) /\ run[a].pc = "write" /\ lock = a
    BY <1>19, <1>t, <1>0 DEF UpsertFails, Others, Run, HolderInside, Inside
  <2>2. \A k \in Names \ {n} : record'[k] = record[k]
    BY <1>19, <1>0 DEF UpsertFails, TypeOK
  <2>3. HolderInside' /\ StartsClean'
    BY <1>19, <2>1, <1>0 DEF UpsertFails, HolderInside, Inside, StartsClean, Others
  <2>4. ASSUME NEW k \in Names, k = n \/ BeingWritten(k) PROVE BeingWritten(k)'
    BY <2>4, <2>1 DEF BeingWritten, Others
  <2>5. Published'
    BY <1>19, <2>2, <2>4, <1>0 DEF UpsertFails, Published, env
  <2>6. ASSUME NEW b \in Actors, WrittenFor(b) PROVE WrittenFor(b)'
    <3>1. CASE b = a
      BY <2>6, <2>1, <3>1 DEF WrittenFor
    <3>2. CASE b # a
      BY <3>2, <2>1, <1>0, OneInside DEF WrittenFor, Others, Inside
    <3> QED
      BY <3>1, <3>2
  <2> QED
    BY <1>0, <2>3, <2>5, <2>6 DEF Inv, Written
<1>20. ASSUME NEW a \in Actors, Finish(a) PROVE Inv'
  <2>1. /\ run'[a] = Rest /\ Others(a) /\ run[a].pc = "write" /\ run[a].left = {}
        /\ lock = a /\ lock' = Nobody
    BY <1>20, <1>t, <1>0 DEF Finish, Ends, Return, Others, HolderInside, Inside
  <2>2. HolderInside' /\ StartsClean'
    BY <2>1, <1>0, <1>r, <1>n DEF HolderInside, Inside, StartsClean, Others
  <2>3. Written'
    BY <2>1, <1>0, <1>r, OneInside DEF Written, WrittenFor, Others, Inside
  <2>4. Published'
    <3>1. CASE run[a].failed
      <4>1. memory'.print = NoTarget
        BY <1>20, <3>1, <1>0 DEF Finish, TypeOK
      <4> QED
        BY <4>1 DEF Published
    <3>2. CASE ~run[a].failed
      <4>1. memory'.print = Want(a)
        BY <1>20, <3>2 DEF Finish, Fingerprint
      <4>2. \A n \in Names \ (edited \cup cut) : record[n] = Want(a)
        BY <3>2, <2>1, <1>0 DEF Written, WrittenFor
      <4> QED
        BY <4>1, <4>2, <1>20 DEF Published, Finish, env
    <3> QED
      BY <3>1, <3>2
  <2> QED
    BY <1>0, <2>2, <2>3, <2>4 DEF Inv
<1>21. CASE UNCHANGED vars
  BY <1>21, <1>0, Quiet DEF vars
<1> QED
  BY <1>1, <1>2, <1>3, <1>4, <1>5, <1>6, <1>7, <1>8, <1>9, <1>10, <1>11, <1>12, <1>13, <1>14,
     <1>15, <1>16, <1>17, <1>18, <1>19, <1>20, <1>21 DEF Next, SyncStep

-----------------------------------------------------------------------------
(* What the project states *)

LEMMA InvAlways == Spec => []Inv
<1> QED
  BY InvInit, InvNext, PTL DEF Spec

\* Every variable of the updater, its lock, its memory and the records keeps its type.
THEOREM TypeCorrect == Spec => []TypeOK
<1>1. Inv => TypeOK
  BY DEF Inv
<1> QED
  BY <1>1, InvAlways, PTL

\* With the lock free, what the memory says was published is what Cloudflare has, except
\* where someone edited a record or an aborted run wrote since: whatever failed, was saved
\* under a run, or restarted.
THEOREM MemoryPublished == Spec => []MemoryIsPublished
<1>1. Inv => MemoryIsPublished
  <2> SUFFICES ASSUME Inv, lock = Nobody, memory.print # NoTarget,
                      NEW n \in Names \ (edited \cup cut)
               PROVE  record[n] = memory.print
    BY DEF MemoryIsPublished, Fingerprint
  <2>1. ~BeingWritten(n)
    BY NobodyActs DEF Inv, HolderInside, Inside, BeingWritten
  <2> QED
    BY <2>1 DEF Inv, Published
<1> QED
  BY <1>1, InvAlways, PTL

\* What a scheduled check skips is what it would publish: it never returns early while a
\* record is wrong, unless by hand or by an aborted run.
THEOREM SkipsAreSafe == Spec => SkipIsSafe
<1>1. ASSUME Inv, NEW n \in Names \ (edited \cup cut), Skip(Updater)
      PROVE  record[n] = Want(Updater)
  <2>1. memory.print = Want(Updater) /\ lock = Updater
    BY <1>1, NobodyActs DEF Skip, Fresh, Fingerprint, Inv, HolderInside, Inside
  <2>2. Want(Updater) # NoTarget
    BY <1>1, NobodyActs, ValuesAssumption DEF Inv, TypeOK, Run, Want, NoTarget
  <2>3. ~BeingWritten(n)
    BY <1>1, <2>1, NobodyActs, OneInside DEF Skip, Inv, BeingWritten, Inside
  <2> QED
    BY <1>1, <2>1, <2>2, <2>3 DEF Inv, Published
<1>2. Inv /\ [Next]_vars =>
        [\A n \in Names \ (edited \cup cut) : Skip(Updater) => record[n] = Want(Updater)]_vars
  BY <1>1
<1> QED
  BY <1>2, InvAlways, PTL DEF Spec, SkipIsSafe
=============================================================================
