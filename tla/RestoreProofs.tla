---------------------------- MODULE RestoreProofs ----------------------------
(* What a restore promises about its three files, for any jobs, documents    *)
(* and budgets: what a commit is based on, that a finished job restored all  *)
(* of them or none - in what the processes read while the power stays, and   *)
(* on the flash while nobody is killed and nothing fails - and that nothing  *)
(* but a disturbance leaves it stuck.                                        *)
EXTENDS BackupProofs

-----------------------------------------------------------------------------
(* What a step may do to the files                                           *)

Phased(v, ph) == [v EXCEPT !.phase = ph]
Calm(f) == mem'[f] = mem[f] /\ disk'[f] \subseteq disk[f]
Writes(f, v) ==
  /\ mem'[f] = v /\ disk'[f] = disk[f] \union {v}
  /\ \A g \in Files : g # f => mem'[g] = mem[g] /\ disk'[g] = disk[g]

JobWrites(j) ==
  /\ WorkWrite(j) /\ wk[j].pc \in Section /\ wk'[j].pc = wk[j].pc
  /\ ~wk[j].syncing /\ wk'[j].syncing
  /\ wk[j].pc \in {"apply", "mark", "commit"} =>
       Writes("journal", Phased(wk[j].val, Marks[wk[j].pc]))
  /\ wk[j].pc \in {"config", "policy", "state"} =>
       Writes(wk[j].pc, wk[j].val.after[wk[j].pc])
  /\ wk[j].pc \in {"apply", "mark"} => Cleared(j, wk[j].pc)
RecoveryWrites(p) ==
  /\ RecWrite(p) /\ rec[p].pc \in RecWrites /\ rec'[p].pc = rec[p].pc
  /\ rec[p].stage = "write" /\ rec'[p].stage = "sync"
  /\ rec[p].pc \in Products => Writes(rec[p].pc, rec[p].val.before[rec[p].pc])
  /\ rec[p].pc = "publish" => Writes("journal", rec[p].val)
  /\ rec[p].pc = "error" => Writes("journal", Phased(rec[p].val, "RECOVERY_REQUIRED"))
CallWrites ==
  \/ RpcIntent /\ Writes("intent", mem.intent + 1)
  \/ RpcKeys /\ \E k \in Keys : Writes("keys", k)
  \/ RpcWrite /\ \E s \in NewStates(mem.state) : s # mem.state /\ Writes("state", s)
  \/ RpcPrepare /\ rpc'.pc = "queued" /\ Writes("journal", rpc.val)
Clears ==
  /\ RpcQueue /\ mem'.journal = NoJournal /\ disk'.journal = {NoJournal}
  /\ \A f \in Files : f # "journal" => Calm(f)
  /\ \A f \in Files : disk'[f] = {mem'[f]}
Loses ==
  PowerLoss /\ \A f \in Files : mem'[f] \in disk[f] /\ disk'[f] = {mem'[f]}

LEMMA Putting ==
  ASSUME FilesOK, NEW f \in Files, NEW v, Put(f, v)
  PROVE  Writes(f, v)
  BY DEF Put, FilesOK, Writes

LEMMA Syncing ==
  ASSUME FilesOK, Sync
  PROVE  \A f \in Files : Calm(f) /\ disk'[f] = {mem[f]}
  BY DEF Sync, FilesOK, Calm

LEMMA JobPuts ==
  ASSUME TypeInv, NEW j \in Jobs, WorkWrite(j),
         ~(wk[j].pc \in {"apply", "mark"} /\ ~Cleared(j, wk[j].pc))
  PROVE  JobWrites(j)
<1> DEFINE pc == wk[j].pc
           v == wk[j].val
<1>1. Put(WorkFile[pc], IF pc \in DOMAIN Marks THEN [v EXCEPT !.phase = Marks[pc]]
                                               ELSE v.after[pc])
  BY DEF WorkWrite
<1>2. /\ pc \in DOMAIN Marks <=> pc \in {"apply", "mark", "commit"}
      /\ pc \in {"apply", "mark", "commit"} => WorkFile[pc] = "journal"
      /\ pc \in {"config", "policy", "state"} => WorkFile[pc] = pc
  BY WorkTables
<1>3. pc \in {"apply", "mark", "commit"} => Put("journal", Phased(v, Marks[pc]))
  BY <1>1, <1>2 DEF Phased
<1>4. pc \in {"config", "policy", "state"} => Put(pc, v.after[pc])
  BY <1>1, <1>2
<1>5. /\ pc \in {"apply", "mark", "commit"} => Writes("journal", Phased(v, Marks[pc]))
      /\ pc \in {"config", "policy", "state"} => Writes(pc, v.after[pc])
  BY <1>3, <1>4, Putting DEF Files, TypeInv
<1>6. pc \in Section /\ wk' = [wk EXCEPT ![j].syncing = TRUE]
  BY WorkTables DEF WorkWrite
<1>7. wk'[j].pc = pc /\ ~wk[j].syncing /\ wk'[j].syncing
  BY <1>6 DEF TypeInv, WkOK, WorkWrite
<1>8. pc \in {"apply", "mark"} => Cleared(j, pc)
  OBVIOUS
<1> QED
  BY <1>5, <1>6, <1>7, <1>8 DEF JobWrites

LEMMA JobFiles ==
  ASSUME TypeInv, NEW j \in Jobs, WorkWrite(j)
  PROVE  JobWrites(j) \/ \A f \in Files : Calm(f)
<1>1. CASE wk[j].pc \in {"apply", "mark"} /\ ~Cleared(j, wk[j].pc)
  BY <1>1 DEF WorkWrite, Calm
<1> QED
  BY <1>1, JobPuts

LEMMA RecoveryFiles ==
  ASSUME TypeInv, NEW p \in Recoverers, RecWrite(p)
  PROVE  RecoveryWrites(p)
<1>1. rec[p].pc \in RecWrites /\ rec[p].pc \in {"config", "policy", "publish", "error"}
  BY RecTables DEF RecWrite, RecAt
<1>4. rec[p].stage = "write" /\ rec'[p].stage = "sync" /\ rec'[p].pc = rec[p].pc
  BY RecWriteTypes DEF RecWrite, RecAt
<1>2. /\ rec[p].pc \in Products => Put(rec[p].pc, rec[p].val.before[rec[p].pc])
      /\ rec[p].pc = "publish" => Put("journal", rec[p].val)
      /\ rec[p].pc = "error" => Put("journal", Phased(rec[p].val, "RECOVERY_REQUIRED"))
  BY <1>1 DEF RecWrite, Products, Phased
<1>3. /\ rec[p].pc \in Products => Writes(rec[p].pc, rec[p].val.before[rec[p].pc])
      /\ rec[p].pc = "publish" => Writes("journal", rec[p].val)
      /\ rec[p].pc = "error" => Writes("journal", Phased(rec[p].val, "RECOVERY_REQUIRED"))
  BY <1>2, Putting DEF Files, TypeInv, Products
<1> QED
  BY <1>1, <1>3, <1>4 DEF RecoveryWrites

LEMMA CallFiles ==
  ASSUME TypeInv, Rpc
  PROVE  CallWrites \/ Clears \/ \A f \in Files : Calm(f)
<1>1. FilesOK /\ mem.journal \in disk.journal /\ mem.keys \in Keys
  BY FileTypes DEF TypeInv, FilesOK, Files
<1>2. CASE RpcIntent
  BY <1>1, <1>2, Putting DEF RpcIntent, CallWrites, Files
<1>3. CASE RpcKeys
  <2>1. PICK n \in {0, 1} : Put("keys", [rev |-> mem.keys.rev + 1, owner |-> mem.keys.owner + n])
    BY <1>3 DEF RpcKeys
  <2>2. [rev |-> mem.keys.rev + 1, owner |-> mem.keys.owner + n] \in Keys
    BY <1>1 DEF Keys
  <2> QED
    BY <1>1, <1>3, <2>1, <2>2, Putting DEF CallWrites, Files
<1>4. CASE RpcWrite
  <2>1. PICK s \in NewStates(mem.state) :
          IF s = mem.state THEN UNCHANGED <<mem, disk>> ELSE Put("state", s)
    BY <1>4 DEF RpcWrite
  <2>2. CASE s = mem.state
    BY <2>1, <2>2 DEF Calm
  <2>3. CASE s # mem.state
    <3>1. Writes("state", s)
      BY <1>1, <2>1, <2>3, Putting DEF Files
    <3> QED
      BY <1>4, <2>3, <3>1 DEF CallWrites
  <2> QED
    BY <2>2, <2>3
<1>5. CASE RpcQueue
  <2>1. CASE mem.journal = NoJournal
    BY <1>5, <2>1 DEF RpcQueue, Calm
  <2>2. CASE mem.journal # NoJournal
    <3>1. /\ mem' = [mem EXCEPT !.journal = NoJournal]
          /\ disk' = [f \in Files |-> {mem'[f]}]
      BY <1>5, <2>2 DEF RpcQueue
    <3>2. /\ mem'.journal = NoJournal /\ disk'.journal = {NoJournal}
          /\ \A f \in Files : f # "journal" => mem'[f] = mem[f]
          /\ \A f \in Files : disk'[f] = {mem'[f]}
      BY <1>1, <3>1 DEF FilesOK, Files
    <3> QED
      BY <1>1, <1>5, <3>2 DEF Clears, Calm, FilesOK
  <2> QED
    BY <2>1, <2>2
<1>6. CASE RpcPrepare
  <2>1. CASE mem.config = rpc.val.before.config
    <3>1. Put("journal", rpc.val) /\ RpcGoto("queued")
      BY <1>6, <2>1 DEF RpcPrepare
    <3>2. rpc'.pc = "queued"
      BY <3>1 DEF RpcGoto, TypeInv, RpcOK
    <3> QED
      BY <1>1, <1>6, <3>1, <3>2, Putting DEF CallWrites, Files
  <2>2. CASE mem.config # rpc.val.before.config
    BY <1>6, <2>2 DEF RpcPrepare, Calm
  <2> QED
    BY <2>1, <2>2
<1>7. CASE RpcQueued
  BY <1>1, <1>7, Syncing DEF RpcQueued
<1>8. CASE RpcLock \/ RpcRestart \/ RpcRefuse \/ RpcLaunch \/ RpcRecovered
  BY <1>8 DEF RpcLock, RpcRestart, RpcRefuse, RpcLaunch, RpcRecovered, Calm
<1> QED
  BY <1>2, <1>3, <1>4, <1>5, <1>6, <1>7, <1>8 DEF Rpc

Still == \A f \in Files : Calm(f)
FileStep ==
  \/ Still \/ Clears \/ CallWrites \/ Loses
  \/ \E j \in Jobs : JobWrites(j)
  \/ \E p \in Recoverers : RecoveryWrites(p)
  \/ TickWrite /\ Writes("policy", Ticks)
  \/ Edit /\ Writes("config", "edited")

LEMMA FileMoves ==
  ASSUME TypeInv, [Next]_vars
  PROVE  FileStep
<1>1. FilesOK
  BY DEF TypeInv
<1>2. ASSUME NEW j \in Jobs, Worker(j) PROVE FileStep
  <2>1. CASE WorkWrite(j)
    BY <2>1, JobFiles DEF FileStep, Still
  <2>2. CASE WorkSync(j)
    BY <1>1, <2>2, Syncing DEF WorkSync, FileStep, Still
  <2>3. CASE ~WorkWrite(j) /\ ~WorkSync(j)
    <3>1. UNCHANGED <<mem, disk>>
      BY <1>2, <2>3 DEF Worker, WorkContext, WorkEngine, WorkFirst, WorkQuiesce, WorkCatch,
         WorkRecovered, WorkResume, WorkAbort, WorkAborted
    <3> QED BY <3>1 DEF FileStep, Still, Calm
  <2> QED BY <2>1, <2>2, <2>3
<1>3. ASSUME NEW p \in Recoverers, Recovery(p) PROVE FileStep
  <2>1. CASE RecWrite(p)
    BY <2>1, RecoveryFiles DEF FileStep
  <2>2. CASE RecSync(p)
    BY <1>1, <2>2, Syncing DEF RecSync, FileStep, Still
  <2>3. CASE ~RecWrite(p) /\ ~RecSync(p)
    <3>1. UNCHANGED <<mem, disk>>
      BY <1>3, <2>3 DEF Recovery, RecPeek, RecEngine, RecState, RecRead, RecCheck
    <3> QED BY <3>1 DEF FileStep, Still, Calm
  <2> QED BY <2>1, <2>2, <2>3
<1>4. CASE Rpc
  BY <1>4, CallFiles DEF FileStep, Still
<1>5. CASE TickWrite
  BY <1>1, <1>5, Putting DEF TickWrite, FileStep, Files
<1>6. CASE Edit
  BY <1>1, <1>6, Putting DEF Edit, FileStep, Files
<1>7. CASE PowerLoss
  <2>1. PICK st \in disk.state, cf \in disk.config, po \in disk.policy,
             jo \in disk.journal, it \in disk.intent, ke \in disk.keys :
          mem' = [state |-> st, config |-> cf, policy |-> po, journal |-> jo,
                  intent |-> it, keys |-> ke]
    BY <1>7 DEF PowerLoss
  <2>2. \A f \in Files : mem'[f] \in disk[f]
    BY <2>1 DEF Files
  <2>3. disk' = [f \in Files |-> {mem'[f]}]
    BY <1>7 DEF PowerLoss
  <2>4. \A f \in Files : disk'[f] = {mem'[f]}
    BY <2>3
  <2> QED BY <1>7, <2>2, <2>4 DEF FileStep, Loses
<1>8. CASE \/ InitScript \/ TunnelEnds \/ TickGuard \/ TickLock \/ TickDone \/ Reload \/ Fault
           \/ RpcdDies
           \/ (\E op \in Ops : RpcCall(op)) \/ (\E j \in Jobs : WorkerDies(j))
           \/ UNCHANGED vars
  <2>1. UNCHANGED <<mem, disk>>
    BY <1>8 DEF InitScript, InitStop, InitBoot, InitGate, InitStart, InitDone, TunnelEnds,
       TickGuard,
       TickLock, TickDone, Reload, Fault, RecFault, WorkFault, RpcFault, RpcdDies, RpcCall,
       WorkerDies, vars
  <2> QED BY <2>1 DEF FileStep, Still, Calm
<1> QED
  BY <1>2, <1>3, <1>4, <1>5, <1>6, <1>7, <1>8 DEF Next, System, Environment, Tick

-----------------------------------------------------------------------------
(* Where a step may take a worker                                            *)

Ending == {"catch", "recovering", "resume", "resuming", "abort", "aborting", "gone"}
JobStep(j) ==
  \/ wk'[j] = wk[j]
  \/ wk'[j].pc \in Ending /\ ~wk'[j].syncing /\ wk[j].pc # "off"
  \/ wk[j].pc = "off" /\ wk'[j].pc = "off" /\ ~wk'[j].syncing
  \/ wk[j].pc = "off" /\ wk'[j].pc = "context" /\ RpcLaunch /\ rpc.val.id = j
     /\ ~wk'[j].syncing /\ UNCHANGED <<mem, disk>>
  \/ /\ \/ wk[j].pc = "context" /\ wk'[j].pc = "engine"
        \/ wk[j].pc = "first" /\ wk'[j].pc = "quiesce" /\ Pending(mem.journal)
     /\ mem.journal \in Journals /\ mem.journal.id = j /\ wk'[j].val = mem.journal
     /\ ~wk'[j].syncing /\ UNCHANGED <<mem, disk, rpc, rec, meddled>>
  \/ /\ \/ wk[j].pc = "engine" /\ wk'[j].pc = "first"
        \/ wk[j].pc = "quiesce" /\ wk'[j].pc = "quiescing"
        \/ wk[j].pc = "quiescing" /\ wk'[j].pc = "apply"
     /\ wk'[j].val = wk[j].val /\ ~wk'[j].syncing /\ UNCHANGED <<mem, disk, rec, meddled>>
  \/ /\ JobWrites(j) /\ wk'[j].val = wk[j].val /\ ~wk[j].syncing /\ wk'[j].syncing
     /\ UNCHANGED <<rpc, rec, meddled>>
  \/ /\ WorkSync(j) /\ wk[j].syncing /\ ~wk'[j].syncing /\ wk'[j].val = wk[j].val
     /\ \/ wk[j].pc = "apply" /\ wk'[j].pc = "config"
        \/ wk[j].pc = "config" /\ wk'[j].pc = "policy" /\ mem.config = wk[j].val.after.config
        \/ wk[j].pc = "policy" /\ wk'[j].pc = "mark" /\ mem.policy = wk[j].val.after.policy
        \/ wk[j].pc = "mark" /\ wk'[j].pc = "state"
        \/ wk[j].pc = "state" /\ wk'[j].pc = "commit" /\ mem.state = wk[j].val.after.state
     /\ mem' = mem /\ (\A f \in Files : disk'[f] = {mem[f]}) /\ UNCHANGED <<rpc, rec, meddled>>

LEMMA JobSyncs ==
  ASSUME TypeInv, NEW j \in Jobs, WorkSync(j)
  PROVE  JobStep(j)
<1> DEFINE v == wk[j].val
<1>1. /\ wk[j].syncing /\ Sync /\ mem' = mem /\ ~wk'[j].syncing /\ wk'[j].val = v
      /\ UNCHANGED <<rpc, rec, meddled>>
  BY WorkSyncTypes DEF WorkSync
<1>2. \A f \in Files : disk'[f] = {mem[f]}
  BY <1>1, Syncing DEF TypeInv
<1>3. wk[j].pc \in Section /\ wk[j].pc # "off"
  BY <1>1 DEF TypeInv, WkOK, Section
<1>4. CASE wk'[j].pc \in {"catch", "resume"}
  BY <1>1, <1>3, <1>4 DEF JobStep, Ending
<1>5. CASE wk'[j].pc \notin {"catch", "resume"}
  <2>1. \/ wk[j].pc = "apply" /\ wk'[j].pc = "config"
        \/ wk[j].pc = "config" /\ wk'[j].pc = "policy"
        \/ wk[j].pc = "policy" /\ wk'[j].pc = "mark"
        \/ wk[j].pc = "mark" /\ wk'[j].pc = "state"
        \/ wk[j].pc = "state" /\ wk'[j].pc = "commit"
    BY <1>5, WorkSyncTypes
  <2>2. wk[j].pc \in {"config", "policy", "state"} => mem[wk[j].pc] = v.after[wk[j].pc]
    <3>1. SUFFICES ASSUME wk[j].pc \in {"config", "policy", "state"},
                          mem[wk[j].pc] # v.after[wk[j].pc]
                   PROVE  FALSE
      OBVIOUS
    <3>2. Goto(j, "catch")
      BY <3>1 DEF WorkSync, Products
    <3>3. wk'[j].pc = "catch"
      BY <3>2, WorkGoes, WorkPlaces DEF TypeInv
    <3> QED BY <1>5, <3>3
  <2>3. /\ wk[j].pc = "config" => mem.config = v.after.config
        /\ wk[j].pc = "policy" => mem.policy = v.after.policy
        /\ wk[j].pc = "state" => mem.state = v.after.state
    BY <2>2
  <2> QED
    BY <1>1, <1>2, <2>1, <2>3 DEF JobStep
<1> QED
  BY <1>4, <1>5

LEMMA JobWorks ==
  ASSUME TypeInv, NEW j \in Jobs, Worker(j)
  PROVE  JobStep(j)
<1>1. CASE WorkContext(j)
  BY <1>1, WorkContextTypes DEF WorkContext, At, JobStep, Ending
<1>2. CASE WorkEngine(j)
  BY <1>2, WorkEngineTypes DEF WorkEngine, At, JobStep, Ending
<1>3. CASE WorkFirst(j)
  BY <1>3, WorkFirstTypes DEF WorkFirst, At, JobStep, Ending
<1>4. CASE WorkQuiesce(j)
  BY <1>4, WorkQuiesceTypes DEF WorkQuiesce, At, JobStep
<1>5. CASE WorkWrite(j)
  <2>1. /\ wk[j].pc \in Section /\ wk'[j].val = wk[j].val /\ ~wk[j].syncing
        /\ UNCHANGED <<rpc, rec, meddled>> /\ wk[j].pc # "off"
    BY <1>5, WorkWrites DEF WorkWrite, Section
  <2>2. CASE wk'[j].pc = "catch" /\ ~wk'[j].syncing
    BY <2>1, <2>2 DEF JobStep, Ending
  <2>3. CASE wk'[j].pc = wk[j].pc /\ wk'[j].syncing
    <3>1. ~(wk[j].pc \in {"apply", "mark"} /\ ~Cleared(j, wk[j].pc))
      <4>1. SUFFICES ASSUME wk[j].pc \in {"apply", "mark"}, ~Cleared(j, wk[j].pc) PROVE FALSE
        OBVIOUS
      <4>2. Goto(j, "catch")
        BY <1>5, <4>1 DEF WorkWrite
      <4>3. wk'[j].pc = "catch"
        BY <4>2, WorkGoes, WorkPlaces DEF TypeInv
      <4> QED BY <2>3, <4>1, <4>3
    <3>2. JobWrites(j)
      BY <1>5, <2>3, <3>1, JobPuts
    <3> QED BY <2>1, <2>3, <3>2 DEF JobStep
  <2> QED BY <1>5, <2>2, <2>3, WorkWrites
<1>6. CASE WorkSync(j)
  BY <1>6, JobSyncs
<1>7. CASE WorkCatch(j)
  BY <1>7, WorkCatchTypes DEF WorkCatch, At, JobStep, Ending
<1>8. CASE WorkRecovered(j)
  BY <1>8, WorkRecoveredTypes DEF WorkRecovered, At, JobStep, Ending
<1>9. CASE WorkResume(j)
  BY <1>9, WorkResumeTypes DEF WorkResume, At, JobStep, Ending
<1>10. CASE WorkAbort(j)
  BY <1>10, WorkAbortTypes DEF WorkAbort, At, JobStep, Ending
<1>11. CASE WorkAborted(j)
  BY <1>11, WorkAbortedTypes DEF WorkAborted, At, JobStep, Ending
<1> QED
  BY <1>1, <1>2, <1>3, <1>4, <1>5, <1>6, <1>7, <1>8, <1>9, <1>10, <1>11 DEF Worker

LEMMA JobMoves ==
  ASSUME TypeInv, LaunchOK, NEW j \in Jobs, [Next]_vars
  PROVE  JobStep(j)
<1>1. ASSUME NEW i \in Jobs, Worker(i) PROVE JobStep(j)
  <2>1. i = j => JobStep(j)
    BY <1>1, JobWorks
  <2>2. i # j => wk'[j] = wk[j]
    BY <1>1, WorkerTypes
  <2> QED BY <2>1, <2>2 DEF JobStep
<1>2. CASE InitDone
  <2>1. \/ wk'[j] = wk[j]
        \/ /\ wk[j].pc = "quiescing" /\ wk'[j].pc = "apply" /\ ~wk'[j].syncing
           /\ wk'[j].val = wk[j].val
        \/ wk[j].pc = "resuming" /\ wk'[j].pc = "gone" /\ ~wk'[j].syncing
    BY <1>2, InitDoneTypes
  <2> QED BY <1>2, <2>1 DEF JobStep, InitDone, Ending
<1>3. CASE RpcLaunch
  <2>1. /\ wk'[rpc.val.id].pc = "context" /\ ~wk'[rpc.val.id].syncing
        /\ wk[rpc.val.id].pc = "off"
        /\ \A i \in Jobs : i # rpc.val.id => wk'[i] = wk[i]
    BY <1>3, RpcLaunchTypes DEF LaunchOK, RpcLaunch, RpcAt, Enqueued
  <2> QED BY <1>3, <2>1 DEF JobStep, RpcLaunch
<1>4. CASE Fault
  <2>1. ASSUME NEW i \in Jobs, WorkFault(i) PROVE JobStep(j)
    <3>1. i = j => wk'[j].pc = "catch" /\ ~wk'[j].syncing /\ wk[j].pc # "off"
      BY <2>1, WorkFaults, WorkTables DEF WorkFault, At, Section
    <3>2. i # j => wk'[j] = wk[j]
      BY <2>1, WorkFaults
    <3> QED BY <3>1, <3>2 DEF JobStep, Ending
  <2>2. CASE ~\E i \in Jobs : WorkFault(i)
    <3>1. wk' = wk
      BY <1>4, <2>2 DEF Fault, RecFault, RpcFault
    <3> QED BY <3>1 DEF JobStep
  <2> QED BY <2>1, <2>2
<1>5. ASSUME NEW i \in Jobs, WorkerDies(i) PROVE JobStep(j)
  <2>1. i = j => wk[j].pc # "off" /\ wk'[j].pc = "gone" /\ ~wk'[j].syncing
    BY <1>5, WorkerDiesTypes
  <2>2. i # j => wk'[j] = wk[j]
    BY <1>5, WorkerDiesTypes
  <2> QED BY <2>1, <2>2 DEF JobStep, Ending
<1>6. CASE PowerLoss
  <2>1. wk'[j] = IF wk[j].pc = "off" THEN NoWorker ELSE [NoWorker EXCEPT !.pc = "gone"]
    BY <1>6 DEF PowerLoss
  <2> QED BY <2>1 DEF JobStep, NoWorker, Ending
<1>7. CASE \/ (Rpc /\ ~RpcLaunch) \/ (InitScript /\ ~InitDone) \/ TunnelEnds \/ Tick \/ Reload
           \/ Edit
           \/ RpcdDies \/ (\E op \in Ops : RpcCall(op))
           \/ (\E p \in Recoverers : Recovery(p)) \/ UNCHANGED vars
  <2>1. wk' = wk
    BY <1>7 DEF Rpc, RpcLock, RpcIntent, RpcKeys, RpcWrite, RpcRestart, RpcQueue, RpcRefuse,
       RpcPrepare, RpcQueued, RpcRecovered, InitScript, InitStop, InitBoot, InitGate, InitStart,
       TunnelEnds, Tick, TickGuard, TickLock, TickWrite, TickDone, Reload, Edit, RpcdDies, RpcCall,
       Recovery,
       RecPeek, RecEngine, RecState, RecRead, RecCheck, RecWrite, RecSync, vars
  <2> QED BY <2>1 DEF JobStep
<1> QED
  BY <1>1, <1>2, <1>3, <1>4, <1>5, <1>6, <1>7 DEF Next, System, Environment

-----------------------------------------------------------------------------
(* Where a step may take a recovery, and a call that restores                *)

RecStep(p) ==
  \/ rec'[p] = rec[p]
  \/ rec'[p].pc \notin RecWrites
  \/ /\ rec[p].pc = "read" /\ UNCHANGED <<mem, disk, wk, rpc, meddled>>
     /\ Pending(mem.journal) /\ ~Stuck(mem.journal) /\ mem.journal \in Journals
     /\ rec'[p].val = Phased(mem.journal, Verdict(mem.journal))
     /\ \/ Verdict(mem.journal) = "CANCELLED" /\ rec'[p].pc = "config" /\ rec'[p].stage = "check"
        \/ Verdict(mem.journal) = "COMMITTED" /\ rec'[p].pc = "publish" /\ rec'[p].stage = "write"
        \/ /\ Verdict(mem.journal) = "RECOVERY_REQUIRED"
           /\ rec'[p].pc = "error" /\ rec'[p].stage = "write"
  \/ /\ rec[p].pc \in Products /\ rec[p].stage = "check"
     /\ rec'[p].val = rec[p].val /\ UNCHANGED <<mem, disk, wk, rpc, meddled>>
     /\ \/ /\ rec[p].pc = "config" /\ rec'[p].pc = "policy" /\ rec'[p].stage = "check"
           /\ mem.config = rec[p].val.before.config
        \/ /\ rec[p].pc = "policy" /\ rec'[p].pc = "publish" /\ rec'[p].stage = "write"
           /\ mem.policy = rec[p].val.before.policy
        \/ /\ Foreign(rec[p].val, rec[p].pc) /\ rec'[p].pc = "error" /\ rec'[p].stage = "write"
        \/ rec'[p].pc = rec[p].pc /\ rec'[p].stage = "write"
  \/ /\ RecoveryWrites(p) /\ rec'[p].pc = rec[p].pc /\ rec'[p].val = rec[p].val
     /\ rec[p].stage = "write" /\ rec'[p].stage = "sync" /\ UNCHANGED <<wk, rpc, meddled>>
  \/ /\ rec[p].pc \in Products /\ rec[p].stage = "sync"
     /\ rec'[p].val = rec[p].val /\ mem' = mem /\ (\A f \in Files : disk'[f] = {mem[f]})
     /\ UNCHANGED <<wk, rpc, meddled>>
     /\ \/ /\ rec[p].pc = "config" /\ rec'[p].pc = "policy" /\ rec'[p].stage = "check"
           /\ mem.config = rec[p].val.before.config
        \/ /\ rec[p].pc = "policy" /\ rec'[p].pc = "publish" /\ rec'[p].stage = "write"
           /\ mem.policy = rec[p].val.before.policy
        \/ /\ mem[rec[p].pc] # rec[p].val.before[rec[p].pc]
           /\ rec'[p].pc = "error" /\ rec'[p].stage = "write"
  \/ /\ rec[p].pc \in RecWrites /\ rec'[p].pc = "error" /\ rec'[p].stage = "write"
     /\ rec'[p].val = rec[p].val /\ UNCHANGED <<mem, disk, wk, rpc>> /\ Fault /\ meddled'

LEMMA GoesOn ==
  ASSUME TypeInv, NEW p \in Recoverers, rec[p].pc \in Products, RecOn(p)
  PROVE  /\ rec'[p].val = rec[p].val
         /\ \/ rec[p].pc = "config" /\ rec'[p].pc = "policy" /\ rec'[p].stage = "check"
            \/ rec[p].pc = "policy" /\ rec'[p].pc = "publish" /\ rec'[p].stage = "write"
  BY RecGoesOn, RecTables DEF TypeInv, Products

LEMMA GoesTo ==
  ASSUME TypeInv, NEW p \in Recoverers, NEW pc \in RecWrites, rec[p].pc \in RecWrites,
         NEW stage \in {"check", "write", "sync"}, RecGoto(p, pc, stage)
  PROVE  rec'[p].pc = pc /\ rec'[p].stage = stage /\ rec'[p].val = rec[p].val
<1>1. RecOK
  BY DEF TypeInv
<1>2. pc \in RecPcs
  BY DEF RecPcs
<1> QED BY <1>1, <1>2, RecGoes

LEMMA RecoveryReads ==
  ASSUME TypeInv, NEW p \in Recoverers, RecRead(p)
  PROVE  RecStep(p)
<1> DEFINE v == mem.journal
           w == Phased(v, Verdict(v))
           to(pc, stage) == [pc |-> pc, val |-> w, stage |-> stage]
<1>1. rec[p].pc = "read" /\ UNCHANGED <<mem, disk, wk, rpc, meddled>>
  BY DEF RecRead
<1>2. CASE ~Pending(v) \/ Stuck(v)
  <2>1. rec'[p].pc \in {"ok", "fail"}
    <3>1. RecGoto(p, "ok", "check") \/ RecGoto(p, "fail", "check")
      BY <1>2 DEF RecRead
    <3> QED BY <3>1, RecGoes, RecTables DEF TypeInv, RecPcs
  <2> QED BY <2>1, RecTables DEF RecStep
<1>3. CASE Pending(v) /\ ~Stuck(v)
  <2>1. v \in Journals
    BY <1>3, FileTypes DEF TypeInv, Pending
  <2>2. w.phase = Verdict(v)
    BY <2>1, Verdicts, JournalTypes DEF Phased
  <2>3. \/ rec' = [rec EXCEPT ![p] = to("config", "check")] /\ w.phase = "CANCELLED"
        \/ rec' = [rec EXCEPT ![p] = to("publish", "write")] /\ w.phase = "COMMITTED"
        \/ /\ rec' = [rec EXCEPT ![p] = to("error", "write")]
           /\ w.phase \notin {"CANCELLED", "COMMITTED"}
    BY <1>3 DEF RecRead, Phased
  <2> HIDE DEF w
  <2>4. \/ rec'[p] = to("config", "check") /\ w.phase = "CANCELLED"
        \/ rec'[p] = to("publish", "write") /\ w.phase = "COMMITTED"
        \/ rec'[p] = to("error", "write") /\ w.phase \notin {"CANCELLED", "COMMITTED"}
    BY <2>3 DEF TypeInv, RecOK
  <2>5. /\ rec'[p].val = w
        /\ \/ rec'[p].pc = "config" /\ rec'[p].stage = "check" /\ w.phase = "CANCELLED"
           \/ rec'[p].pc = "publish" /\ rec'[p].stage = "write" /\ w.phase = "COMMITTED"
           \/ /\ rec'[p].pc = "error" /\ rec'[p].stage = "write"
              /\ w.phase \notin {"CANCELLED", "COMMITTED"}
    BY <2>4
  <2>6. Verdict(v) \in {"CANCELLED", "COMMITTED", "RECOVERY_REQUIRED"}
    BY <2>1, Verdicts
  <2> QED BY <1>1, <1>3, <2>1, <2>2, <2>5, <2>6 DEF RecStep, w
<1> QED BY <1>2, <1>3

LEMMA RecoveryWorks ==
  ASSUME TypeInv, HalfInv, NEW p \in Recoverers, Recovery(p)
  PROVE  RecStep(p)
<1>0. /\ rec[p].pc \in {"publish", "error"} => rec[p].stage \in {"write", "sync"}
      /\ RecWrites = {"config", "policy", "publish", "error"}
  BY RecTables DEF HalfInv, Decided
<1>1. CASE RecPeek(p) \/ RecEngine(p) \/ RecState(p)
  <2>1. \E pc \in {"ok", "engine", "state", "read", "fail"} : RecGoto(p, pc, "check")
    BY <1>1 DEF RecPeek, RecEngine, RecState
  <2>2. rec'[p].pc \in {"ok", "engine", "state", "read", "fail"}
    BY <2>1, RecGoes, RecTables DEF TypeInv, RecPcs
  <2> QED BY <2>2, RecTables DEF RecStep
<1>2. CASE RecRead(p)
  BY <1>2, RecoveryReads
<1>3. CASE RecCheck(p)
  <2>1. /\ rec[p].pc \in Products /\ rec[p].stage = "check" /\ rec[p].pc \in RecWrites
        /\ UNCHANGED <<mem, disk, wk, rpc, meddled>>
    BY <1>0, <1>3 DEF RecCheck, RecAt, Products
  <2>2. CASE mem[rec[p].pc] = rec[p].val.before[rec[p].pc]
    <3>1. RecOn(p)
      BY <1>3, <2>2 DEF RecCheck
    <3> QED BY <2>1, <2>2, <3>1, GoesOn DEF RecStep
  <2>3. CASE mem[rec[p].pc] # rec[p].val.before[rec[p].pc] /\ Foreign(rec[p].val, rec[p].pc)
    <3>1. RecGoto(p, "error", "write")
      BY <1>3, <2>3 DEF RecCheck
    <3> QED BY <1>0, <2>1, <2>3, <3>1, GoesTo DEF RecStep
  <2>4. CASE mem[rec[p].pc] # rec[p].val.before[rec[p].pc] /\ ~Foreign(rec[p].val, rec[p].pc)
    <3>1. RecGoto(p, rec[p].pc, "write")
      BY <1>3, <2>4 DEF RecCheck
    <3> QED BY <1>0, <2>1, <3>1, GoesTo DEF RecStep
  <2> QED BY <2>2, <2>3, <2>4
<1>4. CASE RecWrite(p)
  <2>1. rec[p].stage = "write" /\ UNCHANGED <<wk, rpc, meddled>>
    BY <1>4 DEF RecWrite, RecAt
  <2> QED BY <1>4, <2>1, RecoveryFiles, RecWriteTypes DEF RecStep
<1>5. CASE RecSync(p)
  <2>1. /\ rec[p].stage = "sync" /\ mem' = mem /\ rec[p].pc \in RecWrites
        /\ UNCHANGED <<wk, rpc, meddled>> /\ Sync
    BY <1>5, RecSyncs DEF RecSync, RecAt
  <2>2. \A f \in Files : disk'[f] = {mem[f]}
    BY <2>1, Syncing DEF TypeInv
  <2>3. CASE rec[p].pc \in {"publish", "error"}
    <3>1. rec'[p].pc \in {"ok", "fail"}
      BY <1>5, <2>3, RecSyncs DEF Products
    <3> QED BY <1>0, <3>1 DEF RecStep
  <2>4. CASE rec[p].pc \in Products /\ mem[rec[p].pc] # rec[p].val.before[rec[p].pc]
    <3>1. RecGoto(p, "error", "write")
      BY <1>5, <2>4 DEF RecSync
    <3> QED BY <1>0, <2>1, <2>2, <2>4, <3>1, GoesTo DEF RecStep
  <2>5. CASE rec[p].pc \in Products /\ mem[rec[p].pc] = rec[p].val.before[rec[p].pc]
    <3>1. RecOn(p)
      BY <1>5, <2>5 DEF RecSync
    <3> QED BY <2>1, <2>2, <2>5, <3>1, GoesOn DEF RecStep
  <2> QED BY <1>0, <2>1, <2>3, <2>4, <2>5 DEF Products
<1> QED BY <1>1, <1>2, <1>3, <1>4, <1>5 DEF Recovery

LEMMA RecoveryMoves ==
  ASSUME TypeInv, LaunchOK, HalfInv, NEW p \in Recoverers, [Next]_vars
  PROVE  RecStep(p)
<1>0. \A pc \in {"off", "peek", "engine", "state", "read", "ok", "fail"} : pc \notin RecWrites
  BY RecTables
<1>1. ASSUME NEW q \in Recoverers, Recovery(q) PROVE RecStep(p)
  <2>1. q = p => RecStep(p)
    BY <1>1, RecoveryWorks
  <2>2. q # p => rec'[p] = rec[p]
    BY <1>1, RecoveryDecides
  <2> QED BY <2>1, <2>2 DEF RecStep
<1>2. CASE Fault
  <2>1. ASSUME NEW q \in Recoverers, RecFault(q) PROVE RecStep(p)
    <3>1. q # p => rec'[p] = rec[p]
      BY <2>1, RecFaults
    <3>2. ASSUME q = p PROVE RecStep(p)
      <4>1. rec'[p].val = rec[p].val /\ rec[p].pc \in RecWrites
            /\ \/ rec'[p].pc = "fail"
               \/ rec'[p].pc = "error" /\ rec'[p].stage = "write"
        <5>1. RecFault(p)
          BY <2>1, <3>2
        <5> QED BY <5>1, RecFaults DEF RecFault
      <4>2. UNCHANGED <<mem, disk, wk, rpc>> /\ Fault /\ meddled'
        BY <1>2, <2>1 DEF RecFault, Fault
      <4> QED BY <1>0, <4>1, <4>2 DEF RecStep
    <3> QED BY <3>1, <3>2 DEF RecStep
  <2>2. ASSUME RpcFault PROVE RecStep(p)
    BY <1>0, <2>2, RpcFaults DEF RecStep
  <2>3. ASSUME NEW i \in Jobs, WorkFault(i) PROVE RecStep(p)
    BY <2>3 DEF WorkFault, RecStep
  <2> QED BY <1>2, <2>1, <2>2, <2>3 DEF Fault
<1>3. ASSUME NEW j \in Jobs, Worker(j) \/ WorkerDies(j) PROVE RecStep(p)
  <2>1. CASE WorkCatch(j)
    BY <1>0, <2>1, WorkCatchTypes DEF RecStep
  <2>2. CASE WorkRecovered(j)
    BY <1>0, <2>2, WorkRecoveredTypes DEF RecStep
  <2>3. CASE WorkAbort(j)
    BY <1>0, <2>3, WorkAbortTypes DEF RecStep
  <2>4. CASE WorkAborted(j)
    BY <1>0, <2>4, WorkAbortedTypes DEF RecStep
  <2>5. CASE WorkerDies(j)
    BY <1>0, <2>5, WorkerDiesTypes DEF RecStep
  <2>6. CASE \/ WorkContext(j) \/ WorkEngine(j) \/ WorkFirst(j) \/ WorkQuiesce(j)
             \/ WorkWrite(j) \/ WorkSync(j) \/ WorkResume(j)
    BY <2>6 DEF WorkContext, WorkEngine, WorkFirst, WorkQuiesce, WorkWrite, WorkSync, WorkResume,
       RecStep
  <2> QED BY <1>3, <2>1, <2>2, <2>3, <2>4, <2>5, <2>6 DEF Worker
<1>4. CASE InitScript
  <2>1. CASE InitStop
    BY <1>0, <2>1, InitStopTypes DEF RecStep
  <2>2. CASE InitBoot
    BY <1>0, <2>2, InitBootTypes DEF RecStep
  <2>3. CASE InitGate
    BY <1>0, <2>3, InitGateTypes DEF RecStep
  <2>4. CASE InitStart \/ InitDone
    BY <2>4 DEF InitStart, InitDone, RecStep
  <2> QED BY <1>4, <2>1, <2>2, <2>3, <2>4 DEF InitScript
<1>5. CASE RpcRecovered
  BY <1>0, <1>5, RpcRecoveredTypes DEF RecStep
<1>6. CASE RpcdDies
  BY <1>0, <1>6, RpcdDiesTypes DEF RecStep
<1>7. CASE PowerLoss
  <2>1. rec'[p].pc \in {"peek", "off"}
    BY <1>7, PowerLossTypes
  <2> QED BY <1>0, <2>1 DEF RecStep
<1>8. CASE \/ (Rpc /\ ~RpcRecovered) \/ TunnelEnds \/ Tick \/ Reload \/ Edit
           \/ (\E op \in Ops : RpcCall(op)) \/ UNCHANGED vars
  <2>1. rec' = rec
    BY <1>8 DEF Rpc, RpcLock, RpcIntent, RpcKeys, RpcWrite, RpcRestart, RpcQueue, RpcRefuse,
       RpcPrepare, RpcQueued, RpcLaunch, TunnelEnds, Tick, TickGuard, TickLock, TickWrite, TickDone,
       Reload,
       Edit, RpcCall, vars
  <2> QED BY <2>1 DEF RecStep
<1> QED
  BY <1>1, <1>2, <1>3, <1>4, <1>5, <1>6, <1>7, <1>8 DEF Next, System, Environment

CallStep ==
  \/ rpc' = rpc
  \/ rpc'.pc \notin Enqueued
  \/ /\ RpcQueue /\ rpc'.pc = "prepare" /\ engineLock = "free" /\ stateLock = "free"
     /\ mem'.journal = NoJournal /\ mem'.state = mem.state /\ mem'.policy = mem.policy
     /\ Still \/ Clears
     /\ \E j \in Jobs : ~Started(j) /\ rpc'.val = NewJournal(j) /\ rpc'.val.id = j
     /\ UNCHANGED <<wk, rec, meddled>>
  \/ /\ rpc.pc = "prepare" /\ rpc'.pc = "queued" /\ rpc'.val = rpc.val
     /\ mem.config = rpc.val.before.config /\ Writes("journal", rpc.val)
     /\ UNCHANGED <<wk, rec, meddled>>
  \/ /\ rpc.pc = "queued" /\ rpc'.pc = "launch" /\ rpc'.val = rpc.val
     /\ mem' = mem /\ (\A f \in Files : disk'[f] = {mem[f]})
     /\ UNCHANGED <<wk, rec, meddled>>

LEMMA CallMoves ==
  ASSUME TypeInv, LaunchOK, [Next]_vars
  PROVE  CallStep
<1>1. CASE RpcQueue
  <2>1. PICK j \in Jobs : ~Started(j) /\ rpc' = [rpc EXCEPT !.pc = "prepare", !.val = NewJournal(j)]
    BY <1>1 DEF RpcQueue
  <2>2. rpc'.pc = "prepare" /\ rpc'.val = NewJournal(j) /\ rpc'.val.id = j
    <3>1. rpc'.pc = "prepare" /\ rpc'.val = NewJournal(j)
      BY <2>1 DEF TypeInv, RpcOK
    <3> QED BY <3>1, NewJournals DEF TypeInv
  <2>3. Still \/ Clears
    <3>1. ~RpcWrite /\ ~RpcIntent /\ ~RpcKeys /\ ~RpcPrepare
      BY <1>1 DEF RpcQueue, RpcWrite, RpcIntent, RpcKeys, RpcPrepare, RpcAt
    <3> QED BY <1>1, <3>1, CallFiles DEF Still, CallWrites, Rpc
  <2>4. mem'.journal = NoJournal /\ mem'.state = mem.state /\ mem'.policy = mem.policy
    BY <1>1, <2>3, RpcQueueTypes DEF Still, Clears, Calm, Files
  <2> QED BY <1>1, <2>1, <2>2, <2>3, <2>4 DEF CallStep, RpcQueue
<1>2. CASE RpcPrepare
  <2>1. CASE mem.config = rpc.val.before.config
    <3>1. Put("journal", rpc.val) /\ RpcGoto("queued")
      BY <1>2, <2>1 DEF RpcPrepare
    <3>2. rpc'.pc = "queued" /\ rpc'.val = rpc.val
      BY <3>1 DEF RpcGoto, TypeInv, RpcOK
    <3> QED BY <1>2, <2>1, <3>1, <3>2, Putting DEF CallStep, RpcPrepare, RpcAt, Files, TypeInv
  <2>2. CASE mem.config # rpc.val.before.config
    BY <1>2, <2>2, RpcPlaces DEF RpcPrepare, CallStep, NoCall
  <2> QED BY <2>1, <2>2
<1>3. CASE RpcQueued
  BY <1>3, Syncing, RpcQueuedTypes DEF RpcQueued, RpcAt, CallStep, TypeInv
<1>4. CASE Rpc /\ ~RpcQueue /\ ~RpcPrepare /\ ~RpcQueued
  <2>1. rpc'.pc \notin Enqueued
    <3>1. CASE RpcLock
      BY <3>1, RpcLockTypes, RpcPlaces DEF NoCall
    <3>2. CASE RpcIntent \/ RpcWrite \/ RpcRestart \/ RpcRefuse \/ RpcLaunch \/ RpcRecovered
      BY <3>2, RpcIntentTypes, RpcWriteTypes, RpcRestartTypes, RpcRefuseTypes, RpcLaunchTypes,
         RpcRecoveredTypes, RpcPlaces
    <3>3. CASE RpcKeys
      BY <3>3, RpcPlaces DEF RpcKeys, NoCall
    <3> QED BY <1>4, <3>1, <3>2, <3>3 DEF Rpc
  <2> QED BY <2>1 DEF CallStep
<1>5. CASE RpcFault \/ RpcdDies \/ PowerLoss \/ InitScript \/ \E op \in Ops : RpcCall(op)
  <2>1. rpc' = rpc \/ rpc'.pc \notin Enqueued
    BY <1>5, RpcFaults, RpcdDiesTypes, PowerLossTypes, InitScriptTypes, RpcCallTypes, RpcPlaces
  <2> QED BY <2>1 DEF CallStep
<1>6. CASE \/ TunnelEnds \/ Tick \/ Reload \/ Edit \/ UNCHANGED vars
           \/ (\E j \in Jobs : Worker(j) \/ WorkerDies(j))
           \/ (\E p \in Recoverers : Recovery(p))
  <2>1. rpc' = rpc
    BY <1>6, WorkerTypes, RecoveryTypes DEF TunnelEnds, Tick, TickGuard, TickLock, TickWrite,
       TickDone, Reload,
       Edit, WorkerDies, vars
  <2> QED BY <2>1 DEF CallStep
<1>7. CASE Fault
  <2>1. RpcFault \/ rpc' = rpc
    BY <1>7 DEF Fault, RecFault, WorkFault
  <2> QED BY <1>5, <2>1 DEF CallStep
<1> QED
  BY <1>1, <1>2, <1>3, <1>4, <1>5, <1>6, <1>7 DEF Next, System, Environment

Ground == TypeInv /\ LaunchOK /\ LockInv /\ HalfInv
Step ==
  /\ FileStep /\ CallStep
  /\ \A j \in Jobs : JobStep(j)
  /\ \A p \in Recoverers : RecStep(p)
  /\ meddled => meddled'

LEMMA Moves ==
  ASSUME Ground, [Next]_vars
  PROVE  Step /\ Ground'
<1>1. Ground'
  BY LaunchStep, LockStep, HalfStep DEF Ground
<1>2. meddled => meddled'
  BY DEF Next, System, Environment, Rpc, RpcLock, RpcIntent, RpcKeys, RpcWrite, RpcRestart,
     RpcQueue, RpcRefuse, RpcPrepare, RpcQueued, RpcLaunch, RpcRecovered, InitScript, InitStop,
     InitBoot, InitGate, InitStart, InitDone, TunnelEnds, Tick, TickGuard, TickLock, TickWrite,
     TickDone,
     Worker, WorkContext, WorkEngine, WorkFirst, WorkQuiesce, WorkWrite, WorkSync, WorkCatch,
     WorkRecovered, WorkResume, WorkAbort, WorkAborted, Recovery, RecPeek, RecEngine, RecState,
     RecRead, RecCheck, RecWrite, RecSync, RpcCall, Reload, Edit, Fault, RpcdDies, PowerLoss,
     WorkerDies, vars
<1>3. Step
  BY <1>2, FileMoves, CallMoves, JobMoves, RecoveryMoves DEF Ground, Step
<1> QED BY <1>1, <1>3

-----------------------------------------------------------------------------
(* The job in the journal, and what everybody knows of it                    *)

(* One job in two of its phases.                                             *)
Same(v, w) ==
  /\ v.id = w.id /\ v.owner = w.owner /\ v.keys = w.keys /\ v.intent = w.intent
  /\ v.before = w.before /\ v.after = w.after

(* What prepare_job() makes: the next revision, with the document's contents *)
(* where there were others.                                                  *)
Planned(v) ==
  /\ v.after.state.rev = v.before.state.rev + 1
  /\ v.after.state.body = [doc |-> v.id, edits |-> 0, cut |-> FALSE]
  /\ v.after.state.active = Docs[v.id].active
  /\ v.after.config = Docs[v.id].panel /\ v.after.policy = v.id
  /\ v.before.state.body.doc # v.id /\ v.before.policy # v.id

Known(d) == d \in Jobs => Started(d)

NewestState == \A s \in disk.state : s = mem.state \/ s.rev < mem.state.rev
JobOnFlash ==
  \A v \in disk.journal : v # NoJournal =>
    mem.journal # NoJournal /\ Same(v, mem.journal) /\ Planned(v)
KnownFiles ==
  /\ \A s \in disk.state : Known(s.body.doc)
  /\ \A p \in disk.policy : Known(p)
  /\ \A v \in disk.journal : v # NoJournal =>
       Known(v.before.state.body.doc) /\ Known(v.before.policy)
(* Once state.json has the document's contents, it is as new as the restore. *)
Later ==
  mem.journal # NoJournal =>
    \A s \in disk.state : s.body.doc = mem.journal.id =>
      s.rev >= mem.journal.after.state.rev /\ mem.state.body.doc = mem.journal.id
JobVal(j) ==
  wk[j].pc \in Early \cup Section =>
    mem.journal # NoJournal /\ Same(mem.journal, wk[j].val) /\ wk[j].val.id = j
RecVal(p) ==
  rec[p].pc \in RecWrites => mem.journal # NoJournal /\ Same(mem.journal, rec[p].val)
RpcVal ==
  /\ rpc.pc \in Enqueued => Planned(rpc.val)
  /\ rpc.pc = "prepare" => mem.journal = NoJournal
  /\ rpc.pc = "queued" => mem.journal = rpc.val
  /\ rpc.pc = "launch" => mem.journal # NoJournal /\ Same(mem.journal, rpc.val)
  /\ rpc.pc \in {"prepare", "queued"} =>
       rpc.val.before.state = mem.state /\ rpc.val.before.policy = mem.policy
(* From the recheck of the second locked section on nothing it checked moves. *)
Current(j) ==
  \/ wk[j].pc = "state" /\ ~wk[j].syncing
  \/ wk[j].pc = "mark" /\ wk[j].syncing
  => Fresh(wk[j].val)

JobInv ==
  /\ NewestState /\ JobOnFlash /\ KnownFiles /\ Later /\ RpcVal
  /\ \A j \in Jobs : JobVal(j) /\ Current(j)
  /\ \A p \in Recoverers : RecVal(p)

LEMMA Phasing ==
  ASSUME NEW v \in Journals, NEW ph
  PROVE  /\ Same(Phased(v, ph), v) /\ Same(v, Phased(v, ph)) /\ Phased(v, ph).phase = ph
         /\ \A w : Same(w, v) => Same(w, Phased(v, ph)) /\ Same(Phased(v, ph), w)
  BY DEF Journals, Phased, Same

LEMMA SamePlans ==
  /\ \A v, w : Same(v, w) => Same(w, v) /\ (Planned(v) => Planned(w))
  /\ \A u, v, w : Same(u, v) /\ Same(v, w) => Same(u, w)
  /\ \A v : Same(v, v)
<1>1. ASSUME NEW v, NEW w, Same(v, w) PROVE Same(w, v)
  BY <1>1 DEF Same
<1>2. ASSUME NEW v, NEW w, Same(v, w), Planned(v) PROVE Planned(w)
  <2>1. v.id = w.id /\ v.before = w.before /\ v.after = w.after
    BY <1>2 DEF Same
  <2> QED BY <1>2, <2>1 DEF Planned
<1>3. ASSUME NEW u, NEW v, NEW w, Same(u, v), Same(v, w) PROVE Same(u, w)
  BY <1>3 DEF Same
<1>4. ASSUME NEW v PROVE Same(v, v)
  BY DEF Same
<1> QED BY <1>1, <1>2, <1>3, <1>4

LEMMA OnFlash ==
  ASSUME FilesOK
  PROVE  /\ mem.state \in disk.state /\ mem.config \in disk.config
         /\ mem.policy \in disk.policy /\ mem.journal \in disk.journal
         /\ \A s \in disk.state : s \in States
         /\ \A v \in disk.journal : v # NoJournal => v \in Journals
  BY Kinds DEF FilesOK, Files, AnyJournal

LEMMA StillKnown ==
  ASSUME Step, NEW d, Known(d)
  PROVE  Known(d)'
<1>1. SUFFICES ASSUME d \in Jobs, wk[d].pc # "off" PROVE wk'[d].pc # "off"
  BY DEF Known, Started
<1>2. JobStep(d)
  BY <1>1 DEF Step
<1> QED
  BY <1>1, <1>2 DEF JobStep, Ending, JobWrites, Section

(* What a call makes of state.json is newer, of the same document, and never *)
(* what a restore would write.                                               *)
LEMMA CallsGoOn ==
  ASSUME TypeInv, RpcWrite, NEW s \in NewStates(mem.state), s # mem.state
  PROVE  /\ s.rev = mem.state.rev + 1 /\ s.body.doc = mem.state.body.doc
         /\ \/ s.body = mem.state.body \/ s.body.cut
            \/ s.body.edits = mem.state.body.edits + 1
         /\ rpc.op = "stop" => s.body = mem.state.body /\ ~s.active
<1>1. mem.state \in States /\ rpc.op \in {"stop", "revoke", "product"}
  BY FileTypes DEF TypeInv, RpcOK, RpcWrite, RpcAt
<1>2. mem.state.body \in Bodies
  BY <1>1 DEF States
<1>3. CASE rpc.op = "stop"
  <2>1. s = IF mem.state.active THEN [mem.state EXCEPT !.active = FALSE, !.rev = mem.state.rev + 1]
                                ELSE mem.state
    BY <1>3 DEF NewStates
  <2> QED BY <1>1, <1>3, <2>1 DEF States
<1>4. CASE rpc.op = "revoke"
  <2>1. s = [mem.state EXCEPT !.body.cut = TRUE, !.rev = mem.state.rev + 1]
    BY <1>4 DEF NewStates
  <2> QED BY <1>1, <1>2, <1>4, <2>1 DEF States, Bodies
<1>5. CASE rpc.op = "product"
  <2>1. \/ s = [mem.state EXCEPT !.active = TRUE, !.rev = mem.state.rev + 1]
        \/ s = [mem.state EXCEPT !.body.edits = mem.state.body.edits + 1, !.rev = mem.state.rev + 1]
    BY <1>5 DEF NewStates
  <2>2. CASE s = [mem.state EXCEPT !.active = TRUE, !.rev = mem.state.rev + 1]
    BY <1>1, <1>5, <2>2 DEF States
  <2>3. CASE s = [mem.state EXCEPT !.body.edits = mem.state.body.edits + 1,
                                   !.rev = mem.state.rev + 1]
    <3>1. s.rev = mem.state.rev + 1 /\ s.body = [mem.state.body EXCEPT !.edits = mem.state.body.edits + 1]
      BY <1>1, <2>3 DEF States
    <3>2. s.body.edits = mem.state.body.edits + 1 /\ s.body.doc = mem.state.body.doc
      BY <1>2, <3>1 DEF Bodies
    <3> QED BY <1>5, <3>1, <3>2
  <2> QED BY <2>1, <2>2, <2>3
<1> QED BY <1>1, <1>3, <1>4, <1>5

(* The journal's owner works alone.                                          *)
LEMMA NobodyElse ==
  ASSUME LockInv, NEW j \in Jobs, wk[j].pc \in Early \cup Section
  PROVE  /\ engineLock = j /\ engineLock # "free" /\ engineLock # "rpc" /\ engineLock # "tick"
         /\ \A i \in Jobs : i # j => wk[i].pc \notin Early \cup Section
         /\ \A p \in Recoverers : rec[p].pc \notin Deciding
         /\ rpc.pc \notin {"prepare", "queued"}
<1>1. engineLock = j
  BY EarlyWorks, Places DEF LockInv, WorkHolds
<1>2. j # "free" /\ j # "rpc" /\ j # "tick"
  BY NoName
<1>3. \A i \in Jobs : i # j => wk[i].pc \notin Early \cup Section
  BY <1>1, EarlyWorks, Places DEF LockInv, WorkHolds
<1>4. rec[j].pc = "off"
  <2>1. wk[j].pc \notin {"recovering", "aborting"}
    BY EarlyWorks, Places
  <2> QED BY <2>1, NoRecovery
<1>5. \A p \in Recoverers : rec[p].pc \notin Deciding
  BY <1>1, <1>4, Places DEF LockInv, RecHolds
<1>6. rpc.pc \notin {"prepare", "queued"}
  BY <1>1, <1>2 DEF LockInv, RpcLocks
<1> QED BY <1>1, <1>2, <1>3, <1>5, <1>6

(* The journal stays, changes its phase, goes, is a new job's, or is whatever *)
(* the flash has of it.                                                      *)
JournalStep ==
  \/ Calm("journal")
  \/ /\ mem.journal # NoJournal /\ mem'.journal \in Journals
     /\ Same(mem.journal, mem'.journal)
     /\ disk'.journal = disk.journal \union {mem'.journal}
     /\ \A f \in Files : f # "journal" => mem'[f] = mem[f] /\ disk'[f] = disk[f]
     /\ rpc.pc \notin {"prepare", "queued"}
  \/ Clears
  \/ /\ rpc.pc = "prepare" /\ rpc'.pc = "queued"
     /\ mem.journal = NoJournal /\ disk.journal \subseteq {NoJournal}
     /\ mem.config = rpc.val.before.config /\ mem.policy = rpc.val.before.policy
     /\ rpc.val \in Journals /\ mem'.journal = rpc.val
     /\ disk'.journal = disk.journal \union {rpc.val}
     /\ \A f \in Files : f # "journal" => mem'[f] = mem[f] /\ disk'[f] = disk[f]
  \/ Loses

LEMMA JournalMoves ==
  ASSUME Ground, JobInv, Step
  PROVE  JournalStep
<1>1. ASSUME NEW j \in Jobs, JobWrites(j) PROVE JournalStep
  <2>1. CASE wk[j].pc \in {"apply", "mark", "commit"}
    <3>1. Writes("journal", Phased(wk[j].val, Marks[wk[j].pc]))
      BY <1>1, <2>1 DEF JobWrites
    <3>2. wk[j].val \in Journals /\ mem.journal # NoJournal /\ Same(mem.journal, wk[j].val)
      BY <2>1, WorkPlaces DEF Ground, TypeInv, WkOK, JobInv, JobVal, Section
    <3>3. Marks[wk[j].pc] \in Phases
      BY <2>1, WorkTables DEF Phases
    <3>4. Phased(wk[j].val, Marks[wk[j].pc]) \in Journals
      BY <3>2, <3>3, JournalTypes DEF Phased
    <3>5. Same(mem.journal, Phased(wk[j].val, Marks[wk[j].pc]))
      BY <3>2, Phasing
    <3>6. rpc.pc \notin {"prepare", "queued"}
      BY <1>1, NobodyElse DEF Ground, JobWrites
    <3> QED BY <3>1, <3>2, <3>4, <3>5, <3>6 DEF JournalStep, Writes
  <2>2. CASE wk[j].pc \in {"config", "policy", "state"}
    BY <1>1, <2>2 DEF JobWrites, Writes, JournalStep, Calm, Files
  <2> QED BY <1>1, <2>1, <2>2 DEF JobWrites, Section
<1>2. ASSUME NEW p \in Recoverers, RecoveryWrites(p) PROVE JournalStep
  <2>1. CASE rec[p].pc \in Products
    BY <1>2, <2>1 DEF RecoveryWrites, Writes, JournalStep, Calm, Files, Products
  <2>2. CASE rec[p].pc \in {"publish", "error"}
    <3>1. /\ rec[p].val \in Journals /\ mem.journal # NoJournal
          /\ Same(mem.journal, rec[p].val)
      BY <1>2 DEF RecoveryWrites, Ground, TypeInv, RecOK, JobInv, RecVal
    <3>2. PICK w \in {rec[p].val, Phased(rec[p].val, "RECOVERY_REQUIRED")} : Writes("journal", w)
      BY <1>2, <2>2 DEF RecoveryWrites
    <3>3. w \in Journals
      BY <3>1, JournalTypes DEF Phased, Phases
    <3>4. Same(mem.journal, w)
      BY <3>1, Phasing
    <3>5. rpc.pc \notin {"prepare", "queued"}
      BY <1>2, RecovererAlone, Places DEF Ground, RecoveryWrites
    <3> QED BY <3>1, <3>2, <3>3, <3>4, <3>5 DEF JournalStep, Writes
  <2> QED BY <1>2, <2>1, <2>2, RecTables DEF RecoveryWrites, Products
<1>3. CASE CallWrites
  <2>1. CASE RpcPrepare /\ rpc'.pc = "queued" /\ Writes("journal", rpc.val)
    <3>1. rpc.pc = "prepare" /\ mem.journal = NoJournal /\ rpc.val \in Journals
      BY <2>1 DEF RpcPrepare, RpcAt, JobInv, RpcVal, Ground, TypeInv, RpcOK, Enqueued
    <3>2. disk.journal \subseteq {NoJournal}
      BY <3>1 DEF JobInv, JobOnFlash
    <3>3. mem.config = rpc.val.before.config /\ mem.policy = rpc.val.before.policy
      BY <2>1, <3>1 DEF Step, CallStep, Enqueued, JobInv, RpcVal
    <3> QED BY <2>1, <3>1, <3>2, <3>3 DEF JournalStep, Writes
  <2>2. CASE ~(RpcPrepare /\ rpc'.pc = "queued" /\ Writes("journal", rpc.val))
    BY <1>3, <2>2 DEF CallWrites, Writes, JournalStep, Calm, Files
  <2> QED BY <2>1, <2>2
<1>4. CASE Still \/ Clears \/ Loses
  BY <1>4 DEF Still, Clears, Files, JournalStep
<1>5. CASE (TickWrite /\ Writes("policy", Ticks)) \/ (Edit /\ Writes("config", "edited"))
  BY <1>5 DEF Writes, JournalStep, Calm, Files
<1> QED BY <1>1, <1>2, <1>3, <1>4, <1>5 DEF Step, FileStep

(* So does state.json; only a worker's commit and rpcd make a new one.       *)
StateStep ==
  \/ Calm("state")
  \/ \E j \in Jobs :
       /\ JobWrites(j) /\ wk[j].pc = "state" /\ ~wk[j].syncing
       /\ wk[j].val \in Journals /\ wk[j].val.id = j /\ Planned(wk[j].val)
       /\ mem.journal # NoJournal /\ Same(mem.journal, wk[j].val) /\ Fresh(wk[j].val)
       /\ Writes("state", wk[j].val.after.state)
  \/ /\ RpcWrite
     /\ \E s \in NewStates(mem.state) : s # mem.state /\ Writes("state", s)
  \/ Loses

LEMMA StateMoves ==
  ASSUME Ground, JobInv, Step
  PROVE  StateStep
<1>1. ASSUME NEW j \in Jobs, JobWrites(j) PROVE StateStep
  <2>1. CASE wk[j].pc = "state"
    <3>1. ~wk[j].syncing
      BY <1>1 DEF JobWrites, WorkWrite
    <3>2. /\ wk[j].val \in Journals /\ wk[j].val.id = j /\ Fresh(wk[j].val)
          /\ mem.journal # NoJournal /\ Same(mem.journal, wk[j].val)
      BY <2>1, <3>1, WorkPlaces DEF Ground, TypeInv, WkOK, JobInv, JobVal, Section, Current
    <3>3. mem.journal \in disk.journal
      BY OnFlash DEF Ground, TypeInv
    <3>4. Planned(wk[j].val)
      BY <3>2, <3>3, SamePlans DEF JobInv, JobOnFlash
    <3> QED BY <1>1, <2>1, <3>1, <3>2, <3>4 DEF JobWrites, StateStep
  <2>2. CASE wk[j].pc # "state"
    BY <1>1, <2>2 DEF JobWrites, Section, Writes, StateStep, Calm, Files
  <2> QED BY <2>1, <2>2
<1>2. ASSUME NEW p \in Recoverers, RecoveryWrites(p) PROVE StateStep
  <2>1. rec[p].pc \in {"config", "policy", "publish", "error"}
    BY <1>2, RecTables DEF RecoveryWrites
  <2> QED BY <1>2, <2>1 DEF RecoveryWrites, Writes, StateStep, Calm, Files, Products
<1>3. CASE CallWrites
  BY <1>3 DEF CallWrites, Writes, StateStep, Calm, Files
<1>4. CASE Still \/ Clears \/ Loses
  BY <1>4 DEF Still, Clears, Files, StateStep
<1>5. CASE (TickWrite /\ Writes("policy", Ticks)) \/ (Edit /\ Writes("config", "edited"))
  BY <1>5 DEF Writes, StateStep, Calm, Files
<1> QED BY <1>1, <1>2, <1>3, <1>4, <1>5 DEF Step, FileStep

LEMMA NewestStep ==
  ASSUME Ground, JobInv, Step
  PROVE  NewestState'
<1>0. NewestState /\ FilesOK /\ mem.state \in States /\ \A s \in disk.state : s \in States
  BY FileTypes, OnFlash DEF JobInv, Ground, TypeInv
<1>1. CASE Calm("state")
  BY <1>0, <1>1 DEF Calm, NewestState
<1>2. ASSUME NEW j \in Jobs, Writes("state", wk[j].val.after.state), Planned(wk[j].val),
             Fresh(wk[j].val)
      PROVE  NewestState'
  <2>1. wk[j].val.after.state.rev = mem.state.rev + 1
    BY <1>2 DEF Planned, Fresh
  <2> QED BY <1>0, <1>2, <2>1 DEF Writes, NewestState, States, Revs
<1>3. ASSUME RpcWrite, NEW s \in NewStates(mem.state), s # mem.state, Writes("state", s)
      PROVE  NewestState'
  <2>1. s.rev = mem.state.rev + 1
    BY <1>3, CallsGoOn DEF Ground
  <2> QED BY <1>0, <1>3, <2>1 DEF Writes, NewestState, States, Revs
<1>4. CASE Loses
  BY <1>4 DEF Loses, NewestState, Files
<1> QED BY <1>1, <1>2, <1>3, <1>4, StateMoves DEF StateStep

LEMMA JobOnFlashStep ==
  ASSUME Ground, JobInv, Step
  PROVE  JobOnFlash'
<1>0. JobOnFlash /\ mem.journal \in disk.journal
  BY OnFlash DEF JobInv, Ground, TypeInv
<1>1. CASE Calm("journal")
  BY <1>0, <1>1 DEF Calm, JobOnFlash
<1>2. CASE /\ mem.journal # NoJournal /\ mem'.journal \in Journals
           /\ Same(mem.journal, mem'.journal)
           /\ disk'.journal = disk.journal \union {mem'.journal}
  <2>1. mem'.journal # NoJournal
    BY <1>2, AbsentAssumption
  <2>2. Planned(mem.journal)
    BY <1>0, <1>2 DEF JobOnFlash
  <2>3. ASSUME NEW v \in disk.journal, v # NoJournal
        PROVE  Same(v, mem'.journal) /\ Planned(v)
    BY <1>0, <1>2, <2>3, SamePlans DEF JobOnFlash
  <2>4. Same(mem'.journal, mem'.journal) /\ Planned(mem'.journal)
    BY <1>2, <2>2, SamePlans
  <2> QED BY <1>2, <2>1, <2>3, <2>4 DEF JobOnFlash
<1>3. CASE mem'.journal = NoJournal /\ disk'.journal = {NoJournal}
  BY <1>3 DEF JobOnFlash
<1>4. CASE /\ rpc.pc = "prepare" /\ disk.journal \subseteq {NoJournal}
           /\ rpc.val \in Journals /\ mem'.journal = rpc.val
           /\ disk'.journal = disk.journal \union {rpc.val}
  <2>1. Planned(rpc.val) /\ rpc.val # NoJournal
    BY <1>4, AbsentAssumption DEF JobInv, RpcVal, Enqueued
  <2> QED BY <1>4, <2>1, SamePlans DEF JobOnFlash
<1>5. CASE Loses
  <2>1. mem'.journal \in disk.journal /\ disk'.journal = {mem'.journal}
    BY <1>5 DEF Loses, Files
  <2> QED BY <1>0, <2>1, SamePlans DEF JobOnFlash
<1> QED BY <1>1, <1>2, <1>3, <1>4, <1>5, JournalMoves DEF JournalStep, Clears

LEMMA PolicyMoves ==
  ASSUME Ground, Step
  PROVE  \/ Calm("policy") \/ Loses
         \/ \E j \in Jobs : /\ JobWrites(j) /\ wk[j].pc = "policy"
                            /\ Writes("policy", wk[j].val.after.policy)
         \/ \E p \in Recoverers : /\ RecoveryWrites(p) /\ rec[p].pc = "policy"
                                  /\ Writes("policy", rec[p].val.before.policy)
         \/ TickWrite /\ Writes("policy", Ticks)
<1>1. ASSUME NEW j \in Jobs, JobWrites(j), wk[j].pc # "policy" PROVE Calm("policy")
  BY <1>1 DEF JobWrites, Section, Writes, Calm, Files
<1>2. ASSUME NEW j \in Jobs, JobWrites(j), wk[j].pc = "policy"
      PROVE  Writes("policy", wk[j].val.after.policy)
  BY <1>2 DEF JobWrites
<1>3. ASSUME NEW p \in Recoverers, RecoveryWrites(p), rec[p].pc # "policy" PROVE Calm("policy")
  <2>1. rec[p].pc \in {"config", "policy", "publish", "error"}
    BY <1>3, RecTables DEF RecoveryWrites
  <2> QED BY <1>3, <2>1 DEF RecoveryWrites, Writes, Calm, Files, Products
<1>4. ASSUME NEW p \in Recoverers, RecoveryWrites(p), rec[p].pc = "policy"
      PROVE  Writes("policy", rec[p].val.before.policy)
  BY <1>4 DEF RecoveryWrites, Products
<1>5. CASE CallWrites
  BY <1>5 DEF CallWrites, Writes, Calm, Files
<1>6. CASE Still \/ Clears \/ Loses \/ (Edit /\ Writes("config", "edited"))
  BY <1>6 DEF Still, Clears, Writes, Calm, Files
<1> QED BY <1>1, <1>2, <1>3, <1>4, <1>5, <1>6 DEF Step, FileStep

LEMMA KnownStep ==
  ASSUME Ground, JobInv, Step
  PROVE  KnownFiles'
<1>0. /\ KnownFiles /\ \A d : Known(d) => Known(d)'
      /\ mem.state \in disk.state /\ mem.policy \in disk.policy /\ mem.journal \in disk.journal
  BY StillKnown, OnFlash DEF JobInv, Ground, TypeInv
<1>a. ASSUME NEW j \in Jobs, JobWrites(j) PROVE Known(j)'
  <2>1. wk'[j].pc # "off"
    BY <1>a DEF JobWrites, Section
  <2> QED BY <2>1 DEF Known, Started
<1>1. \A s \in disk'.state : Known(s.body.doc)'
  <2>1. CASE Calm("state") \/ Loses
    BY <1>0, <2>1 DEF Calm, Loses, KnownFiles, Files
  <2>2. ASSUME NEW j \in Jobs, JobWrites(j), Writes("state", wk[j].val.after.state),
               Planned(wk[j].val), wk[j].val.id = j
        PROVE  \A s \in disk'.state : Known(s.body.doc)'
    <3>1. wk[j].val.after.state.body.doc = j
      BY <2>2 DEF Planned
    <3>2. \A s \in disk'.state : s \in disk.state \/ s.body.doc = j
      BY <2>2, <3>1 DEF Writes
    <3> QED BY <1>0, <1>a, <2>2, <3>2 DEF KnownFiles
  <2>3. ASSUME RpcWrite, NEW s \in NewStates(mem.state), s # mem.state, Writes("state", s)
        PROVE  \A t \in disk'.state : Known(t.body.doc)'
    <3>1. s.body.doc = mem.state.body.doc
      BY <2>3, CallsGoOn DEF Ground
    <3>2. \A t \in disk'.state : t \in disk.state \/ t.body.doc = mem.state.body.doc
      BY <2>3, <3>1 DEF Writes
    <3> QED BY <1>0, <3>2 DEF KnownFiles
  <2> QED BY <2>1, <2>2, <2>3, StateMoves DEF StateStep
<1>b. ASSUME NEW v, mem.journal # NoJournal, Same(mem.journal, v)
      PROVE  Known(v.before.state.body.doc)' /\ Known(v.before.policy)'
  BY <1>0, <1>b DEF KnownFiles, Same
<1>2. \A p \in disk'.policy : Known(p)'
  <2>1. CASE Calm("policy") \/ Loses
    BY <1>0, <2>1 DEF Calm, Loses, KnownFiles, Files
  <2>2. ASSUME NEW j \in Jobs, JobWrites(j), wk[j].pc = "policy",
               Writes("policy", wk[j].val.after.policy)
        PROVE  \A p \in disk'.policy : Known(p)'
    <3>1. mem.journal # NoJournal /\ Same(mem.journal, wk[j].val) /\ wk[j].val.id = j
      BY <2>2 DEF JobInv, JobVal, Section
    <3>2. Planned(mem.journal)
      BY <1>0, <3>1 DEF JobInv, JobOnFlash
    <3>3. wk[j].val.after.policy = j
      BY <3>1, <3>2 DEF Same, Planned
    <3>4. \A p \in disk'.policy : p \in disk.policy \/ p = j
      BY <2>2, <3>3 DEF Writes
    <3> QED BY <1>0, <1>a, <2>2, <3>4 DEF KnownFiles
  <2>3. ASSUME NEW p \in Recoverers, RecoveryWrites(p), Writes("policy", rec[p].val.before.policy)
        PROVE  \A q \in disk'.policy : Known(q)'
    <3>1. mem.journal # NoJournal /\ Same(mem.journal, rec[p].val)
      BY <2>3 DEF RecoveryWrites, JobInv, RecVal
    <3>2. PICK v : v = rec[p].val
      OBVIOUS
    <3>3. Known(v.before.policy)'
      BY <1>b, <3>1, <3>2
    <3>4. \A q \in disk'.policy : q \in disk.policy \/ q = v.before.policy
      BY <2>3, <3>2 DEF Writes
    <3> QED BY <1>0, <3>3, <3>4 DEF KnownFiles
  <2>4. CASE TickWrite /\ Writes("policy", Ticks)
    <3>1. Ticks \notin Jobs
      BY BackupAssumption DEF Ground, TypeInv, BudgetOK, Spent, Ticks
    <3>2. \A q \in disk'.policy : q \in disk.policy \/ q \notin Jobs
      BY <2>4, <3>1 DEF Writes
    <3> QED BY <1>0, <3>2 DEF KnownFiles, Known
  <2> QED BY <2>1, <2>2, <2>3, <2>4, PolicyMoves
<1>3. \A v \in disk'.journal : v # NoJournal =>
        Known(v.before.state.body.doc)' /\ Known(v.before.policy)'
  <2>1. CASE Calm("journal") \/ Loses
    BY <1>0, <2>1 DEF Calm, Loses, KnownFiles, Files
  <2>2. CASE /\ mem.journal # NoJournal /\ Same(mem.journal, mem'.journal)
             /\ disk'.journal = disk.journal \union {mem'.journal}
    BY <1>0, <1>b, <2>2 DEF KnownFiles
  <2>3. CASE disk'.journal = {NoJournal}
    BY <2>3
  <2>4. CASE rpc.pc = "prepare" /\ disk'.journal = disk.journal \union {rpc.val}
    <3>1. rpc.val.before.state = mem.state /\ rpc.val.before.policy = mem.policy
      BY <2>4 DEF JobInv, RpcVal
    <3>2. Known(rpc.val.before.state.body.doc) /\ Known(rpc.val.before.policy)
      BY <1>0, <3>1 DEF KnownFiles
    <3> QED BY <1>0, <2>4, <3>2 DEF KnownFiles
  <2> QED BY <2>1, <2>2, <2>3, <2>4, JournalMoves DEF JournalStep, Clears
<1> QED BY <1>1, <1>2, <1>3 DEF KnownFiles

LEMMA LaterStep ==
  ASSUME Ground, JobInv, Step
  PROVE  Later'
<1>0. /\ Later /\ mem.state \in States /\ mem.state \in disk.state
      /\ mem.journal \in disk.journal
      /\ mem.journal # NoJournal => mem.journal.after.state \in States
  BY FileTypes, OnFlash, JournalTypes DEF JobInv, Ground, TypeInv
<1>1. CASE Loses
  <2>1. SUFFICES ASSUME mem'.journal # NoJournal, mem'.state.body.doc = mem'.journal.id
                 PROVE  mem'.state.rev >= mem'.journal.after.state.rev
    BY <1>1 DEF Loses, Later, Files
  <2>2. mem'.state \in disk.state /\ mem'.journal \in disk.journal
    BY <1>1 DEF Loses, Files
  <2>3. mem.journal # NoJournal /\ Same(mem'.journal, mem.journal)
    BY <2>1, <2>2 DEF JobInv, JobOnFlash
  <2> QED BY <1>0, <2>1, <2>2, <2>3 DEF Later, Same
<1>2. CASE Calm("journal") /\ ~Loses
  <2>1. SUFFICES ASSUME mem.journal # NoJournal PROVE Later'
    BY <1>2 DEF Calm, Later
  <2>2. CASE Calm("state")
    BY <1>0, <1>2, <2>2 DEF Calm, Later
  <2>3. ASSUME NEW j \in Jobs, Same(mem.journal, wk[j].val), Planned(wk[j].val),
               Writes("state", wk[j].val.after.state)
        PROVE  Later'
    <3>1. /\ mem'.state = mem.journal.after.state
          /\ disk'.state = disk.state \union {mem.journal.after.state}
          /\ mem.journal.after.state.body.doc = mem.journal.id
      <4>1. wk[j].val.after.state = mem.journal.after.state /\ wk[j].val.id = mem.journal.id
        BY <2>3 DEF Same
      <4>2. mem'.state = wk[j].val.after.state
            /\ disk'.state = disk.state \union {wk[j].val.after.state}
        BY <2>3 DEF Writes
      <4>3. wk[j].val.after.state.body.doc = wk[j].val.id
        BY <2>3 DEF Planned
      <4> QED BY <4>1, <4>2, <4>3
    <3>2. mem'.journal # NoJournal /\ mem'.journal = mem.journal
      BY <1>2, <2>1 DEF Calm
    <3>3. mem.journal.after.state.rev \in Nat
      BY <1>0, <2>1 DEF States, Revs
    <3>4. ASSUME NEW s \in disk'.state, s.body.doc = mem.journal.id
          PROVE  s.rev >= mem.journal.after.state.rev
      <4>1. CASE s \in disk.state
        BY <1>0, <2>1, <3>4, <4>1 DEF Later
      <4>2. CASE s = mem.journal.after.state
        BY <3>3, <4>2
      <4> QED BY <3>1, <4>1, <4>2
    <3> QED BY <3>1, <3>2, <3>4 DEF Later
  <2>4. ASSUME RpcWrite, NEW s \in NewStates(mem.state), s # mem.state, Writes("state", s)
        PROVE  Later'
    <3>1. s.rev = mem.state.rev + 1 /\ s.body.doc = mem.state.body.doc
      BY <2>4, CallsGoOn DEF Ground
    <3>2. mem'.state = s /\ disk'.state = disk.state \union {s}
      BY <2>4 DEF Writes
    <3> QED BY <1>0, <1>2, <2>1, <3>1, <3>2 DEF Calm, Later, States, Revs
  <2> QED BY <1>2, <2>2, <2>3, <2>4, StateMoves DEF StateStep
<1>3. CASE /\ mem.journal # NoJournal /\ Same(mem.journal, mem'.journal)
           /\ mem'.state = mem.state /\ disk'.state = disk.state
  BY <1>0, <1>3 DEF Later, Same
<1>4. CASE mem'.journal = NoJournal
  BY <1>4 DEF Later
<1>5. CASE /\ rpc.pc = "prepare" /\ rpc.val \in Journals /\ mem'.journal = rpc.val
           /\ disk'.state = disk.state
  <2>1. rpc.val.id \in Jobs /\ ~Started(rpc.val.id)
    BY <1>5, JournalTypes DEF Ground, LaunchOK, Enqueued, Started
  <2>2. \A s \in disk.state : s.body.doc # rpc.val.id
    BY <2>1 DEF JobInv, KnownFiles, Known
  <2> QED BY <1>5, <2>2 DEF Later
<1> QED BY <1>1, <1>2, <1>3, <1>4, <1>5, JournalMoves DEF JournalStep, Clears, Files

LEMMA JobValStep ==
  ASSUME Ground, JobInv, Step, NEW j \in Jobs
  PROVE  JobVal(j)'
<1>1. SUFFICES ASSUME wk'[j].pc \in Early \cup Section
               PROVE  /\ mem'.journal # NoJournal /\ Same(mem'.journal, wk'[j].val)
                      /\ wk'[j].val.id = j
  BY DEF JobVal
<1>2. /\ \A pc \in Ending : pc \notin Early \cup Section
      /\ \A pc \in {"off", "context", "engine", "first"} : pc \notin Early \cup Section
      /\ "quiesce" \in Early /\ "quiescing" \in Early /\ "apply" \in Early
  BY EarlyWorks DEF Ending, Section
<1>3. JobVal(j) /\ JobStep(j)
  BY DEF JobInv, Step
<1>4. CASE wk[j].pc \in Early \cup Section
  <2>1. mem.journal # NoJournal /\ Same(mem.journal, wk[j].val) /\ wk[j].val.id = j
    BY <1>3, <1>4 DEF JobVal
  <2>2. wk'[j].val = wk[j].val
    BY <1>1, <1>2, <1>3, <1>4 DEF JobStep
  <2>3. engineLock # "free" /\ rpc.pc # "prepare"
    BY <1>4, NobodyElse DEF Ground
  <2>4. CASE Loses
    <3>1. wk'[j].pc \in {"off", "gone"}
      BY <2>4, PowerLossTypes DEF Loses, Ground
    <3> QED BY <1>1, <1>2, <3>1 DEF Ending
  <2>5. ~Loses => mem'.journal # NoJournal /\ Same(mem.journal, mem'.journal)
    <3>0. SUFFICES ASSUME ~Loses PROVE mem'.journal # NoJournal /\ Same(mem.journal, mem'.journal)
      OBVIOUS
    <3>1. ~RpcQueue
      BY <2>3 DEF RpcQueue
    <3>2. \/ mem'.journal = mem.journal
          \/ mem'.journal \in Journals /\ Same(mem.journal, mem'.journal)
      BY <2>3, <3>0, <3>1, JournalMoves DEF JournalStep, Clears, Calm
    <3>3. Same(mem.journal, mem.journal)
      BY SamePlans
    <3> QED BY <2>1, <3>2, <3>3, AbsentAssumption
  <2> QED BY <2>1, <2>2, <2>4, <2>5, SamePlans
<1>5. CASE wk[j].pc \notin Early \cup Section
  <2>1. mem' = mem /\ mem.journal \in Journals /\ mem.journal.id = j /\ wk'[j].val = mem.journal
    BY <1>1, <1>2, <1>3, <1>5 DEF JobStep, JobWrites, Section
  <2> QED BY <2>1, SamePlans, AbsentAssumption
<1> QED BY <1>4, <1>5

LEMMA RecValStep ==
  ASSUME Ground, JobInv, Step, NEW p \in Recoverers
  PROVE  RecVal(p)'
<1>1. SUFFICES ASSUME rec'[p].pc \in RecWrites
               PROVE  mem'.journal # NoJournal /\ Same(mem'.journal, rec'[p].val)
  BY DEF RecVal
<1>2. RecVal(p) /\ RecStep(p)
  BY DEF JobInv, Step
<1>3. CASE rec[p].pc \in RecWrites
  <2>1. mem.journal # NoJournal /\ Same(mem.journal, rec[p].val)
    BY <1>2, <1>3 DEF RecVal
  <2>2. rec'[p].val = rec[p].val
    BY <1>1, <1>2, <1>3, RecTables DEF RecStep
  <2>3. rpc.pc \notin {"prepare", "queued"} /\ engineLock = p
    BY <1>3, RecovererAlone, Places DEF Ground, LockInv, RecHolds
  <2>4. ~Loses
    <3>1. ASSUME Loses PROVE FALSE
      <4>1. rec'[p].pc \in {"peek", "off"}
        BY <3>1, PowerLossTypes DEF Loses, Ground
      <4> QED BY <1>1, <4>1, RecTables
    <3> QED BY <3>1
  <2>5. ~RpcQueue
    BY <2>3, BackupAssumption DEF RpcQueue, Recoverers
  <2>6. \/ mem'.journal = mem.journal
        \/ mem'.journal \in Journals /\ Same(mem.journal, mem'.journal)
    BY <2>3, <2>4, <2>5, JournalMoves DEF JournalStep, Clears, Calm
  <2>7. Same(mem.journal, mem.journal)
    BY SamePlans
  <2> QED BY <2>1, <2>2, <2>6, <2>7, SamePlans, AbsentAssumption
<1>4. CASE rec[p].pc \notin RecWrites
  <2>1. /\ mem' = mem /\ mem.journal \in Journals
        /\ rec'[p].val = Phased(mem.journal, Verdict(mem.journal))
    BY <1>1, <1>2, <1>4, RecTables DEF RecStep, Products, RecoveryWrites
  <2> QED BY <2>1, Phasing, AbsentAssumption
<1> QED BY <1>3, <1>4

LEMMA CurrentStep ==
  ASSUME Ground, JobInv, Step, NEW j \in Jobs
  PROVE  Current(j)'
<1>1. SUFFICES ASSUME \/ wk'[j].pc = "state" /\ ~wk'[j].syncing
                      \/ wk'[j].pc = "mark" /\ wk'[j].syncing
               PROVE  /\ mem'.keys.owner = wk'[j].val.owner
                      /\ mem'.intent = wk'[j].val.intent /\ mem'.keys = wk'[j].val.keys
                      /\ mem'.state = wk'[j].val.before.state
  BY DEF Current, Fresh
<1>2. Current(j) /\ JobStep(j)
  BY DEF JobInv, Step
<1>3. CASE wk'[j] = wk[j]
  <2>1. Fresh(wk[j].val) /\ wk[j].pc \in Section
    BY <1>1, <1>2, <1>3 DEF Current, Section
  <2>2. stateLock = j /\ j # "rpc"
    BY <1>1, <1>3, NoName DEF Ground, LockInv, WorkHolds
  <2>3. ~RpcIntent /\ ~RpcKeys /\ ~RpcWrite
    BY <2>2 DEF Ground, LockInv, RpcLocks, RpcIntent, RpcKeys, RpcWrite, RpcAt
  <2>4. ASSUME NEW i \in Jobs, JobWrites(i) PROVE FALSE
    <3>1. i = j
      BY <2>1, <2>4, NobodyElse DEF Ground, JobWrites
    <3>2. wk'[j].syncing /\ ~wk[j].syncing
      BY <2>4, <3>1, WorkWrites DEF JobWrites, WorkWrite, Ground, Section
    <3> QED BY <1>3, <3>2
  <2>5. ASSUME NEW p \in Recoverers, RecoveryWrites(p) PROVE FALSE
    BY <2>1, <2>5, NobodyElse, Places DEF Ground, RecoveryWrites
  <2>6. ~Loses
    <3>1. ASSUME Loses PROVE FALSE
      BY <1>1, <3>1, PowerLossTypes DEF Loses, Ground
    <3> QED BY <3>1
  <2>7. mem'.keys = mem.keys /\ mem'.intent = mem.intent /\ mem'.state = mem.state
    BY <2>3, <2>4, <2>5, <2>6 DEF Step, FileStep, CallWrites, Still, Clears, Calm, Writes, Files
  <2> QED BY <1>3, <2>1, <2>7 DEF Fresh
<1>4. CASE JobWrites(j) /\ wk'[j].val = wk[j].val /\ wk'[j].syncing
  <2>1. wk[j].pc = "mark"
    BY <1>1, <1>4 DEF JobWrites
  <2>2. Fresh(wk[j].val)
    BY <1>4, <2>1 DEF JobWrites, Cleared
  <2>3. mem'.keys = mem.keys /\ mem'.intent = mem.intent /\ mem'.state = mem.state
    BY <1>4, <2>1 DEF JobWrites, Writes, Files
  <2> QED BY <1>4, <2>2, <2>3 DEF Fresh
<1>5. CASE wk[j].pc = "mark" /\ wk[j].syncing /\ wk'[j].val = wk[j].val /\ mem' = mem
  BY <1>2, <1>5 DEF Current, Fresh
<1> QED BY <1>1, <1>2, <1>3, <1>4, <1>5 DEF JobStep, Ending

LEMMA RpcValStep ==
  ASSUME Ground, JobInv, Step
  PROVE  RpcVal'
<1>0. RpcVal /\ CallStep
  BY DEF JobInv, Step
<1>1. CASE rpc' = rpc /\ rpc.pc \in Enqueued
  <2>1. ~Loses /\ ~RpcQueue
    <3>1. Loses => rpc'.pc = "recover"
      BY PowerLossTypes DEF Loses, Ground
    <3> QED BY <1>1, <3>1 DEF Enqueued, RpcQueue, RpcAt
  <2>2. \/ Calm("journal")
        \/ /\ rpc.pc = "launch" /\ mem.journal # NoJournal /\ mem'.journal \in Journals
           /\ Same(mem.journal, mem'.journal)
    BY <1>1, <2>1, JournalMoves DEF JournalStep, Clears, Enqueued
  <2>3. ASSUME rpc.pc \in {"prepare", "queued"}
        PROVE  mem'.state = mem.state /\ mem'.policy = mem.policy
    <3>1. stateLock = "rpc" /\ engineLock = "rpc" /\ "rpc" \notin Jobs
      BY <2>3, NoName DEF Ground, LockInv, RpcLocks
    <3>2. ASSUME NEW j \in Jobs, JobWrites(j) PROVE FALSE
      BY <2>3, <3>2, NobodyElse DEF Ground, JobWrites
    <3>3. ASSUME NEW p \in Recoverers, RecoveryWrites(p) PROVE FALSE
      BY <2>3, <3>3, RecovererAlone, Places DEF Ground, RecoveryWrites
    <3>4. ~TickWrite /\ ~RpcWrite
      BY <2>3, <3>1 DEF TickWrite, Ground, LockInv, TickLocks, RpcWrite, RpcAt
    <3> QED BY <2>1, <3>2, <3>3, <3>4, StateMoves, PolicyMoves DEF StateStep, Calm
  <2>4. rpc.pc = "launch" => mem'.journal # NoJournal /\ Same(mem'.journal, rpc.val)
    BY <1>0, <2>2, SamePlans, AbsentAssumption DEF RpcVal, Calm
  <2> QED BY <1>0, <1>1, <2>2, <2>3, <2>4 DEF RpcVal, Calm
<1>2. CASE rpc'.pc \notin Enqueued
  BY <1>2 DEF RpcVal, Enqueued
<1>3. CASE /\ rpc'.pc = "prepare" /\ mem'.journal = NoJournal /\ mem'.state = mem.state
           /\ mem'.policy = mem.policy
           /\ \E j \in Jobs : ~Started(j) /\ rpc'.val = NewJournal(j)
  <2>1. PICK j \in Jobs : ~Started(j) /\ rpc'.val = NewJournal(j)
    BY <1>3
  <2>2. mem.state.body.doc # j /\ mem.policy # j
    BY <2>1, OnFlash DEF JobInv, KnownFiles, Known, Ground, TypeInv
  <2>3. Planned(NewJournal(j))
    BY <2>2 DEF Planned, NewJournal
  <2>4. NewJournal(j).before.state = mem.state /\ NewJournal(j).before.policy = mem.policy
    BY DEF NewJournal
  <2> QED BY <1>3, <2>1, <2>3, <2>4 DEF RpcVal
<1>4. CASE rpc.pc = "prepare" /\ rpc'.pc = "queued" /\ rpc'.val = rpc.val /\ Writes("journal", rpc.val)
  BY <1>0, <1>4 DEF RpcVal, Writes, Files, Enqueued
<1>5. CASE rpc.pc = "queued" /\ rpc'.pc = "launch" /\ rpc'.val = rpc.val /\ mem' = mem
  <2>1. rpc.val \in Journals
    BY <1>5 DEF Ground, TypeInv, RpcOK, Enqueued
  <2> QED BY <1>0, <1>5, <2>1, SamePlans, AbsentAssumption DEF RpcVal, Enqueued
<1> QED BY <1>0, <1>1, <1>2, <1>3, <1>4, <1>5 DEF CallStep

LEMMA InitJob ==
  ASSUME Init
  PROVE  JobInv
<1>1. /\ mem.state.body.doc = "own" /\ mem.policy = 0 /\ mem.journal = NoJournal
      /\ disk.state = {mem.state} /\ disk.policy = {mem.policy} /\ disk.journal = {NoJournal}
  <2>1. mem.state.body.doc = "own" /\ mem.policy = 0 /\ mem.journal = NoJournal
    BY DEF Init
  <2>2. \A f \in Files : disk[f] = {mem[f]}
    BY DEF Init
  <2> QED BY <2>1, <2>2 DEF Files
<1>2. /\ rpc.pc = "idle" /\ \A j \in Jobs : wk[j].pc = "off" /\ ~wk[j].syncing
      /\ \A p \in Recoverers : rec[p].pc = "off"
  BY DEF Init, NoCall, NoWorker, NotRecovering
<1>3. "own" \notin Jobs /\ 0 \notin Jobs
  BY BackupAssumption
<1>4. NewestState /\ JobOnFlash /\ KnownFiles /\ Later
  BY <1>1, <1>3 DEF NewestState, JobOnFlash, KnownFiles, Known, Later
<1>5. RpcVal
  BY <1>2 DEF RpcVal, Enqueued
<1>6. \A j \in Jobs : JobVal(j) /\ Current(j)
  BY <1>2, EarlyWorks DEF JobVal, Current, Section
<1>7. \A p \in Recoverers : RecVal(p)
  BY <1>2, RecTables DEF RecVal
<1> QED BY <1>4, <1>5, <1>6, <1>7 DEF JobInv

LEMMA InitGround ==
  ASSUME Init
  PROVE  Ground /\ JobInv
  BY InitTypes, InitLocks, InitHalf, InitJob DEF Ground

LEMMA JobInvStep ==
  ASSUME Ground, JobInv, [Next]_vars
  PROVE  Ground' /\ JobInv' /\ Step
<1>1. Step /\ Ground'
  BY Moves
<1>2. JobInv'
  BY <1>1, NewestStep, JobOnFlashStep, KnownStep, LaterStep, RpcValStep, JobValStep, CurrentStep,
     RecValStep DEF JobInv
<1> QED BY <1>1, <1>2

(* Only the worker's own write makes state.json what the restore wants: a    *)
(* call's edits are newer than that, and a power loss brings back older ones. *)
LEMMA CommitStep ==
  ASSUME Ground, JobInv, Step, Commits
  PROVE  UpToDate
<1>1. CASE Calm("state")
  BY <1>1 DEF Calm, Commits
<1>2. ASSUME NEW j \in Jobs, Same(mem.journal, wk[j].val), Fresh(wk[j].val),
             Writes("state", wk[j].val.after.state)
      PROVE  UpToDate
  BY <1>2 DEF Writes, Files, Fresh, Same, UpToDate
<1>3. ASSUME RpcWrite, NEW s \in NewStates(mem.state), s # mem.state, Writes("state", s)
      PROVE  FALSE
  <2>1. mem'.journal = mem.journal /\ mem'.state = s /\ mem.journal \in disk.journal
        /\ mem.state \in disk.state
    BY <1>3, OnFlash DEF Writes, Files, Ground, TypeInv
  <2>2. mem.journal # NoJournal /\ s = mem.journal.after.state /\ Planned(mem.journal)
    BY <2>1 DEF Commits, JobInv, JobOnFlash
  <2>3. s.rev = mem.state.rev + 1 /\ mem.state.body.doc = mem.journal.id
    BY <1>3, <2>2, CallsGoOn DEF Ground, Planned
  <2>4. mem.state.rev >= s.rev
    BY <2>1, <2>2, <2>3 DEF JobInv, Later
  <2>5. mem.state.rev \in Nat
    BY FileTypes DEF Ground, TypeInv, States, Revs
  <2> QED BY <2>3, <2>4, <2>5
<1>4. CASE Loses
  <2>1. mem'.state \in disk.state /\ mem'.state \in States /\ mem.state \in States
    BY <1>4, OnFlash DEF Loses, Files, Ground, TypeInv
  <2>2. mem'.state.rev < mem.state.rev /\ mem'.state.rev >= mem.state.rev
    BY <2>1 DEF Commits, JobInv, NewestState
  <2>3. mem'.state.rev \in Nat /\ mem.state.rev \in Nat
    BY <2>1 DEF States, Revs
  <2> QED BY <2>2, <2>3
<1> QED BY <1>1, <1>2, <1>3, <1>4, StateMoves DEF StateStep

(* CommitIsCurrent: run_backup()'s two locked sections.  Whatever rpcd served *)
(* in between, the step that replaces state.json finds the credentials, the  *)
(* Stop intent and the revision of the moment the job was queued, and no     *)
(* other step, call or recovery ever writes what the restore would.          *)
THEOREM CommitsAreCurrent == Spec => CommitIsCurrent
<1>1. Init => Ground /\ JobInv
  BY InitGround
<1>2. Ground /\ JobInv /\ [Next]_vars => (Ground /\ JobInv)'
  BY JobInvStep
<1>3. Ground /\ JobInv /\ [Next]_vars => [Commits => UpToDate]_mem
  BY JobInvStep, CommitStep
<1> QED
  BY <1>1, <1>2, <1>3, PTL DEF Spec, CommitIsCurrent

-----------------------------------------------------------------------------
(* Nobody writes beside a worker or a recovery                               *)

LEMMA WorkerWorks ==
  ASSUME Ground, JobInv, Step, NEW j \in Jobs,
         wk[j].pc \in Early \cup Section, wk'[j].pc \in Early \cup Section
  PROVE  /\ ~Loses
         /\ \/ JobWrites(j)
            \/ /\ Calm("journal") /\ Calm("policy")
               /\ Calm("config") \/ Edit
               /\ Calm("state") \/ RpcWrite
<1>1. ~Loses
  <2>1. ASSUME Loses PROVE FALSE
    <3>1. wk'[j].pc \in {"off", "gone"}
      BY <2>1, PowerLossTypes DEF Loses, Ground
    <3> QED BY <3>1, EarlyWorks DEF Section
  <2> QED BY <2>1
<1>2. /\ engineLock = j /\ engineLock # "free" /\ engineLock # "tick"
      /\ rpc.pc \notin {"prepare", "queued"}
      /\ \A p \in Recoverers : rec[p].pc \notin Deciding
      /\ \A i \in Jobs : i # j => wk[i].pc \notin Early \cup Section
  BY NobodyElse DEF Ground
<1>3. /\ ~RpcQueue /\ ~RpcPrepare /\ ~TickWrite
      /\ \A p \in Recoverers : ~RecoveryWrites(p)
      /\ \A i \in Jobs : i # j => ~JobWrites(i)
  BY <1>2, Places DEF RpcQueue, RpcPrepare, RpcAt, TickWrite, Ground, LockInv, TickLocks,
     RecoveryWrites, JobWrites
<1>4. CASE CallWrites
  BY <1>1, <1>3, <1>4 DEF CallWrites, Writes, Calm, Files
<1>5. CASE Still \/ (Edit /\ Writes("config", "edited"))
  BY <1>1, <1>5 DEF Still, Calm, Writes, Files
<1> QED BY <1>1, <1>3, <1>4, <1>5 DEF Step, FileStep, Clears

LEMMA RecovererWorks ==
  ASSUME Ground, JobInv, Step, NEW p \in Recoverers,
         rec[p].pc \in RecWrites, rec'[p].pc \in RecWrites
  PROVE  /\ ~Loses /\ Calm("state")
         /\ \/ RecoveryWrites(p)
            \/ Calm("journal") /\ Calm("policy") /\ (Calm("config") \/ Edit)
         /\ \A j \in Jobs : wk[j].pc \notin Early \cup Section
<1>1. ~Loses
  <2>1. ASSUME Loses PROVE FALSE
    <3>1. rec'[p].pc \in {"peek", "off"}
      BY <2>1, PowerLossTypes DEF Loses, Ground
    <3> QED BY <3>1, RecTables
  <2> QED BY <2>1
<1>2. /\ engineLock = p /\ p # "free" /\ p # "tick" /\ rec[p].pc \in Deciding
      /\ \A q \in Recoverers : q # p => rec[q].pc \notin Deciding
      /\ rpc.pc \notin {"prepare", "queued", "intent", "keys", "write"}
  BY RecovererAlone, Places, BackupAssumption DEF Ground, LockInv, RecHolds, Recoverers
<1>3. \A j \in Jobs : wk[j].pc \notin Early \cup Section
  BY <1>2, NobodyElse DEF Ground
<1>4. /\ ~RpcQueue /\ ~RpcPrepare /\ ~TickWrite /\ ~RpcIntent /\ ~RpcKeys /\ ~RpcWrite
      /\ \A q \in Recoverers : q # p => ~RecoveryWrites(q)
      /\ \A j \in Jobs : ~JobWrites(j)
  BY <1>2, <1>3, Places DEF RpcQueue, RpcPrepare, RpcIntent, RpcKeys, RpcWrite, RpcAt, TickWrite,
     Ground, LockInv, TickLocks, RecoveryWrites, JobWrites
<1>5. CASE RecoveryWrites(p)
  <2>1. rec[p].pc \in {"config", "policy", "publish", "error"}
    BY RecTables
  <2>2. Calm("state")
    BY <1>5, <2>1 DEF RecoveryWrites, Writes, Calm, Files, Products
  <2> QED BY <1>1, <1>3, <1>5, <2>2
<1>6. CASE Still \/ (Edit /\ Writes("config", "edited"))
  BY <1>1, <1>3, <1>6 DEF Still, Calm, Writes, Files
<1> QED BY <1>1, <1>4, <1>5, <1>6 DEF Step, FileStep, Clears, CallWrites

-----------------------------------------------------------------------------
(* What the phases on the flash say about state.json                         *)

(* Every state on the flash is what the restore found, or newer.             *)
Grown(v) ==
  \A s \in disk.state : /\ s.rev >= v.before.state.rev
                        /\ s.rev = v.before.state.rev => s = v.before.state
Young(j) ==
  \/ wk[j].pc \in {"context", "engine", "first", "quiesce", "quiescing", "apply", "config",
                   "policy"}
  \/ wk[j].pc = "mark" /\ ~wk[j].syncing
  \/ rpc.pc = "launch" /\ rpc.val.id = j

(* Before the mark the document is in no state on the flash, and after a     *)
(* cancellation in none either.                                              *)
NotYet ==
  \A v \in disk.journal :
    v # NoJournal /\ v.phase \in {"PREPARED", "APPLYING", "CANCELLED"} =>
      \A s \in disk.state : s.body.doc # v.id
(* Until its worker's mark a job has no mark on the flash.                   *)
Unmarked(j) ==
  Young(j) /\ mem.journal # NoJournal /\ mem.journal.id = j =>
    /\ Grown(mem.journal)
    /\ \A v \in disk.journal : v = NoJournal \/ v.phase \notin {"STATE_COMMITTING", "COMMITTED"}
(* From the mark on the journal on the flash is the mark.                    *)
Marked(j) ==
  /\ wk[j].pc = "mark" /\ wk[j].syncing => mem.journal.phase = "STATE_COMMITTING"
  /\ wk[j].pc = "state" \/ (wk[j].pc = "commit" /\ ~wk[j].syncing) =>
       disk.journal = {mem.journal} /\ mem.journal.phase = "STATE_COMMITTING"
(* A recovery puts files back only of a job it cancels, whose document is in *)
(* no state, and confirms only what was marked.                              *)
Justified(p) ==
  /\ rec[p].pc \in Products => rec[p].val.phase = "CANCELLED"
  /\ rec[p].pc \in {"config", "policy", "publish"} /\ rec[p].val.phase = "CANCELLED" =>
       mem.state.body.doc # rec[p].val.id
  /\ rec[p].pc = "publish" /\ rec[p].stage = "write" /\ rec[p].val.phase = "COMMITTED" =>
       mem.journal.phase = "STATE_COMMITTING"
  /\ rec[p].pc \in Products \/ (rec[p].pc = "publish" /\ rec[p].stage = "write") =>
       Pending(mem.journal)

PhaseInv ==
  /\ NotYet
  /\ \A j \in Jobs : Unmarked(j) /\ Marked(j)
  /\ \A p \in Recoverers : Justified(p)

(* A worker that clears its section finds nothing newer on the flash than    *)
(* what the job was made from.                                               *)
LEMMA Untouched ==
  ASSUME Ground, JobInv, PhaseInv, NEW j \in Jobs, Fresh(wk[j].val),
         wk[j].pc = "apply" \/ (wk[j].pc = "mark" /\ ~wk[j].syncing)
  PROVE  /\ \A s \in disk.state : s = wk[j].val.before.state /\ s.body.doc # wk[j].val.id
         /\ \A v \in disk.journal : v = NoJournal \/ v.phase # "STATE_COMMITTING"
         /\ Planned(wk[j].val)
<1>1. mem.journal # NoJournal /\ Same(mem.journal, wk[j].val) /\ wk[j].val.id = j
  BY Places DEF JobInv, JobVal
<1>2. Planned(wk[j].val)
  BY <1>1, OnFlash, SamePlans DEF JobInv, JobOnFlash, Ground, TypeInv
<1>3. /\ Grown(mem.journal)
      /\ \A v \in disk.journal : v = NoJournal \/ v.phase # "STATE_COMMITTING"
  BY <1>1 DEF PhaseInv, Unmarked, Young, Same
<1>4. mem.state = wk[j].val.before.state /\ mem.journal.before = wk[j].val.before
  BY <1>1 DEF Fresh, Same
<1>5. mem.state \in States /\ \A s \in disk.state : s \in States
  BY OnFlash, FileTypes DEF Ground, TypeInv
<1>6. ASSUME NEW s \in disk.state PROVE s = wk[j].val.before.state
  <2>1. s = mem.state \/ s.rev < mem.state.rev
    BY DEF JobInv, NewestState
  <2>2. s.rev >= mem.state.rev
    BY <1>3, <1>4 DEF Grown
  <2>3. s.rev \in Nat /\ mem.state.rev \in Nat
    BY <1>5 DEF States, Revs
  <2> QED BY <1>4, <2>1, <2>2, <2>3
<1> QED BY <1>2, <1>3, <1>6 DEF Planned

OnlyJournal ==
  /\ disk'.state = disk.state /\ mem'.state = mem.state
  /\ disk'.config = disk.config /\ mem'.config = mem.config
  /\ disk'.policy = disk.policy /\ mem'.policy = mem.policy

(* Which phases are written, and when.                                       *)
LEMMA PhaseMoves ==
  ASSUME Ground, JobInv, PhaseInv, Step
  PROVE  \/ Calm("journal") \/ Loses \/ Clears
         \/ \E j \in Jobs :
              /\ JobWrites(j) /\ wk[j].val \in Journals /\ wk[j].val.id = j
              /\ mem.journal # NoJournal /\ Same(mem.journal, wk[j].val)
              /\ OnlyJournal
              /\ \/ wk[j].pc = "apply" /\ Writes("journal", Phased(wk[j].val, "APPLYING"))
                 \/ wk[j].pc = "mark" /\ Writes("journal", Phased(wk[j].val, "STATE_COMMITTING"))
                 \/ wk[j].pc = "commit" /\ Writes("journal", Phased(wk[j].val, "COMMITTED"))
         \/ \E p \in Recoverers :
              /\ RecoveryWrites(p) /\ rec[p].val \in Journals
              /\ mem.journal # NoJournal /\ Same(mem.journal, rec[p].val)
              /\ OnlyJournal
              /\ \/ /\ rec[p].pc = "publish" /\ rec[p].val.phase \in {"CANCELLED", "COMMITTED"}
                    /\ Writes("journal", rec[p].val)
                 \/ /\ rec[p].pc = "error"
                    /\ Writes("journal", Phased(rec[p].val, "RECOVERY_REQUIRED"))
         \/ /\ rpc.pc = "prepare" /\ rpc'.pc = "queued" /\ rpc'.val = rpc.val
            /\ rpc.val \in Journals /\ rpc.val.phase = "PREPARED" /\ Planned(rpc.val)
            /\ mem.config = rpc.val.before.config /\ mem.policy = rpc.val.before.policy
            /\ mem.state = rpc.val.before.state
            /\ wk[rpc.val.id].pc = "off" /\ mem.journal = NoJournal
            /\ disk.journal \subseteq {NoJournal}
            /\ Writes("journal", rpc.val)
            /\ OnlyJournal
<1>1. ASSUME NEW j \in Jobs, JobWrites(j), wk[j].pc \in {"apply", "mark", "commit"}
      PROVE  /\ wk[j].val \in Journals /\ wk[j].val.id = j
             /\ mem.journal # NoJournal /\ Same(mem.journal, wk[j].val)
             /\ OnlyJournal
             /\ Writes("journal", Phased(wk[j].val, Marks[wk[j].pc]))
  BY <1>1, WorkPlaces DEF JobWrites, Ground, TypeInv, WkOK, JobInv, JobVal, Section, Writes, Files, OnlyJournal
<1>2. ASSUME NEW j \in Jobs, JobWrites(j), wk[j].pc \notin {"apply", "mark", "commit"}
      PROVE  Calm("journal")
  BY <1>2 DEF JobWrites, Section, Writes, Calm, Files
<1>3. ASSUME NEW p \in Recoverers, RecoveryWrites(p), rec[p].pc \notin Products
      PROVE  /\ rec[p].val \in Journals
             /\ mem.journal # NoJournal /\ Same(mem.journal, rec[p].val)
             /\ OnlyJournal
             /\ \/ /\ rec[p].pc = "publish" /\ rec[p].val.phase \in {"CANCELLED", "COMMITTED"}
                   /\ Writes("journal", rec[p].val)
                \/ /\ rec[p].pc = "error"
                   /\ Writes("journal", Phased(rec[p].val, "RECOVERY_REQUIRED"))
  <2>1. rec[p].pc \in {"publish", "error"}
    BY <1>3, RecTables DEF RecoveryWrites, Products
  <2>2. /\ rec[p].val \in Journals
        /\ mem.journal # NoJournal /\ Same(mem.journal, rec[p].val)
    BY <1>3 DEF RecoveryWrites, Ground, TypeInv, RecOK, JobInv, RecVal
  <2>3. \/ /\ rec[p].pc = "publish" /\ rec[p].val.phase \in {"CANCELLED", "COMMITTED"}
           /\ Writes("journal", rec[p].val)
        \/ /\ rec[p].pc = "error"
           /\ Writes("journal", Phased(rec[p].val, "RECOVERY_REQUIRED"))
    BY <1>3, <2>1 DEF RecoveryWrites, Ground, HalfInv, Decided
  <2> QED BY <2>2, <2>3 DEF Writes, Files, OnlyJournal
<1>4. ASSUME NEW p \in Recoverers, RecoveryWrites(p), rec[p].pc \in Products
      PROVE  Calm("journal")
  BY <1>4 DEF RecoveryWrites, Writes, Calm, Files, Products
<1>5. ASSUME RpcPrepare, rpc'.pc = "queued", Writes("journal", rpc.val)
      PROVE  /\ rpc.pc = "prepare" /\ rpc'.val = rpc.val
             /\ rpc.val \in Journals /\ rpc.val.phase = "PREPARED" /\ Planned(rpc.val)
             /\ mem.config = rpc.val.before.config /\ mem.policy = rpc.val.before.policy
             /\ mem.state = rpc.val.before.state
             /\ wk[rpc.val.id].pc = "off" /\ mem.journal = NoJournal
             /\ disk.journal \subseteq {NoJournal}
             /\ OnlyJournal
  <2>1. rpc.pc = "prepare"
    BY <1>5 DEF RpcPrepare, RpcAt
  <2>2. /\ rpc.val \in Journals /\ rpc.val.phase = "PREPARED" /\ Planned(rpc.val)
        /\ mem.policy = rpc.val.before.policy /\ mem.state = rpc.val.before.state
        /\ wk[rpc.val.id].pc = "off" /\ mem.journal = NoJournal
    BY <2>1 DEF Ground, TypeInv, RpcOK, LaunchOK, HalfInv, Queueing, JobInv, RpcVal, Enqueued
  <2>3. rpc'.val = rpc.val /\ mem.config = rpc.val.before.config
    BY <1>5, <2>1 DEF Step, CallStep, Enqueued
  <2>4. disk.journal \subseteq {NoJournal}
    BY <2>2 DEF JobInv, JobOnFlash
  <2> QED BY <1>5, <2>1, <2>2, <2>3, <2>4 DEF Writes, Files, OnlyJournal
<1>6. CASE CallWrites /\ ~(RpcPrepare /\ rpc'.pc = "queued" /\ Writes("journal", rpc.val))
  BY <1>6 DEF CallWrites, Writes, Calm, Files
<1>7. CASE Still \/ (TickWrite /\ Writes("policy", Ticks)) \/ (Edit /\ Writes("config", "edited"))
  BY <1>7 DEF Still, Writes, Calm, Files
<1>8. Marks.apply = "APPLYING" /\ Marks.mark = "STATE_COMMITTING" /\ Marks.commit = "COMMITTED"
  BY WorkTables
<1>9. ASSUME NEW j \in Jobs, JobWrites(j), wk[j].pc \in {"apply", "mark", "commit"}
      PROVE  \/ wk[j].pc = "apply" /\ Writes("journal", Phased(wk[j].val, "APPLYING"))
             \/ wk[j].pc = "mark" /\ Writes("journal", Phased(wk[j].val, "STATE_COMMITTING"))
             \/ wk[j].pc = "commit" /\ Writes("journal", Phased(wk[j].val, "COMMITTED"))
  BY <1>1, <1>8, <1>9
<1> QED
  BY <1>1, <1>2, <1>3, <1>4, <1>5, <1>6, <1>7, <1>9 DEF Step, FileStep, CallWrites

LEMMA NotYetStep ==
  ASSUME Ground, JobInv, PhaseInv, Step
  PROVE  NotYet'
<1>0. /\ NotYet /\ mem.state \in disk.state /\ mem.journal \in disk.journal
      /\ \A v \in disk.journal : v # NoJournal => v \in Journals
  BY OnFlash DEF PhaseInv, Ground, TypeInv
<1>1. CASE Calm("journal") /\ ~Loses
  <2>1. CASE Calm("state")
    BY <1>0, <1>1, <2>1 DEF Calm, NotYet
  <2>2. ASSUME NEW j \in Jobs, wk[j].pc = "state" PROVE NotYet'
    BY <1>1, <2>2 DEF PhaseInv, Marked, Calm, NotYet
  <2>3. ASSUME RpcWrite, NEW s \in NewStates(mem.state), s # mem.state, Writes("state", s)
        PROVE  NotYet'
    <3>1. s.body.doc = mem.state.body.doc
      BY <2>3, CallsGoOn DEF Ground
    <3> QED BY <1>0, <1>1, <2>3, <3>1 DEF Calm, Writes, NotYet
  <2> QED BY <1>1, <2>1, <2>2, <2>3, StateMoves DEF StateStep
<1>2. CASE Loses
  BY <1>0, <1>2 DEF Loses, NotYet, Files
<1>3. CASE Clears
  BY <1>3 DEF Clears, NotYet
<1>4. ASSUME NEW v \in Journals, Writes("journal", v), disk'.state = disk.state,
             v.phase \in {"PREPARED", "APPLYING", "CANCELLED"} =>
               \A s \in disk.state : s.body.doc # v.id
      PROVE  NotYet'
  BY <1>0, <1>4 DEF Writes, NotYet
<1>5. ASSUME NEW j \in Jobs, JobWrites(j), wk[j].val \in Journals, OnlyJournal,
             \/ wk[j].pc = "apply" /\ Writes("journal", Phased(wk[j].val, "APPLYING"))
             \/ wk[j].pc = "mark" /\ Writes("journal", Phased(wk[j].val, "STATE_COMMITTING"))
             \/ wk[j].pc = "commit" /\ Writes("journal", Phased(wk[j].val, "COMMITTED"))
      PROVE  NotYet'
  <2>1. PICK ph \in Phases : /\ Writes("journal", Phased(wk[j].val, ph))
                             /\ ph \notin {"PREPARED", "CANCELLED"}
                             /\ ph = "APPLYING" => wk[j].pc = "apply"
    BY <1>5 DEF Phases
  <2>2. PICK v : v = Phased(wk[j].val, ph)
    OBVIOUS
  <2>3. v \in Journals /\ v.phase = ph /\ v.id = wk[j].val.id
    BY <1>5, <2>2, JournalTypes DEF Phased
  <2>4. ph = "APPLYING" => \A s \in disk.state : s.body.doc # v.id
    <3>1. ph = "APPLYING" => Fresh(wk[j].val)
      BY <1>5, <2>1 DEF JobWrites, Cleared
    <3> QED BY <2>1, <2>3, <3>1, Untouched
  <2> QED BY <1>4, <1>5, <2>1, <2>2, <2>3, <2>4 DEF OnlyJournal
<1>6. ASSUME NEW p \in Recoverers, rec[p].val \in Journals, OnlyJournal,
             mem.journal # NoJournal, Same(mem.journal, rec[p].val),
             \/ rec[p].pc = "publish" /\ Writes("journal", rec[p].val)
             \/ rec[p].pc = "error" /\ Writes("journal", Phased(rec[p].val, "RECOVERY_REQUIRED"))
      PROVE  NotYet'
  <2>1. CASE rec[p].pc = "publish" /\ Writes("journal", rec[p].val)
    <3>1. CASE rec[p].val.phase = "CANCELLED"
      <4>1. mem.state.body.doc # rec[p].val.id
        BY <2>1, <3>1 DEF PhaseInv, Justified
      <4>2. \A s \in disk.state : s.body.doc # rec[p].val.id
        BY <1>6, <4>1 DEF JobInv, Later, Same
      <4> QED BY <1>4, <1>6, <2>1, <4>2 DEF OnlyJournal
    <3>2. CASE rec[p].val.phase # "CANCELLED"
      <4>1. rec[p].val.phase \in {"CANCELLED", "COMMITTED"}
        BY <2>1 DEF Ground, HalfInv, Decided
      <4> QED BY <1>4, <1>6, <2>1, <3>2, <4>1 DEF OnlyJournal
    <3> QED BY <3>1, <3>2
  <2>2. CASE rec[p].pc = "error" /\ Writes("journal", Phased(rec[p].val, "RECOVERY_REQUIRED"))
    <3>1. /\ Phased(rec[p].val, "RECOVERY_REQUIRED") \in Journals
          /\ Phased(rec[p].val, "RECOVERY_REQUIRED").phase = "RECOVERY_REQUIRED"
      BY <1>6, JournalTypes DEF Phased, Phases
    <3> QED BY <1>4, <1>6, <2>2, <3>1 DEF OnlyJournal
  <2> QED BY <1>6, <2>1, <2>2
<1>7. ASSUME rpc.pc = "prepare", rpc.val \in Journals, wk[rpc.val.id].pc = "off", OnlyJournal,
             Writes("journal", rpc.val)
      PROVE  NotYet'
  <2>1. \A s \in disk.state : s.body.doc # rpc.val.id
    BY <1>7, JournalTypes DEF JobInv, KnownFiles, Known, Started
  <2> QED BY <1>4, <1>7, <2>1 DEF OnlyJournal
<1> QED BY <1>1, <1>2, <1>3, <1>5, <1>6, <1>7, PhaseMoves

LEMMA MarkedStep ==
  ASSUME Ground, Ground', JobInv, PhaseInv, Step, NEW j \in Jobs
  PROVE  Marked(j)'
<1>0. Marked(j) /\ JobStep(j)
  BY DEF PhaseInv, Step
<1>1. CASE wk'[j].pc = "mark" /\ wk'[j].syncing
  <2>1. CASE wk'[j] = wk[j]
    <3>1. ~JobWrites(j)
      BY <2>1 DEF JobWrites
    <3>2. Calm("journal")
      BY <1>1, <2>1, <3>1, WorkerWorks, Places
    <3> QED BY <1>0, <1>1, <2>1, <3>2 DEF Marked, Calm
  <2>2. CASE JobWrites(j)
    <3>1. wk[j].pc = "mark" /\ wk[j].val \in Journals
      BY <1>1, <2>2, WorkPlaces DEF JobWrites, Ground, TypeInv, WkOK
    <3>2. Writes("journal", Phased(wk[j].val, "STATE_COMMITTING"))
      BY <2>2, <3>1, WorkTables DEF JobWrites
    <3>3. mem'.journal.phase = "STATE_COMMITTING"
      BY <3>1, <3>2, Phasing DEF Writes
    <3> QED BY <1>1, <3>3 DEF Marked
  <2> QED BY <1>0, <1>1, <2>1, <2>2 DEF JobStep, Ending
<1>2. CASE wk'[j].pc = "state" \/ (wk'[j].pc = "commit" /\ ~wk'[j].syncing)
  <2>1. SUFFICES disk'.journal = {mem'.journal} /\ mem'.journal.phase = "STATE_COMMITTING"
    BY <1>2 DEF Marked
  <2>2. CASE wk'[j] = wk[j]
    <3>1. disk.journal = {mem.journal} /\ mem.journal.phase = "STATE_COMMITTING"
      BY <1>0, <1>2, <2>2 DEF Marked
    <3>2. ~JobWrites(j)
      BY <2>2 DEF JobWrites
    <3>3. Calm("journal")
      BY <1>2, <2>2, <3>2, WorkerWorks, Places
    <3>4. mem'.journal \in disk'.journal
      BY DEF Ground, TypeInv, FilesOK, Files
    <3> QED BY <3>1, <3>3, <3>4 DEF Calm
  <2>3. CASE JobWrites(j)
    <3>1. wk[j].pc = "state"
      BY <1>2, <2>3 DEF JobWrites
    <3> QED BY <1>0, <2>3, <3>1 DEF JobWrites, Writes, Files, Marked
  <2>4. CASE \/ wk[j].pc = "mark" /\ wk[j].syncing
             \/ wk[j].pc = "state"
        /\ mem' = mem /\ (\A f \in Files : disk'[f] = {mem[f]})
    BY <1>0, <2>4 DEF Marked, Files
  <2> QED BY <1>0, <1>2, <2>2, <2>3, <2>4 DEF JobStep, Ending
<1> QED BY <1>1, <1>2 DEF Marked

LEMMA UnmarkedStep ==
  ASSUME Ground, JobInv, PhaseInv, Step, NEW j \in Jobs
  PROVE  Unmarked(j)'
<1>1. SUFFICES ASSUME Young(j)', mem'.journal # NoJournal, mem'.journal.id = j
               PROVE  /\ \A s \in disk'.state :
                           /\ s.rev >= mem'.journal.before.state.rev
                           /\ s.rev = mem'.journal.before.state.rev => s = mem'.journal.before.state
                      /\ \A v \in disk'.journal :
                           v = NoJournal \/ v.phase \notin {"STATE_COMMITTING", "COMMITTED"}
  BY DEF Unmarked, Grown
<1>a. PICK J : J = mem'.journal
  OBVIOUS
<1>b. SUFFICES /\ \A s \in disk'.state :
                    /\ s.rev >= J.before.state.rev
                    /\ s.rev = J.before.state.rev => s = J.before.state
               /\ \A v \in disk'.journal :
                    v = NoJournal \/ v.phase \notin {"STATE_COMMITTING", "COMMITTED"}
  BY <1>a
<1>2. /\ Unmarked(j) /\ JobStep(j) /\ CallStep
      /\ mem.journal \in disk.journal /\ mem.state \in disk.state
      /\ \A s \in disk.state : s \in States
  BY OnFlash DEF PhaseInv, Step, Ground, TypeInv
<1>3. CASE rpc.pc = "queued" /\ rpc'.pc = "launch" /\ rpc'.val = rpc.val
           /\ mem' = mem /\ (\A f \in Files : disk'[f] = {mem[f]})
  <2>1. mem.journal = rpc.val /\ rpc.val.before.state = mem.state /\ rpc.val.phase = "PREPARED"
    BY <1>3 DEF JobInv, RpcVal, Ground, HalfInv, Queueing, Enqueued
  <2>2. mem.state.rev \in Nat
    BY <1>2 DEF States, Revs
  <2> QED BY <1>a, <1>3, <2>1, <2>2 DEF Files
<1>4. CASE Young(j)
  <2>1. ~Loses
    <3>1. ASSUME Loses PROVE FALSE
      <4>1. wk'[j].pc \in {"off", "gone"} /\ rpc'.pc = "recover"
        BY <3>1, PowerLossTypes DEF Loses, Ground
      <4> QED BY <1>1, <4>1 DEF Young
    <3> QED BY <3>1
  <2>2. ~Clears
    BY <1>1 DEF Clears
  <2>3. ~(rpc.pc = "prepare" /\ wk[rpc.val.id].pc = "off" /\ Writes("journal", rpc.val)
          /\ rpc'.pc = "queued")
    <3>1. ASSUME rpc.pc = "prepare", wk[rpc.val.id].pc = "off", Writes("journal", rpc.val),
                 rpc'.pc = "queued"
          PROVE  FALSE
      <4>1. rpc.val.id = j
        BY <1>1, <3>1 DEF Writes
      <4> QED BY <1>4, <3>1, <4>1 DEF Young
    <3> QED BY <3>1
  <2>4. mem.journal # NoJournal /\ Same(mem.journal, J) /\ mem.journal.id = j
    <3>1. CASE Calm("journal")
      BY <1>1, <1>a, <3>1, SamePlans DEF Calm
    <3>2. CASE mem.journal # NoJournal /\ Same(mem.journal, mem'.journal)
      BY <1>1, <1>a, <3>2 DEF Same
    <3>3. CASE rpc.pc = "prepare" /\ rpc'.pc = "queued" /\ mem'.journal = rpc.val
               /\ rpc.val \in Journals
      <4>1. wk[j].pc = "off"
        BY <1>1, <3>3 DEF Ground, LaunchOK, Enqueued
      <4> QED BY <1>4, <3>3, <4>1 DEF Young
    <3> QED BY <1>1, <2>1, <3>1, <3>2, <3>3, JournalMoves DEF JournalStep, Clears
  <2>5. /\ Grown(mem.journal)
        /\ \A v \in disk.journal : v = NoJournal \/ v.phase \notin {"STATE_COMMITTING", "COMMITTED"}
    BY <1>2, <1>4, <2>4 DEF Unmarked
  <2>6. mem.journal.before = J.before
    BY <2>4 DEF Same
  <2>7. \A s \in disk'.state : /\ s.rev >= J.before.state.rev
                               /\ s.rev = J.before.state.rev => s = J.before.state
    <3>1. CASE Calm("state")
      BY <2>5, <2>6, <3>1 DEF Calm, Grown
    <3>2. ASSUME NEW i \in Jobs, wk[i].pc = "state", wk[i].val.id = i,
                 Same(mem.journal, wk[i].val), ~wk[i].syncing
          PROVE  FALSE
      <4>1. i = j
        BY <2>4, <3>2 DEF Same
      <4> QED BY <1>4, <2>5, <3>2, <4>1 DEF PhaseInv, Marked, Young, Ground, LaunchOK, Enqueued
    <3>3. ASSUME RpcWrite, NEW s \in NewStates(mem.state), s # mem.state, Writes("state", s)
          PROVE  \A t \in disk'.state : /\ t.rev >= J.before.state.rev
                                        /\ t.rev = J.before.state.rev => t = J.before.state
      <4>1. s.rev = mem.state.rev + 1
        BY <3>3, CallsGoOn DEF Ground
      <4>2. mem.state.rev >= mem.journal.before.state.rev /\ mem.state.rev \in Nat
        BY <1>2, <2>5 DEF Grown, States, Revs
      <4>3. mem.journal.before.state.rev \in Nat
        BY <2>4, FileTypes, JournalTypes DEF Ground, TypeInv, States, Revs
      <4>4. s.rev > J.before.state.rev
        BY <2>6, <4>1, <4>2, <4>3
      <4>5. \A t \in disk.state : /\ t.rev >= J.before.state.rev
                                  /\ t.rev = J.before.state.rev => t = J.before.state
        BY <2>5, <2>6 DEF Grown
      <4>6. disk'.state = disk.state \union {s} /\ s.rev \in Nat /\ J.before.state.rev \in Nat
        BY <2>6, <3>3, <4>1, <4>2, <4>3 DEF Writes
      <4>7. s.rev >= J.before.state.rev /\ s.rev # J.before.state.rev
        BY <4>4, <4>6
      <4> QED BY <4>5, <4>6, <4>7
    <3> QED BY <2>1, <3>1, <3>2, <3>3, StateMoves DEF StateStep
  <2>8. \A v \in disk'.journal : v = NoJournal \/ v.phase \notin {"STATE_COMMITTING", "COMMITTED"}
    <3>1. CASE Calm("journal")
      BY <2>5, <3>1 DEF Calm
    <3>2. ASSUME NEW i \in Jobs, JobWrites(i), wk[i].val \in Journals, wk[i].val.id = i,
                 Same(mem.journal, wk[i].val),
                 \/ wk[i].pc = "apply" /\ Writes("journal", Phased(wk[i].val, "APPLYING"))
                 \/ wk[i].pc = "mark"
                 \/ wk[i].pc = "commit"
          PROVE  \A v \in disk'.journal :
                   v = NoJournal \/ v.phase \notin {"STATE_COMMITTING", "COMMITTED"}
      <4>1. i = j
        BY <2>4, <3>2 DEF Same
      <4>2. wk[j].pc # "commit" /\ wk[j].pc # "off"
        BY <1>4, <2>5, <1>2, <2>4, <3>2, <4>1 DEF PhaseInv, Marked, JobWrites, Section
      <4>3. wk[j].pc # "mark"
        <5>1. ASSUME wk[j].pc = "mark" PROVE FALSE
          <6>1. wk'[j].pc = "mark" /\ wk'[j].syncing
            BY <3>2, <4>1, <5>1 DEF JobWrites
          <6>2. rpc'.pc = "launch" /\ rpc'.val.id = j
            BY <1>1, <6>1 DEF Young
          <6>3. rpc.pc \in Enqueued /\ rpc'.val = rpc.val
            BY <1>2, <4>1, <6>2, <3>2, <5>1, WorkerTypes DEF CallStep, Enqueued, JobWrites, Writes
          <6> QED BY <4>1, <4>2, <6>2, <6>3 DEF Ground, LaunchOK
        <5> QED BY <5>1
      <4>4. Phased(wk[i].val, "APPLYING").phase = "APPLYING"
        BY <3>2, Phasing
      <4> QED BY <2>5, <3>2, <4>1, <4>2, <4>3, <4>4 DEF Writes
    <3>3. ASSUME NEW p \in Recoverers, RecoveryWrites(p), rec[p].val \in Journals,
                 \/ /\ rec[p].pc = "publish" /\ rec[p].val.phase \in {"CANCELLED", "COMMITTED"}
                    /\ Writes("journal", rec[p].val)
                 \/ /\ rec[p].pc = "error"
                    /\ Writes("journal", Phased(rec[p].val, "RECOVERY_REQUIRED"))
          PROVE  \A v \in disk'.journal :
                   v = NoJournal \/ v.phase \notin {"STATE_COMMITTING", "COMMITTED"}
      <4>1. rec[p].pc = "publish" => rec[p].val.phase # "COMMITTED"
        BY <1>2, <2>4, <2>5, <3>3 DEF RecoveryWrites, PhaseInv, Justified
      <4>2. Phased(rec[p].val, "RECOVERY_REQUIRED").phase = "RECOVERY_REQUIRED"
        BY <3>3, Phasing
      <4> QED BY <2>5, <3>3, <4>1, <4>2 DEF Writes
    <3> QED BY <2>1, <2>2, <2>3, <3>1, <3>2, <3>3, PhaseMoves
  <2> QED BY <2>7, <2>8
<1>5. Young(j) \/ (rpc.pc = "queued" /\ rpc'.pc = "launch")
  <2>1. CASE rpc'.pc = "launch" /\ rpc'.val.id = j
    BY <1>2, <2>1 DEF CallStep, Young, Enqueued
  <2>2. CASE ~(rpc'.pc = "launch" /\ rpc'.val.id = j)
    BY <1>1, <1>2, <2>2 DEF JobStep, Young, JobWrites, Ending, Section, RpcLaunch, RpcAt
  <2> QED BY <2>1, <2>2
<1>6. rpc.pc = "queued" /\ rpc'.pc = "launch" =>
        rpc'.val = rpc.val /\ mem' = mem /\ (\A f \in Files : disk'[f] = {mem[f]})
  BY <1>2 DEF CallStep, Enqueued
<1> QED BY <1>3, <1>4, <1>5, <1>6

(* The verdict of a recovery, from what the phases on the flash say.         *)
LEMMA Judges ==
  ASSUME Ground, JobInv, PhaseInv, Pending(mem.journal), ~Stuck(mem.journal),
         mem.journal \in Journals
  PROVE  /\ Verdict(mem.journal) = "CANCELLED" => mem.state.body.doc # mem.journal.id
         /\ Verdict(mem.journal) # "CANCELLED" => mem.journal.phase = "STATE_COMMITTING"
         /\ Verdict(mem.journal) = "COMMITTED" =>
              ProductsAfter(mem.journal) /\ mem.state.body.doc = mem.journal.id
<1> DEFINE v == mem.journal
<1>1. v # NoJournal /\ v \in disk.journal /\ mem.state \in disk.state
  BY OnFlash DEF Ground, TypeInv, Pending
<1>2. Planned(v)
  BY <1>1 DEF JobInv, JobOnFlash
<1>3. v.phase \in {"PREPARED", "APPLYING", "STATE_COMMITTING"}
  BY <1>1 DEF Pending, Terminal, Stuck, Journals, Phases
<1>4. CASE v.phase \in {"PREPARED", "APPLYING"}
  BY <1>1, <1>4 DEF Verdict, PhaseInv, NotYet
<1>5. CASE v.phase = "STATE_COMMITTING"
  <2>1. Verdict(v) = "CANCELLED" => Back(v)
    BY <1>5 DEF Verdict
  <2>2. Back(v) => mem.state.body.doc # v.id
    BY <1>2 DEF Back, Planned
  <2>3. Verdict(v) = "COMMITTED" => Forward(v) /\ ProductsAfter(v)
    BY <1>5 DEF Verdict
  <2>4. Forward(v) => mem.state.body = v.after.state.body
    BY DEF Forward
  <2>5. v.after.state.body.doc = v.id
    BY <1>2 DEF Planned
  <2> QED BY <1>5, <2>1, <2>2, <2>3, <2>4, <2>5
<1> QED BY <1>3, <1>4, <1>5

LEMMA JustifiedStep ==
  ASSUME Ground, JobInv, PhaseInv, Step, NEW p \in Recoverers
  PROVE  Justified(p)'
<1>0. /\ Justified(p) /\ RecStep(p)
      /\ Products = {"config", "policy"} /\ RecWrites = {"config", "policy", "publish", "error"}
  BY RecTables DEF PhaseInv, Step, Products
<1>1. CASE rec'[p] = rec[p] /\ rec[p].pc \in RecWrites
  <2>1. ~RecoveryWrites(p)
    BY <1>1 DEF RecoveryWrites
  <2>2. mem'.state = mem.state /\ mem'.journal = mem.journal
    BY <1>1, <2>1, RecovererWorks DEF Calm
  <2> QED BY <1>0, <1>1, <2>2 DEF Justified
<1>2. CASE rec'[p].pc \notin RecWrites
  BY <1>0, <1>2 DEF Justified
<1>3. CASE rec'[p].pc = "error"
  BY <1>0, <1>3 DEF Justified
<1>4. CASE /\ rec[p].pc = "read" /\ mem' = mem
           /\ Pending(mem.journal) /\ ~Stuck(mem.journal) /\ mem.journal \in Journals
           /\ rec'[p].val = Phased(mem.journal, Verdict(mem.journal))
           /\ \/ Verdict(mem.journal) = "CANCELLED" /\ rec'[p].pc = "config"
              \/ Verdict(mem.journal) = "COMMITTED" /\ rec'[p].pc = "publish"
  <2>1. PICK ph : ph = Verdict(mem.journal)
    OBVIOUS
  <2>2. rec'[p].val.phase = ph /\ rec'[p].val.id = mem.journal.id
    BY <1>4, <2>1, Phasing DEF Same
  <2> QED BY <1>0, <1>4, <2>1, <2>2, Judges DEF Justified
<1>5. CASE /\ rec[p].pc \in Products /\ rec'[p].val = rec[p].val /\ mem' = mem
           /\ rec'[p].pc \in {"config", "policy", "publish"}
  BY <1>0, <1>5 DEF Justified
<1>6. CASE RecoveryWrites(p) /\ rec'[p].pc = rec[p].pc /\ rec'[p].val = rec[p].val
  <2>1. rec'[p].stage = "sync" /\ rec[p].pc \in RecWrites
    BY <1>6 DEF RecoveryWrites
  <2>2. mem'.state = mem.state
    BY <1>6, <2>1, RecovererWorks DEF Calm
  <2>3. rec[p].pc \in Products => mem'.journal = mem.journal
    BY <1>6 DEF RecoveryWrites, Writes, Files, Products
  <2> QED BY <1>0, <1>6, <2>1, <2>2, <2>3 DEF Justified
<1> QED BY <1>0, <1>1, <1>2, <1>3, <1>4, <1>5, <1>6 DEF RecStep

LEMMA InitPhase ==
  ASSUME Init
  PROVE  PhaseInv
<1>1. disk.journal = {NoJournal} /\ rpc.pc = "idle"
  BY DEF Init, Files, NoCall
<1>2. \A j \in Jobs : wk[j].pc = "off"
  BY DEF Init, NoWorker
<1>3. \A p \in Recoverers : rec[p].pc = "off"
  BY DEF Init, NotRecovering
<1> QED BY <1>1, <1>2, <1>3, RecTables DEF PhaseInv, NotYet, Unmarked, Young, Marked, Justified, Products

LEMMA PhaseStep ==
  ASSUME Ground, JobInv, PhaseInv, [Next]_vars
  PROVE  Ground' /\ JobInv' /\ PhaseInv' /\ Step
<1>1. Ground' /\ JobInv' /\ Step
  BY JobInvStep
<1>2. PhaseInv'
  BY <1>1, NotYetStep, UnmarkedStep, MarkedStep, JustifiedStep DEF PhaseInv
<1> QED BY <1>1, <1>2

-----------------------------------------------------------------------------
(* Undisturbed, a restore always ends by itself                              *)

Fwd(s, v) ==
  s = v.after.state \/ (s.body = v.after.state.body /\ s.rev > v.after.state.rev /\ ~s.active)
Bck(s, v) ==
  s = v.before.state \/ (s.body = v.before.state.body /\ s.rev > v.before.state.rev /\ ~s.active)

(* The product files are what the job found or what it writes.               *)
OwnFiles ==
  \A f \in Products :
    /\ mem.journal = NoJournal => disk[f] = {mem[f]}
    /\ mem.journal # NoJournal => disk[f] \subseteq {mem.journal.before[f], mem.journal.after[f]}
(* A mark on the flash can be decided, whatever else the flash has.          *)
Decidable ==
  \A v \in disk.journal : v # NoJournal /\ v.phase = "STATE_COMMITTING" =>
    /\ \A s \in disk.state : Fwd(s, v) \/ Bck(s, v)
    /\ \A s \in disk.state : s.body.doc = v.id => \A f \in Products : disk[f] = {v.after[f]}
(* A worker past its mark has replaced the product files, durably.           *)
Replaced(j) ==
  /\ wk[j].pc \in {"state", "commit"} => \A f \in Products : disk[f] = {wk[j].val.after[f]}
  /\ wk[j].pc = "mark" /\ wk[j].syncing => ProductsAfter(wk[j].val)
Smooth(p) ==
  /\ rec[p].pc # "error"
  /\ rec[p].pc \in Products /\ rec[p].stage = "sync" =>
       mem[rec[p].pc] = rec[p].val.before[rec[p].pc]
NoneStuck == \A v \in disk.journal : ~Stuck(v)

Peace ==
  /\ OwnFiles /\ Decidable /\ NoneStuck
  /\ \A j \in Jobs : Replaced(j)
  /\ \A p \in Recoverers : Smooth(p)
PeaceInv == ~meddled => Peace

LEMMA ProductMoves ==
  ASSUME Ground, JobInv, PhaseInv, Step, NEW f \in Products
  PROVE  \/ Calm(f) \/ Loses
         \/ \E j \in Jobs : /\ JobWrites(j) /\ wk[j].pc = f /\ wk[j].val.id = j
                            /\ mem.journal # NoJournal /\ Same(mem.journal, wk[j].val)
                            /\ Writes(f, wk[j].val.after[f])
         \/ \E p \in Recoverers : /\ RecoveryWrites(p) /\ rec[p].pc = f
                                  /\ rec[p].val.phase = "CANCELLED"
                                  /\ mem.journal # NoJournal /\ Same(mem.journal, rec[p].val)
                                  /\ Writes(f, rec[p].val.before[f])
         \/ f = "policy" /\ TickWrite /\ Writes("policy", Ticks)
         \/ f = "config" /\ Edit /\ Writes("config", "edited")
<1>0. f = "config" \/ f = "policy"
  BY DEF Products
<1>1. ASSUME NEW j \in Jobs, JobWrites(j), wk[j].pc # f PROVE Calm(f)
  BY <1>0, <1>1 DEF JobWrites, Section, Writes, Calm, Files
<1>2. ASSUME NEW j \in Jobs, JobWrites(j), wk[j].pc = f
      PROVE  /\ Writes(f, wk[j].val.after[f]) /\ wk[j].val.id = j
             /\ mem.journal # NoJournal /\ Same(mem.journal, wk[j].val)
  BY <1>0, <1>2 DEF JobWrites, JobInv, JobVal
<1>3. ASSUME NEW p \in Recoverers, RecoveryWrites(p), rec[p].pc # f PROVE Calm(f)
  <2>1. rec[p].pc \in {"config", "policy", "publish", "error"}
    BY <1>3, RecTables DEF RecoveryWrites
  <2> QED BY <1>0, <1>3, <2>1 DEF RecoveryWrites, Writes, Calm, Files, Products
<1>4. ASSUME NEW p \in Recoverers, RecoveryWrites(p), rec[p].pc = f
      PROVE  /\ Writes(f, rec[p].val.before[f]) /\ rec[p].val.phase = "CANCELLED"
             /\ mem.journal # NoJournal /\ Same(mem.journal, rec[p].val)
  BY <1>4 DEF RecoveryWrites, JobInv, RecVal, PhaseInv, Justified
<1>5. CASE CallWrites
  BY <1>0, <1>5 DEF CallWrites, Writes, Calm, Files
<1>6. CASE Still \/ Clears
  BY <1>0, <1>6 DEF Still, Clears, Calm, Files
<1>7. CASE TickWrite /\ Writes("policy", Ticks)
  BY <1>0, <1>7 DEF Writes, Calm, Files
<1>8. CASE Edit /\ Writes("config", "edited")
  BY <1>0, <1>8 DEF Writes, Calm, Files
<1> QED BY <1>1, <1>2, <1>3, <1>4, <1>5, <1>6, <1>7, <1>8 DEF Step, FileStep

(* What happens to the product files while nobody meddles.                   *)
LEMMA OwnMoves ==
  ASSUME Ground, JobInv, PhaseInv, Step, ~meddled', NEW f \in Products
  PROVE  \/ Calm(f) \/ Loses
         \/ \E j \in Jobs : /\ JobWrites(j) /\ wk[j].pc = f /\ wk[j].val.id = j
                            /\ mem.journal # NoJournal /\ Same(mem.journal, wk[j].val)
                            /\ Writes(f, wk[j].val.after[f])
         \/ \E p \in Recoverers : /\ RecoveryWrites(p) /\ rec[p].pc = f
                                  /\ rec[p].val.phase = "CANCELLED"
                                  /\ mem.journal # NoJournal /\ Same(mem.journal, rec[p].val)
                                  /\ Writes(f, rec[p].val.before[f])
<1>1. ~TickWrite /\ ~Edit
  BY DEF TickWrite, Edit
<1> QED BY <1>1, ProductMoves

LEMMA OwnStep ==
  ASSUME Ground, Ground', JobInv, PhaseInv, Peace, Step, ~meddled'
  PROVE  OwnFiles'
<1>1. SUFFICES ASSUME NEW f \in Products
               PROVE  /\ mem'.journal = NoJournal => disk'[f] = {mem'[f]}
                      /\ mem'.journal # NoJournal =>
                           disk'[f] \subseteq {mem'.journal.before[f], mem'.journal.after[f]}
  BY DEF OwnFiles
<1>2. /\ f \in Files /\ mem[f] \in disk[f] /\ f # "journal" /\ f # "state"
      /\ mem.journal = NoJournal => disk[f] = {mem[f]}
      /\ mem.journal # NoJournal => disk[f] \subseteq {mem.journal.before[f], mem.journal.after[f]}
  BY DEF Peace, OwnFiles, Ground, TypeInv, FilesOK, Products, Files
<1>a. mem'[f] \in disk'[f]
  BY <1>2 DEF Ground, TypeInv, FilesOK
<1>3. CASE Loses
  <2>1. disk'[f] = {mem'[f]} /\ mem'[f] \in disk[f] /\ mem'.journal \in disk.journal
    BY <1>2, <1>3 DEF Loses, Files
  <2> QED BY <1>2, <2>1 DEF JobInv, JobOnFlash, Same
<1>4. ASSUME NEW v, mem.journal # NoJournal, Same(mem.journal, v),
             Writes(f, v.after[f]) \/ Writes(f, v.before[f])
      PROVE  /\ mem'.journal # NoJournal
             /\ disk'[f] \subseteq {mem'.journal.before[f], mem'.journal.after[f]}
  BY <1>2, <1>4 DEF Writes, Files, Same
<1>5. CASE Calm(f) /\ ~Loses
  <2>1. CASE Calm("journal")
    BY <1>2, <1>5, <2>1, <1>a DEF Calm
  <2>2. CASE Clears
    BY <1>2, <2>2 DEF Clears
  <2>3. ASSUME mem.journal # NoJournal, mem'.journal \in Journals, Same(mem.journal, mem'.journal)
        PROVE  /\ mem'.journal # NoJournal
               /\ disk'[f] \subseteq {mem'.journal.before[f], mem'.journal.after[f]}
    BY <1>2, <1>5, <2>3, AbsentAssumption DEF Calm, Same
  <2>4. CASE /\ mem.journal = NoJournal /\ mem'.journal = rpc.val /\ rpc.val \in Journals
             /\ mem.config = rpc.val.before.config /\ mem.policy = rpc.val.before.policy
    BY <1>2, <1>5, <2>4, AbsentAssumption DEF Calm, Writes, Products, Files
  <2> QED BY <1>5, <2>1, <2>2, <2>3, <2>4, JournalMoves DEF JournalStep
<1> QED BY <1>3, <1>4, <1>5, OwnMoves

(* A state a step adds to the flash can be decided too.                      *)
LEMMA StatesDecided ==
  ASSUME Ground, JobInv, PhaseInv, Peace, Step, ~meddled',
         NEW v \in disk.journal, v # NoJournal, v.phase = "STATE_COMMITTING",
         NEW s \in disk'.state
  PROVE  /\ Fwd(s, v) \/ Bck(s, v)
         /\ s.body.doc = v.id => \A f \in Products : disk[f] = {v.after[f]}
<1>1. /\ \A t \in disk.state : /\ Fwd(t, v) \/ Bck(t, v)
                               /\ t.body.doc = v.id => \A f \in Products : disk[f] = {v.after[f]}
      /\ mem.state \in disk.state /\ mem.journal \in disk.journal
      /\ \A t \in disk.state : t \in States
      /\ v \in Journals /\ Same(v, mem.journal) /\ mem.journal # NoJournal
  BY OnFlash DEF Peace, Decidable, Ground, TypeInv, JobInv, JobOnFlash
<1>2. CASE s \in disk.state
  BY <1>1, <1>2
<1>3. ASSUME NEW j \in Jobs, wk[j].pc = "state", Same(mem.journal, wk[j].val),
             Writes("state", wk[j].val.after.state), s \notin disk.state
      PROVE  /\ Fwd(s, v)
             /\ \A f \in Products : disk[f] = {v.after[f]}
  <2>1. s = v.after.state
    BY <1>1, <1>3 DEF Writes, Same
  <2>2. \A f \in Products : disk[f] = {wk[j].val.after[f]}
    BY <1>3 DEF Peace, Replaced
  <2> QED BY <1>1, <1>3, <2>1, <2>2 DEF Fwd, Same
<1>4. ASSUME RpcWrite, NEW t \in NewStates(mem.state), t # mem.state, Writes("state", t),
             s \notin disk.state
      PROVE  /\ Fwd(s, v) \/ Bck(s, v)
             /\ s.body.doc = v.id => \A f \in Products : disk[f] = {v.after[f]}
  <2>1. s = t
    BY <1>4 DEF Writes
  <2>2. rpc.op = "stop"
    BY <1>1, <1>4 DEF RpcWrite
  <2>3. s.rev = mem.state.rev + 1 /\ s.body = mem.state.body /\ ~s.active
    BY <1>4, <2>1, <2>2, CallsGoOn DEF Ground
  <2>4. /\ Fwd(mem.state, v) \/ Bck(mem.state, v)
        /\ mem.state.rev \in Nat /\ v.after.state.rev \in Nat /\ v.before.state.rev \in Nat
    BY <1>1, JournalTypes DEF States, Revs
  <2>5. Fwd(mem.state, v) => mem.state.body = v.after.state.body /\ s.rev > v.after.state.rev
    BY <2>3, <2>4 DEF Fwd
  <2>6. Bck(mem.state, v) => mem.state.body = v.before.state.body /\ s.rev > v.before.state.rev
    BY <2>3, <2>4 DEF Bck
  <2>7. Fwd(s, v) \/ Bck(s, v)
    BY <2>3, <2>4, <2>5, <2>6 DEF Fwd, Bck
  <2> QED BY <1>1, <2>3, <2>7
<1>5. CASE s \notin disk.state
  <2>1. ~Calm("state") /\ ~Loses
    BY <1>5 DEF Calm, Loses, Files
  <2> QED BY <1>3, <1>4, <1>5, <2>1, StateMoves DEF StateStep
<1> QED BY <1>2, <1>5

LEMMA DecidableStep ==
  ASSUME Ground, Ground', JobInv, PhaseInv, Peace, Step, ~meddled'
  PROVE  Decidable'
<1>0. Decidable /\ \A f \in Products : f \in Files /\ mem'[f] \in disk'[f]
  BY DEF Peace, Ground, TypeInv, FilesOK, Products, Files
<1>1. ASSUME NEW v \in disk.journal, v # NoJournal, v.phase = "STATE_COMMITTING"
      PROVE  /\ \A s \in disk'.state : Fwd(s, v) \/ Bck(s, v)
             /\ \A s \in disk'.state : s.body.doc = v.id =>
                  \A f \in Products : disk'[f] = {v.after[f]}
  <2>1. SUFFICES ASSUME NEW s \in disk'.state, s.body.doc = v.id, NEW f \in Products
                 PROVE  disk'[f] = {v.after[f]}
    BY <1>1, StatesDecided
  <2>2. disk[f] = {v.after[f]}
    BY <1>1, <2>1, StatesDecided
  <2>3. CASE Calm(f) \/ Loses
    BY <1>0, <2>2, <2>3 DEF Calm, Loses
  <2>4. ASSUME NEW w, Writes(f, w) PROVE s \in disk.state
    BY <2>1, <2>4 DEF Writes, Files, Products
  <2>5. ASSUME NEW j \in Jobs, wk[j].pc = f, wk[j].val.id = j, mem.journal # NoJournal,
               Same(mem.journal, wk[j].val)
        PROVE  FALSE
    <3>1. Young(j) /\ mem.journal.id = j
      BY <2>5 DEF Young, Products, Same
    <3> QED BY <1>1, <2>5, <3>1 DEF PhaseInv, Unmarked
  <2>6. ASSUME NEW p \in Recoverers, rec[p].pc = f, rec[p].val.phase = "CANCELLED",
               Same(mem.journal, rec[p].val), s \in disk.state
        PROVE  FALSE
    <3>1. mem.state.body.doc # rec[p].val.id
      BY <2>6 DEF PhaseInv, Justified, Products
    <3>2. mem.journal # NoJournal /\ mem.journal.id = v.id
      BY <1>1 DEF JobInv, JobOnFlash, Same
    <3> QED BY <2>1, <2>6, <3>1, <3>2 DEF JobInv, Later, Same
  <2> QED BY <2>3, <2>4, <2>5, <2>6, OwnMoves
<1>2. CASE \A v \in disk'.journal : v \in disk.journal \/ v = NoJournal \/ v.phase # "STATE_COMMITTING"
  BY <1>1, <1>2 DEF Decidable, Fwd, Bck
<1>3. ASSUME NEW j \in Jobs, JobWrites(j), wk[j].val \in Journals, OnlyJournal,
             wk[j].pc = "mark", Writes("journal", Phased(wk[j].val, "STATE_COMMITTING"))
      PROVE  Decidable'
  <2>1. PICK w : w = Phased(wk[j].val, "STATE_COMMITTING")
    OBVIOUS
  <2>2. Same(w, wk[j].val)
    BY <1>3, <2>1, Phasing
  <2>3. Fresh(wk[j].val) /\ ~wk[j].syncing
    BY <1>3 DEF JobWrites, Cleared
  <2>4. \A s \in disk.state : s = w.before.state /\ s.body.doc # w.id
    BY <1>3, <2>2, <2>3, Untouched DEF Same
  <2>5. \A s \in disk'.state : Bck(s, w) /\ s.body.doc # w.id
    BY <1>3, <2>4 DEF OnlyJournal, Bck
  <2>6. \A v \in disk'.journal : v \in disk.journal \/ v = w
    BY <1>3, <2>1 DEF Writes
  <2> QED BY <1>1, <2>5, <2>6 DEF Decidable, Fwd, Bck
<1>4. ASSUME NEW w \in Journals, NEW ph, ph # "STATE_COMMITTING",
             Writes("journal", Phased(w, ph))
      PROVE  \A v \in disk'.journal : v \in disk.journal \/ v.phase # "STATE_COMMITTING"
  BY <1>4, Phasing DEF Writes
<1>5. ASSUME NEW w, w.phase # "STATE_COMMITTING", Writes("journal", w)
      PROVE  \A v \in disk'.journal : v \in disk.journal \/ v.phase # "STATE_COMMITTING"
  BY <1>5 DEF Writes
<1>6. ASSUME NEW p \in Recoverers, rec[p].val.phase \in {"CANCELLED", "COMMITTED"}
      PROVE  rec[p].val.phase # "STATE_COMMITTING"
  BY <1>6
<1>7. CASE Calm("journal") \/ Loses \/ Clears
  BY <1>2, <1>7 DEF Calm, Loses, Clears, Files
<1> QED BY <1>2, <1>3, <1>4, <1>5, <1>6, <1>7, PhaseMoves

LEMMA ReplacedStep ==
  ASSUME Ground, Ground', JobInv, PhaseInv, Peace, Step, ~meddled', NEW j \in Jobs
  PROVE  Replaced(j)'
<1>0. /\ Replaced(j) /\ JobStep(j) /\ ~Edit
      /\ \A f \in Products : f \in Files /\ mem'[f] \in disk'[f] /\ f # "journal" /\ f # "state"
      /\ Products = {"config", "policy"}
  BY DEF Peace, Ground, TypeInv, FilesOK, Products, Files, Edit, Step
<1>1. CASE wk'[j] = wk[j] /\ wk[j].pc \in Section
  <2>1. ~JobWrites(j)
    BY <1>1 DEF JobWrites
  <2>2. Calm("config") /\ Calm("policy")
    BY <1>0, <1>1, <2>1, WorkerWorks
  <2> QED BY <1>0, <1>1, <2>2 DEF Replaced, Calm, ProductsAfter
<1>2. CASE JobWrites(j) /\ wk'[j].val = wk[j].val
  <2>1. CASE wk[j].pc \in {"mark", "state", "commit"}
    <3>1. \A f \in Products : mem'[f] = mem[f] /\ disk'[f] = disk[f]
      BY <1>0, <1>2, <2>1 DEF JobWrites, Writes
    <3>2. wk[j].pc = "mark" => ProductsAfter(wk[j].val)
      BY <1>2 DEF JobWrites, Cleared
    <3> QED BY <1>0, <1>2, <2>1, <3>1, <3>2 DEF Replaced, ProductsAfter, JobWrites
  <2>2. CASE wk[j].pc \notin {"mark", "state", "commit"}
    BY <1>2, <2>2 DEF Replaced, JobWrites
  <2> QED BY <2>1, <2>2
<1>3. CASE /\ wk'[j].val = wk[j].val /\ ~wk'[j].syncing
           /\ wk[j].pc = "mark" /\ wk[j].syncing /\ wk'[j].pc = "state"
           /\ (\A f \in Files : disk'[f] = {mem[f]})
  BY <1>0, <1>3 DEF Replaced, ProductsAfter
<1>4. CASE /\ wk'[j].val = wk[j].val /\ ~wk'[j].syncing
           /\ wk[j].pc = "state" /\ wk'[j].pc = "commit"
           /\ (\A f \in Files : disk'[f] = {mem[f]})
  <2>1. \A f \in Products : disk[f] = {wk[j].val.after[f]} /\ mem[f] \in disk[f]
    BY <1>0, <1>4 DEF Replaced, Ground, TypeInv, FilesOK
  <2> QED BY <1>0, <1>4, <2>1 DEF Replaced
<1>5. CASE wk'[j].pc \notin {"state", "commit"} /\ ~(wk'[j].pc = "mark" /\ wk'[j].syncing)
  BY <1>5 DEF Replaced
<1> QED BY <1>0, <1>1, <1>2, <1>3, <1>4, <1>5 DEF JobStep, Ending, Section

LEMMA SmoothStep ==
  ASSUME Ground, JobInv, PhaseInv, Peace, Step, ~meddled', NEW p \in Recoverers
  PROVE  Smooth(p)'
<1>0. /\ Smooth(p) /\ RecStep(p) /\ ~Edit
      /\ Products = {"config", "policy"} /\ RecWrites = {"config", "policy", "publish", "error"}
  BY RecTables DEF Peace, Products, Edit, Step
<1>1. CASE rec'[p] = rec[p]
  <2>1. CASE rec[p].pc \in Products
    <3>1. ~RecoveryWrites(p)
      BY <1>1 DEF RecoveryWrites
    <3>2. Calm("config") /\ Calm("policy")
      BY <1>0, <1>1, <2>1, <3>1, RecovererWorks
    <3> QED BY <1>0, <1>1, <2>1, <3>2 DEF Smooth, Calm
  <2>2. CASE rec[p].pc \notin Products
    BY <1>0, <1>1, <2>2 DEF Smooth
  <2> QED BY <2>1, <2>2
<1>2. CASE rec'[p].pc \notin RecWrites
  BY <1>0, <1>2 DEF Smooth
<1>3. CASE /\ Pending(mem.journal) /\ ~Stuck(mem.journal) /\ mem.journal \in Journals
           /\ Verdict(mem.journal) = "RECOVERY_REQUIRED"
  <2> DEFINE v == mem.journal
  <2>a. v.phase = "STATE_COMMITTING"
    BY <1>3, Judges
  <2>1. v.phase = "STATE_COMMITTING" /\ ~Back(v) /\ ~(Forward(v) /\ ProductsAfter(v))
    <3>1. Forward(v) => ~ProductsAfter(v)
      BY <1>3, <2>a DEF Verdict
    <3>2. ~Forward(v) => ~Back(v)
      BY <1>3, <2>a DEF Verdict
    <3>3. Forward(v) => ~Back(v)
      <4>1. v # NoJournal /\ v \in disk.journal
        BY <1>3, OnFlash DEF Ground, TypeInv, Pending
      <4>2. Planned(v)
        BY <4>1 DEF JobInv, JobOnFlash
      <4>3. Forward(v) => mem.state.body.doc = v.id
        BY <4>2 DEF Forward, Planned
      <4>4. Back(v) => mem.state.body.doc # v.id
        BY <4>2 DEF Back, Planned
      <4> QED BY <4>3, <4>4
    <3> QED BY <2>a, <3>1, <3>2, <3>3
  <2>2. v # NoJournal /\ v \in disk.journal /\ mem.state \in disk.state
    BY <1>3, OnFlash DEF Ground, TypeInv, Pending
  <2>3. /\ Fwd(mem.state, v) \/ Bck(mem.state, v)
        /\ Planned(v)
        /\ mem.state.body.doc = v.id => \A f \in Products : disk[f] = {v.after[f]}
    BY <2>1, <2>2 DEF Peace, Decidable, JobInv, JobOnFlash
  <2>4. ~Bck(mem.state, v)
    BY <2>1 DEF Bck, Back
  <2>5. mem.state.body = v.after.state.body /\ v.after.state.body.doc = v.id
    BY <2>2, <2>3, <2>4 DEF Fwd, Planned, JobInv, JobOnFlash
  <2>6. ProductsAfter(v)
    <3>1. \A f \in Products : disk[f] = {v.after[f]} /\ mem[f] \in disk[f]
      BY <1>0, <2>3, <2>5 DEF Ground, TypeInv, FilesOK, Files
    <3> QED BY <3>1 DEF ProductsAfter
  <2>7. Forward(v)
    BY <2>3, <2>4, <2>6 DEF Fwd, Forward
  <2> QED BY <2>1, <2>6, <2>7
<1>4. CASE rec[p].pc \in Products /\ Foreign(rec[p].val, rec[p].pc)
  <2>1. mem.journal # NoJournal /\ Same(mem.journal, rec[p].val)
    BY <1>0, <1>4 DEF JobInv, RecVal
  <2>2. \A f \in Products : mem[f] \in disk[f] /\ disk[f] \subseteq {mem.journal.before[f], mem.journal.after[f]}
    BY <1>0, <2>1 DEF Peace, OwnFiles, Ground, TypeInv, FilesOK, Files
  <2> QED BY <1>4, <2>1, <2>2 DEF Foreign, Same
<1>5. CASE rec'[p].pc \in RecWrites \ {"error"} /\ rec'[p].stage # "sync"
  BY <1>5 DEF Smooth
<1>6. CASE /\ RecoveryWrites(p) /\ rec'[p].pc = rec[p].pc /\ rec'[p].val = rec[p].val
  BY <1>0, <1>6 DEF RecoveryWrites, Writes, Smooth
<1>7. CASE /\ rec[p].pc \in Products /\ rec[p].stage = "sync"
           /\ mem[rec[p].pc] # rec[p].val.before[rec[p].pc]
  BY <1>0, <1>7 DEF Smooth
<1> QED BY <1>0, <1>1, <1>2, <1>3, <1>4, <1>5, <1>6, <1>7 DEF RecStep

LEMMA NoneStuckStep ==
  ASSUME Ground, JobInv, PhaseInv, Peace, Step, ~meddled'
  PROVE  NoneStuck'
<1>0. NoneStuck /\ mem.journal \in disk.journal
  BY OnFlash DEF Peace, Ground, TypeInv
<1>1. CASE Calm("journal") \/ Loses \/ Clears
  BY <1>0, <1>1 DEF Calm, Loses, Clears, NoneStuck, Stuck, Files
<1>2. ASSUME NEW w, w.phase # "RECOVERY_REQUIRED", Writes("journal", w)
      PROVE  NoneStuck'
  BY <1>0, <1>2 DEF Writes, NoneStuck, Stuck
<1>3. ASSUME NEW w \in Journals, NEW ph, ph # "RECOVERY_REQUIRED",
             Writes("journal", Phased(w, ph))
      PROVE  NoneStuck'
  BY <1>2, <1>3, Phasing
<1>4. ASSUME NEW p \in Recoverers, rec[p].pc = "error" PROVE FALSE
  BY <1>4 DEF Peace, Smooth
<1>5. ASSUME NEW p \in Recoverers, rec[p].val.phase \in {"CANCELLED", "COMMITTED"},
             Writes("journal", rec[p].val)
      PROVE  NoneStuck'
  BY <1>2, <1>5
<1> QED BY <1>1, <1>2, <1>3, <1>4, <1>5, PhaseMoves

LEMMA InitPeace ==
  ASSUME Init
  PROVE  PeaceInv
<1>1. mem.journal = NoJournal /\ disk.journal = {NoJournal} /\ \A f \in Files : disk[f] = {mem[f]}
  <2>1. mem.journal = NoJournal /\ \A f \in Files : disk[f] = {mem[f]}
    BY DEF Init
  <2> QED BY <2>1 DEF Files
<1>2. /\ \A j \in Jobs : wk[j].pc = "off"
      /\ \A p \in Recoverers : rec[p].pc = "off"
  BY DEF Init, NoWorker, NotRecovering
<1> QED
  BY <1>1, <1>2 DEF PeaceInv, Peace, OwnFiles, Decidable, NoneStuck, Replaced, Smooth, Stuck,
     Files, Products

LEMMA PeaceStep ==
  ASSUME Ground, JobInv, PhaseInv, PeaceInv, [Next]_vars
  PROVE  PeaceInv'
<1>1. Ground' /\ Step
  BY PhaseStep
<1>2. SUFFICES ASSUME ~meddled' PROVE Peace'
  BY DEF PeaceInv
<1>3. Peace
  BY <1>1, <1>2 DEF Step, PeaceInv
<1> QED
  BY <1>1, <1>2, <1>3, OwnStep, DecidableStep, NoneStuckStep, ReplacedStep, SmoothStep DEF Peace

(* StuckOnlyIfMeddled: recover_locked().  Deaths of workers and of rpcd,     *)
(* power losses, contention for the locks, Stops and changes of credentials  *)
(* never leave a restore in RECOVERY_REQUIRED: a marked job on the flash can *)
(* always be decided, for the product files are replaced durably before the  *)
(* mark and the document is in state.json only after it.                     *)
THEOREM NeverStuckAlone == Spec => []StuckOnlyIfMeddled
<1> DEFINE Inv == Ground /\ JobInv /\ PhaseInv /\ PeaceInv
<1>1. Init => Inv
  BY InitGround, InitPhase, InitPeace
<1>2. Inv /\ [Next]_vars => Inv'
  BY PhaseStep, PeaceStep
<1>3. Inv => StuckOnlyIfMeddled
  BY OnFlash DEF PeaceInv, Peace, NoneStuck, StuckOnlyIfMeddled, Ground, TypeInv
<1> QED
  BY <1>1, <1>2, <1>3, PTL DEF Spec

-----------------------------------------------------------------------------
(* What has not happened so far                                              *)

(* No commit of /etc/config/foxhole from elsewhere, which may put an old     *)
(* value back after the job; no power loss; no process killed and nothing    *)
(* failed.                                                                   *)
Unedited  == budget.edits = MaxEdits
Lossless  == budget.losses = MaxLosses
Unfailing == budget.faults = MaxFaults /\ budget.deaths = MaxDeaths

Spending(b) == budget' = [budget EXCEPT ![b] = budget[b] - 1]

LEMMA Spenders ==
  ASSUME TypeInv, [Next]_vars
  PROVE  UNCHANGED budget \/ \E b \in Spent : Spending(b)
<1>1. CASE \/ Rpc \/ InitScript \/ TunnelEnds \/ TickLock \/ TickWrite \/ TickDone
           \/ (\E j \in Jobs : Worker(j)) \/ (\E p \in Recoverers : Recovery(p))
           \/ UNCHANGED vars
  <2>1. UNCHANGED budget
    BY <1>1 DEF Rpc, RpcLock, RpcIntent, RpcKeys, RpcWrite, RpcRestart, RpcQueue, RpcRefuse,
       RpcPrepare, RpcQueued, RpcLaunch, RpcRecovered, InitScript, InitStop, InitBoot, InitGate,
       InitStart, InitDone, TunnelEnds, TickLock, TickWrite, TickDone, Worker, WorkContext,
       WorkEngine,
       WorkFirst, WorkQuiesce, WorkWrite, WorkSync, WorkCatch, WorkRecovered, WorkResume,
       WorkAbort, WorkAborted, Recovery, RecPeek, RecEngine, RecState, RecRead, RecCheck,
       RecWrite, RecSync, vars
  <2> QED BY <2>1
<1>2. CASE \/ TickGuard \/ Edit \/ Fault \/ RpcdDies \/ PowerLoss \/ Reload
           \/ (\E j \in Jobs : WorkerDies(j)) \/ (\E op \in Ops : RpcCall(op))
  <2>1. \E b \in Spent : Spending(b)
    BY <1>2 DEF TickGuard, Edit, Fault, RpcdDies, PowerLoss, Reload, WorkerDies, RpcCall,
       Spending, Spent
  <2> QED BY <2>1
<1> QED BY <1>1, <1>2 DEF Next, System, Environment, Tick

(* What has not happened by the end of a step had not happened before it,    *)
(* and does not happen in it.                                                *)
LEMMA Sparing ==
  ASSUME TypeInv, TypeInv', [Next]_vars
  PROVE  /\ Unedited' => Unedited /\ ~Edit
         /\ Lossless' => Lossless /\ ~PowerLoss
         /\ Unfailing' => Unfailing /\ ~Fault /\ ~RpcdDies /\ \A j \in Jobs : ~WorkerDies(j)
<1>1. /\ DOMAIN budget = Spent /\ \A b \in Spent : budget[b] \in Nat
      /\ budget.edits <= MaxEdits /\ budget.losses <= MaxLosses
      /\ budget.deaths <= MaxDeaths /\ budget.faults <= MaxFaults
      /\ {MaxEdits, MaxLosses, MaxDeaths, MaxFaults} \subseteq Nat
      /\ {"edits", "losses", "deaths", "faults"} \subseteq Spent
  BY BackupAssumption DEF TypeInv, BudgetOK, Spent
<1>2. \A b \in Spent : budget'[b] <= budget[b] /\ budget'[b] \in Nat
  <2>1. \A b \in Spent : budget'[b] \in Nat
    BY DEF TypeInv, BudgetOK
  <2> QED BY <1>1, <2>1, Spenders DEF Spending
<1>3. \A b \in Spent : Spending(b) => budget'[b] = budget[b] - 1
  BY <1>1 DEF Spending
<1>4. /\ Edit => budget'.edits = budget.edits - 1
      /\ PowerLoss => budget'.losses = budget.losses - 1
      /\ Fault => budget'.faults = budget.faults - 1
      /\ RpcdDies => budget'.deaths = budget.deaths - 1
      /\ \A j \in Jobs : WorkerDies(j) => budget'.deaths = budget.deaths - 1
  BY <1>1, <1>3 DEF Edit, PowerLoss, Fault, RpcdDies, WorkerDies, Spending
<1>5. /\ budget'.edits <= budget.edits /\ budget'.losses <= budget.losses
      /\ budget'.deaths <= budget.deaths /\ budget'.faults <= budget.faults
  BY <1>1, <1>2
<1>6. {budget.edits, budget.losses, budget.deaths, budget.faults} \subseteq Nat
      /\ {budget'.edits, budget'.losses, budget'.deaths, budget'.faults} \subseteq Nat
  BY <1>1, <1>2
<1>7. /\ Unedited' => Unedited /\ ~Edit
      /\ Lossless' => Lossless /\ ~PowerLoss
  BY <1>1, <1>4, <1>5, <1>6 DEF Unedited, Lossless
<1>8. Unfailing' => Unfailing /\ ~Fault /\ ~RpcdDies /\ \A j \in Jobs : ~WorkerDies(j)
  BY <1>1, <1>4, <1>5, <1>6 DEF Unfailing
<1> QED BY <1>7, <1>8

-----------------------------------------------------------------------------
(* Times of the update checks                                                *)

(* A policy on the flash, or in a job's journal, with a tick's time is of a  *)
(* tick that is over.                                                        *)
Past(p) == p \notin Jobs => p <= Ticks /\ (tick \in {"guarded", "holding"} => p < Ticks)
TicksPast ==
  /\ \A p \in disk.policy : Past(p)
  /\ \A v \in disk.journal : v # NoJournal => Past(v.before.policy)

LEMMA TickMoves ==
  ASSUME TypeInv, [Next]_vars
  PROVE  \/ Ticks' = Ticks /\ tick' \in {"idle", "checking"}
         \/ Ticks' = Ticks /\ tick' = tick
         \/ Ticks' = Ticks /\ tick = "guarded" /\ tick' = "holding"
         \/ Ticks' = Ticks + 1 /\ tick' = "guarded" /\ ~TickWrite
<1>0. /\ MaxTicks \in Nat /\ budget.ticks \in Nat /\ budget.ticks <= MaxTicks
      /\ DOMAIN budget = Spent /\ "ticks" \in Spent
  BY BackupAssumption DEF TypeInv, BudgetOK, Spent
<1>1. CASE TickGuard
  <2>1. budget'.ticks = budget.ticks - 1 /\ tick = "idle" /\ tick' = "guarded"
    BY <1>0, <1>1 DEF TickGuard
  <2> QED BY <1>0, <2>1 DEF Ticks, TickWrite
<1>2. CASE TickLock \/ TickWrite \/ TickDone
  <2>1. UNCHANGED budget
    BY <1>2 DEF TickLock, TickWrite, TickDone
  <2> QED BY <1>2, <2>1 DEF TickLock, TickWrite, TickDone, Ticks
<1>3. CASE ~Tick
  <2>1. tick' = tick \/ tick' = "idle"
    BY <1>3 DEF Next, System, Environment, Rpc, RpcLock, RpcIntent, RpcKeys, RpcWrite,
       RpcRestart, RpcQueue, RpcRefuse, RpcPrepare, RpcQueued, RpcLaunch, RpcRecovered,
       InitScript, InitStop, InitBoot, InitGate, InitStart, InitDone, TunnelEnds, Worker,
       WorkContext,
       WorkEngine, WorkFirst, WorkQuiesce, WorkWrite, WorkSync, WorkCatch, WorkRecovered,
       WorkResume, WorkAbort, WorkAborted, Recovery, RecPeek, RecEngine, RecState, RecRead,
       RecCheck, RecWrite, RecSync, RpcCall, Reload, Edit, Fault, RecFault, WorkFault, RpcFault,
       RpcdDies, PowerLoss, WorkerDies, vars
  <2>2. budget'.ticks = budget.ticks
    <3>1. CASE UNCHANGED budget
      BY <3>1
    <3>2. ASSUME NEW b \in Spent \ {"ticks"}, Spending(b) PROVE budget'.ticks = budget.ticks
      BY <1>0, <3>2 DEF Spending
    <3>3. CASE \/ Rpc \/ InitScript \/ TunnelEnds \/ UNCHANGED vars
               \/ (\E j \in Jobs : Worker(j)) \/ (\E p \in Recoverers : Recovery(p))
      BY <3>3 DEF Rpc, RpcLock, RpcIntent, RpcKeys, RpcWrite, RpcRestart, RpcQueue, RpcRefuse,
         RpcPrepare, RpcQueued, RpcLaunch, RpcRecovered, InitScript, InitStop, InitBoot,
         InitGate, InitStart, InitDone, TunnelEnds, Worker, WorkContext, WorkEngine,
         WorkFirst, WorkQuiesce, WorkWrite, WorkSync, WorkCatch, WorkRecovered, WorkResume,
         WorkAbort, WorkAborted, Recovery, RecPeek, RecEngine, RecState, RecRead, RecCheck,
         RecWrite, RecSync, vars
    <3>4. CASE \/ Edit \/ Fault \/ RpcdDies \/ PowerLoss \/ Reload
               \/ (\E j \in Jobs : WorkerDies(j)) \/ (\E op \in Ops : RpcCall(op))
      <4>1. \E b \in Spent \ {"ticks"} : Spending(b)
        BY <3>4 DEF Edit, Fault, RpcdDies, PowerLoss, Reload, WorkerDies, RpcCall, Spending, Spent
      <4> QED BY <3>2, <4>1
    <3> QED BY <1>3, <3>3, <3>4 DEF Next, System, Environment
  <2> QED BY <2>1, <2>2 DEF Ticks
<1> QED BY <1>1, <1>2, <1>3 DEF Tick

LEMMA PastStays ==
  ASSUME TypeInv, [Next]_vars, NEW p \in Policies, Past(p)
  PROVE  Past(p)'
<1>1. MaxTicks \in Nat /\ budget.ticks \in Nat /\ budget.ticks <= MaxTicks
  BY BackupAssumption DEF TypeInv, BudgetOK, Spent
<1>2. Ticks \in Nat /\ (p \notin Jobs => p \in Nat)
  BY <1>1 DEF Ticks, Policies
<1>3. CASE p \in Jobs
  BY <1>3 DEF Past
<1>4. CASE p \notin Jobs
  BY <1>2, <1>4, TickMoves DEF Past
<1> QED BY <1>3, <1>4

LEMMA TicksPastStep ==
  ASSUME Ground, Ground', JobInv, Step, TicksPast, [Next]_vars
  PROVE  TicksPast'
<1>0. /\ TypeInv /\ mem.policy \in disk.policy /\ mem.journal \in disk.journal
      /\ \A p \in disk.policy : p \in Policies
      /\ \A v \in disk.journal : v # NoJournal => v \in Journals /\ v.before.policy \in Policies
  <2>1. \A p \in disk.policy : p \in Policies
    BY Kinds DEF Ground, TypeInv, FilesOK, Files
  <2>2. \A v \in Journals : v.before.policy \in Policies
    BY JournalTypes DEF Triples
  <2> QED BY <2>1, <2>2, OnFlash DEF Ground, TypeInv
<1>1. /\ \A p \in disk.policy : Past(p)'
      /\ \A v \in disk.journal : v # NoJournal => Past(v.before.policy)'
  <2>1. ASSUME NEW p \in disk.policy PROVE Past(p)'
    BY <1>0, <2>1, PastStays DEF TicksPast
  <2>2. ASSUME NEW v \in disk.journal, v # NoJournal PROVE Past(v.before.policy)'
    <3>1. PICK p \in Policies : p = v.before.policy
      BY <1>0, <2>2
    <3>2. Past(p)'
      BY <1>0, <2>2, <3>1, PastStays DEF TicksPast
    <3> QED BY <3>1, <3>2 DEF Past
  <2> QED BY <2>1, <2>2
<1>2. ASSUME NEW p \in disk'.policy PROVE Past(p)'
  <2>1. CASE Calm("policy") \/ Loses
    BY <1>0, <1>1, <1>2, <2>1 DEF Calm, Loses, Files
  <2>2. ASSUME NEW q, Writes("policy", q), Past(q)' PROVE Past(p)'
    BY <1>1, <1>2, <2>2 DEF Writes
  <2>3. ASSUME NEW j \in Jobs, JobWrites(j), wk[j].pc = "policy",
               Writes("policy", wk[j].val.after.policy)
        PROVE  Past(p)'
    <3>1. wk[j].val.after.policy = j
      <4>1. mem.journal # NoJournal /\ Same(mem.journal, wk[j].val) /\ wk[j].val.id = j
        BY <2>3 DEF JobInv, JobVal, Section
      <4>2. Planned(wk[j].val)
        BY <1>0, <4>1, SamePlans DEF JobInv, JobOnFlash
      <4> QED BY <4>1, <4>2 DEF Planned
    <3>2. Past(j)'
      BY DEF Past
    <3> QED BY <2>2, <2>3, <3>1, <3>2
  <2>4. ASSUME NEW r \in Recoverers, RecoveryWrites(r), rec[r].pc = "policy",
               Writes("policy", rec[r].val.before.policy)
        PROVE  Past(p)'
    <3>1. mem.journal # NoJournal /\ Same(mem.journal, rec[r].val)
      BY <2>4 DEF JobInv, RecVal, RecoveryWrites
    <3>2. PICK q : q = rec[r].val.before.policy
      OBVIOUS
    <3>3. Past(q)'
      BY <1>0, <1>1, <3>1, <3>2 DEF Same, Past
    <3> QED BY <2>2, <2>4, <3>2, <3>3
  <2>5. CASE TickWrite /\ Writes("policy", Ticks)
    <3>1. PICK q : q = Ticks
      OBVIOUS
    <3>2. Ticks \in Nat
      BY BackupAssumption DEF Ground, TypeInv, BudgetOK, Spent, Ticks
    <3>3. tick = "holding" /\ tick' = "checking"
      BY <2>5 DEF TickWrite
    <3>4. Ticks' = Ticks
      BY <1>0, <2>5, <3>3, TickMoves
    <3>5. Past(q)'
      BY <3>1, <3>2, <3>3, <3>4 DEF Past
    <3> QED BY <2>2, <2>5, <3>1, <3>5
  <2> QED BY <2>1, <2>3, <2>4, <2>5, PolicyMoves
<1>3. ASSUME NEW v \in disk'.journal, v # NoJournal PROVE Past(v.before.policy)'
  <2>1. CASE Calm("journal") \/ Loses
    BY <1>0, <1>1, <1>3, <2>1 DEF Calm, Loses, Files
  <2>2. CASE Clears
    BY <1>3, <2>2 DEF Clears
  <2>3. CASE /\ mem.journal # NoJournal /\ Same(mem.journal, mem'.journal)
             /\ disk'.journal = disk.journal \union {mem'.journal}
    BY <1>0, <1>1, <1>3, <2>3 DEF Same, Past
  <2>4. CASE /\ rpc.pc = "prepare" /\ disk'.journal = disk.journal \union {rpc.val}
    <3>1. rpc.val.before.policy = mem.policy
      BY <2>4 DEF JobInv, RpcVal
    <3> QED BY <1>0, <1>1, <1>3, <2>4, <3>1 DEF Past
  <2> QED BY <2>1, <2>2, <2>3, <2>4, JournalMoves DEF JournalStep
<1> QED BY <1>2, <1>3 DEF TicksPast, Past

-----------------------------------------------------------------------------
(* What a process that replaces files has behind it                          *)

(* A recovery that has passed a file has put it back; one that confirms a    *)
(* job found all three files replaced.                                       *)
RolledBack(p) ==
  LET v == rec[p].val IN
  /\ v.phase = "CANCELLED" =>
       /\ rec[p].pc \in {"policy", "publish"} => mem.config = v.before.config
       /\ rec[p].pc = "publish" => mem.policy = v.before.policy
  /\ rec[p].pc = "publish" /\ v.phase = "COMMITTED" =>
       ProductsAfter(v) /\ mem.state.body.doc = v.id
(* A worker at its mark has replaced both product files, at its commit       *)
(* state.json too.                                                           *)
RolledOut(j) ==
  /\ wk[j].pc \in {"state", "commit"} \/ (wk[j].pc = "mark" /\ wk[j].syncing) =>
       ProductsAfter(wk[j].val)
  /\ wk[j].pc = "commit" => mem.state.body.doc = j

LEMMA RolledBackStep ==
  ASSUME Ground, JobInv, PhaseInv, Step, ~Edit, NEW p \in Recoverers, RolledBack(p)
  PROVE  RolledBack(p)'
<1>0. /\ RecStep(p) /\ RecWrites = {"config", "policy", "publish", "error"}
      /\ Products = {"config", "policy"}
  BY RecTables DEF Step, Products
<1>1. CASE rec'[p] = rec[p]
  <2>1. CASE rec[p].pc \in {"policy", "publish"}
    <3>1. ~RecoveryWrites(p)
      BY <1>1 DEF RecoveryWrites
    <3>2. Calm("state") /\ Calm("config") /\ Calm("policy")
      BY <1>0, <1>1, <2>1, <3>1, RecovererWorks
    <3> QED BY <1>0, <1>1, <3>2 DEF RolledBack, Calm, ProductsAfter
  <2>2. CASE rec[p].pc \notin {"policy", "publish"}
    BY <1>1, <2>2 DEF RolledBack
  <2> QED BY <2>1, <2>2
<1>2. CASE rec'[p].pc \notin {"policy", "publish"}
  BY <1>2 DEF RolledBack
<1>3. CASE /\ Pending(mem.journal) /\ ~Stuck(mem.journal) /\ mem.journal \in Journals
           /\ UNCHANGED <<mem, disk, wk, rpc, meddled>>
           /\ rec'[p].val = Phased(mem.journal, Verdict(mem.journal))
           /\ Verdict(mem.journal) = "COMMITTED" /\ rec'[p].pc = "publish"
  <2>1. ProductsAfter(mem.journal) /\ mem.state.body.doc = mem.journal.id
    BY <1>3, Judges
  <2>2. /\ Same(rec'[p].val, mem.journal) /\ rec'[p].val.phase = "COMMITTED"
    BY <1>3, Phasing
  <2> QED BY <1>3, <2>1, <2>2 DEF RolledBack, Same, ProductsAfter
<1>4. CASE /\ rec[p].pc \in Products /\ mem' = mem /\ rec'[p].val = rec[p].val
           /\ \/ /\ rec[p].pc = "config" /\ rec'[p].pc = "policy"
                 /\ mem.config = rec[p].val.before.config
              \/ /\ rec[p].pc = "policy" /\ rec'[p].pc = "publish"
                 /\ mem.policy = rec[p].val.before.policy
              \/ rec'[p].pc = rec[p].pc
  <2>1. rec[p].val.phase = "CANCELLED"
    BY <1>4 DEF PhaseInv, Justified
  <2> QED BY <1>0, <1>4, <2>1 DEF RolledBack
<1>5. CASE RecoveryWrites(p) /\ rec'[p].pc = rec[p].pc /\ rec'[p].val = rec[p].val
  <2>1. CASE rec[p].pc = "policy"
    <3>1. mem'.config = mem.config
      BY <1>0, <1>5, <2>1 DEF RecoveryWrites, Writes, Files
    <3> QED BY <1>5, <2>1, <3>1 DEF RolledBack
  <2>2. CASE rec[p].pc = "publish"
    <3>1. mem'.config = mem.config /\ mem'.policy = mem.policy /\ mem'.state = mem.state
      BY <1>5, <2>2 DEF RecoveryWrites, Writes, Files
    <3> QED BY <1>0, <1>5, <2>2, <3>1 DEF RolledBack, ProductsAfter
  <2>3. CASE rec[p].pc \notin {"policy", "publish"}
    BY <1>2, <1>5, <2>3
  <2> QED BY <2>1, <2>2, <2>3
<1> QED BY <1>0, <1>1, <1>2, <1>3, <1>4, <1>5 DEF RecStep

(* Only a worker's commit brings a document, and power losses others.        *)
LEMMA DocStays ==
  ASSUME Ground, JobInv, Step, ~Loses, \A j \in Jobs : ~(JobWrites(j) /\ wk[j].pc = "state")
  PROVE  /\ mem'.state.body.doc = mem.state.body.doc
         /\ \A s \in disk'.state : s \in disk.state \/ s.body.doc = mem.state.body.doc
<1>1. CASE Calm("state")
  BY <1>1 DEF Calm
<1>2. ASSUME RpcWrite, NEW s \in NewStates(mem.state), s # mem.state, Writes("state", s)
      PROVE  /\ mem'.state.body.doc = mem.state.body.doc
             /\ \A t \in disk'.state : t \in disk.state \/ t.body.doc = mem.state.body.doc
  <2>1. s.body.doc = mem.state.body.doc
    BY <1>2, CallsGoOn DEF Ground
  <2> QED BY <1>2, <2>1 DEF Writes
<1> QED BY <1>1, <1>2, StateMoves DEF StateStep

(* While a worker replaces files, rpcd's calls leave state.json its document. *)
LEMMA BesideWorker ==
  ASSUME Ground, JobInv, Step, ~Edit, NEW j \in Jobs,
         wk[j].pc \in Early \cup Section, wk'[j].pc \in Early \cup Section, ~JobWrites(j)
  PROVE  /\ Calm("journal") /\ Calm("policy") /\ Calm("config")
         /\ mem'.state.body.doc = mem.state.body.doc
         /\ \A s \in disk'.state : s \in disk.state \/ s.body.doc = mem.state.body.doc
<1>1. /\ ~Loses /\ Calm("journal") /\ Calm("policy") /\ Calm("config")
  BY WorkerWorks
<1>2. ASSUME NEW i \in Jobs, JobWrites(i), wk[i].pc = "state" PROVE FALSE
  <2>1. i = j \/ wk[i].pc \notin Early \cup Section
    BY <1>2, NobodyElse DEF Ground
  <2> QED BY <1>2, <2>1 DEF Section
<1> QED BY <1>1, <1>2, DocStays

LEMMA RolledOutStep ==
  ASSUME Ground, JobInv, Step, ~Edit, NEW j \in Jobs, RolledOut(j)
  PROVE  RolledOut(j)'
<1>0. JobStep(j) /\ Products = {"config", "policy"} /\ {"state", "commit", "mark"} \subseteq Section
  BY DEF Step, Products, Section
<1>1. CASE wk'[j] = wk[j] /\ wk[j].pc \in {"state", "commit", "mark"}
  <2>1. ~JobWrites(j)
    BY <1>1 DEF JobWrites
  <2>2. /\ Calm("policy") /\ Calm("config")
        /\ mem'.state.body.doc = mem.state.body.doc
    BY <1>0, <1>1, <2>1, BesideWorker
  <2> QED BY <1>0, <1>1, <2>2 DEF RolledOut, ProductsAfter, Calm
<1>2. CASE wk'[j].pc \notin {"state", "commit", "mark"}
  BY <1>2 DEF RolledOut
<1>3. CASE JobWrites(j) /\ wk'[j].val = wk[j].val
  <2>1. CASE wk[j].pc = "mark"
    <3>1. ProductsAfter(wk[j].val)
      BY <1>3, <2>1 DEF JobWrites, Cleared
    <3>2. mem'.config = mem.config /\ mem'.policy = mem.policy
      BY <1>3, <2>1 DEF JobWrites, Writes, Files
    <3> QED BY <1>0, <1>3, <2>1, <3>1, <3>2 DEF RolledOut, ProductsAfter, JobWrites
  <2>2. CASE wk[j].pc = "state"
    <3>1. mem'.config = mem.config /\ mem'.policy = mem.policy
      BY <1>3, <2>2 DEF JobWrites, Writes, Files
    <3> QED BY <1>0, <1>3, <2>2, <3>1 DEF RolledOut, ProductsAfter, JobWrites
  <2>3. CASE wk[j].pc = "commit"
    <3>1. mem'.config = mem.config /\ mem'.policy = mem.policy /\ mem'.state = mem.state
      BY <1>3, <2>3 DEF JobWrites, Writes, Files
    <3> QED BY <1>0, <1>3, <2>3, <3>1 DEF RolledOut, ProductsAfter, JobWrites
  <2>4. CASE wk[j].pc \in {"apply", "config", "policy"}
    BY <1>2, <1>3, <2>4 DEF JobWrites
  <2> QED BY <1>3, <2>1, <2>2, <2>3, <2>4 DEF JobWrites, Section
<1>4. CASE /\ mem' = mem /\ wk'[j].val = wk[j].val /\ ~wk'[j].syncing /\ wk[j].syncing
           /\ \/ wk[j].pc = "mark" /\ wk'[j].pc = "state"
              \/ /\ wk[j].pc = "state" /\ wk'[j].pc = "commit"
                 /\ mem.state = wk[j].val.after.state
  <2>1. CASE wk[j].pc = "mark" /\ wk'[j].pc = "state"
    BY <1>4, <2>1 DEF RolledOut, ProductsAfter
  <2>2. CASE wk[j].pc = "state" /\ wk'[j].pc = "commit" /\ mem.state = wk[j].val.after.state
    <3>1. wk[j].val.id = j /\ mem.journal # NoJournal /\ Same(mem.journal, wk[j].val)
      BY <1>0, <2>2 DEF JobInv, JobVal
    <3>2. Planned(wk[j].val)
      BY <3>1, OnFlash, SamePlans DEF JobInv, JobOnFlash, Ground, TypeInv
    <3>3. mem.state.body.doc = j
      BY <2>2, <3>1, <3>2 DEF Planned
    <3> QED BY <1>4, <2>2, <3>3 DEF RolledOut, ProductsAfter
  <2> QED BY <1>4, <2>1, <2>2
<1>5. CASE wk'[j].pc = "mark" /\ ~wk'[j].syncing
  BY <1>5 DEF RolledOut
<1>6. CASE wk'[j] = wk[j] /\ wk[j].pc \notin {"state", "commit", "mark"}
  BY <1>2, <1>6
<1> QED BY <1>0, <1>1, <1>2, <1>3, <1>4, <1>5, <1>6 DEF JobStep, Ending

-----------------------------------------------------------------------------
(* A job that is finished                                                    *)

(* Nobody replaces its files any more.                                       *)
LEMMA NobodyWrites ==
  ASSUME Ground, JobInv, PhaseInv, Terminal(mem.journal)
  PROVE  /\ \A j \in Jobs : ~JobWrites(j)
         /\ \A p \in Recoverers : RecoveryWrites(p) => rec[p].pc = "error"
<1>1. /\ mem.journal # NoJournal /\ mem.journal.phase \in {"COMMITTED", "CANCELLED"}
      /\ ~Pending(mem.journal)
  BY DEF Terminal, Pending
<1>2. ASSUME NEW j \in Jobs, JobWrites(j) PROVE FALSE
  <2>1. wk[j].pc \notin {"apply", "config", "policy", "mark"}
    BY <1>1 DEF Ground, HalfInv, PendingWork, Early, Late
  <2>2. wk[j].pc # "state" /\ ~(wk[j].pc = "commit" /\ ~wk[j].syncing)
    BY <1>1 DEF PhaseInv, Marked
  <2> QED BY <1>2, <2>1, <2>2 DEF JobWrites, Section
<1>3. ASSUME NEW p \in Recoverers, RecoveryWrites(p) PROVE rec[p].pc = "error"
  <2>1. rec[p].pc \in {"config", "policy", "publish", "error"} /\ rec[p].stage = "write"
    BY <1>3, RecTables DEF RecoveryWrites
  <2>2. rec[p].pc \notin {"config", "policy", "publish"}
    BY <1>1, <2>1 DEF PhaseInv, Justified, Products
  <2> QED BY <2>1, <2>2
<1> QED BY <1>2, <1>3

LEMMA TickIsNew ==
  ASSUME Ground, TicksPast, TickWrite, mem.journal # NoJournal
  PROVE  Ticks \notin {mem.journal.id, mem.journal.before.policy}
<1>1. mem.journal \in Journals /\ mem.journal \in disk.journal
  BY OnFlash DEF Ground, TypeInv
<1>2. Ticks \in Nat
  BY BackupAssumption DEF Ground, TypeInv, BudgetOK, Spent, Ticks
<1>3. mem.journal.id \in Jobs /\ mem.journal.before.policy \in Jobs \union Nat
  BY <1>1, JournalTypes DEF Triples, Policies
<1>4. mem.journal.before.policy \notin Jobs => mem.journal.before.policy < Ticks
  <2>1. tick = "holding"
    BY DEF TickWrite
  <2> QED BY <1>1, <2>1 DEF TicksPast, Past
<1>5. Ticks \notin Jobs
  BY <1>2, BackupAssumption
<1>6. mem.journal.before.policy # Ticks
  BY <1>2, <1>3, <1>4, <1>5
<1> QED BY <1>3, <1>5, <1>6

(* An update tick gives the policy a time that neither the job nor what it   *)
(* found has; a call keeps the document.                                     *)
LEMMA Afterwards ==
  ASSUME Ground, JobInv, PhaseInv, TicksPast, Step, ~Edit, ~Loses, Terminal(mem.journal)
  PROVE  /\ Calm("config")
         /\ \/ Calm("policy")
            \/ \E t : /\ t \notin {mem.journal.id, mem.journal.before.policy}
                      /\ Writes("policy", t)
         /\ mem'.state.body.doc = mem.state.body.doc
         /\ \A s \in disk'.state : s \in disk.state \/ s.body.doc = mem.state.body.doc
<1>0. /\ mem.journal \in Journals /\ mem.journal \in disk.journal
      /\ mem.journal # NoJournal /\ "config" \in Products /\ "policy" \in Products
      /\ \A j \in Jobs : ~JobWrites(j)
      /\ \A p \in Recoverers : RecoveryWrites(p) => rec[p].pc = "error"
  BY OnFlash, NobodyWrites DEF Ground, TypeInv, Terminal, Products
<1>1. Calm("config")
  BY <1>0, ProductMoves
<1>2. TickWrite => Ticks \notin {mem.journal.id, mem.journal.before.policy}
  BY <1>0, TickIsNew
<1>3. \/ Calm("policy")
      \/ \E t : /\ t \notin {mem.journal.id, mem.journal.before.policy}
                /\ Writes("policy", t)
  BY <1>0, <1>2, ProductMoves
<1> QED BY <1>0, <1>1, <1>3, DocStays

(* A finished job's files, as they are read or as the flash may have them.   *)
Settled(v, ss, cs, ps) ==
  /\ v.phase = "COMMITTED" => /\ \A s \in ss : s.body.doc = v.id
                              /\ \A c \in cs : c = v.after.config
                              /\ \A p \in ps : p # v.before.policy
  /\ v.phase = "CANCELLED" => /\ \A c \in cs : c = v.before.config
                              /\ \A p \in ps : p # v.id
SettledNow ==
  mem.journal # NoJournal =>
    Settled(mem.journal, {mem.state}, {mem.config}, {mem.policy})

LEMMA SettledNowStep ==
  ASSUME Ground, JobInv, PhaseInv, TicksPast, Step, ~Edit, ~Loses, SettledNow,
         \A j \in Jobs : RolledOut(j), \A p \in Recoverers : RolledBack(p)
  PROVE  SettledNow'
<1>1. CASE Calm("journal")
  <2>1. SUFFICES ASSUME Terminal(mem.journal) PROVE SettledNow'
    BY <1>1 DEF SettledNow, Settled, Terminal, Calm
  <2>2. /\ mem'.config = mem.config /\ mem'.state.body.doc = mem.state.body.doc
        /\ \/ mem'.policy = mem.policy
           \/ mem'.policy \notin {mem.journal.id, mem.journal.before.policy}
    BY <2>1, Afterwards DEF Calm, Writes
  <2> QED BY <1>1, <2>2 DEF SettledNow, Settled, Calm
<1>2. CASE Clears
  BY <1>2 DEF Clears, SettledNow
<1>3. ASSUME NEW v, Writes("journal", v), v.phase \notin {"COMMITTED", "CANCELLED"}
      PROVE  SettledNow'
  BY <1>3 DEF Writes, SettledNow, Settled
<1>4. ASSUME NEW j \in Jobs, wk[j].pc = "commit", wk[j].val.id = j, wk[j].val \in Journals,
             mem.journal # NoJournal, Same(mem.journal, wk[j].val), OnlyJournal,
             Writes("journal", Phased(wk[j].val, "COMMITTED"))
      PROVE  SettledNow'
  <2>1. Planned(wk[j].val)
    BY <1>4, OnFlash, SamePlans DEF JobInv, JobOnFlash, Ground, TypeInv
  <2>2. ProductsAfter(wk[j].val) /\ mem.state.body.doc = j
    BY <1>4 DEF RolledOut
  <2>3. PICK v : v = Phased(wk[j].val, "COMMITTED")
    OBVIOUS
  <2>4. v.phase = "COMMITTED" /\ Same(v, wk[j].val)
    BY <1>4, <2>3, Phasing
  <2>5. mem'.journal = v /\ mem'.state = mem.state /\ mem'.config = mem.config
        /\ mem'.policy = mem.policy
    BY <1>4, <2>3 DEF Writes, OnlyJournal
  <2>6. /\ v.id = j /\ v.before.policy # v.after.policy
        /\ mem.config = v.after.config /\ mem.policy = v.after.policy
    <3>1. v.id = wk[j].val.id /\ v.before = wk[j].val.before /\ v.after = wk[j].val.after
      BY <2>4 DEF Same
    <3>2. wk[j].val.after.policy = wk[j].val.id /\ wk[j].val.before.policy # wk[j].val.id
      BY <2>1 DEF Planned
    <3>3. mem.config = wk[j].val.after.config /\ mem.policy = wk[j].val.after.policy
      BY <2>2 DEF ProductsAfter, Products
    <3> QED BY <1>4, <3>1, <3>2, <3>3
  <2> QED BY <2>2, <2>4, <2>5, <2>6 DEF SettledNow, Settled
<1>5. ASSUME NEW p \in Recoverers, rec[p].pc = "publish", rec[p].val \in Journals,
             mem.journal # NoJournal, Same(mem.journal, rec[p].val), OnlyJournal,
             Writes("journal", rec[p].val)
      PROVE  SettledNow'
  <2>1. Planned(rec[p].val)
    BY <1>5, OnFlash, SamePlans DEF JobInv, JobOnFlash, Ground, TypeInv
  <2>2. mem'.journal = rec[p].val /\ mem'.state = mem.state /\ mem'.config = mem.config
        /\ mem'.policy = mem.policy
    BY <1>5 DEF Writes, OnlyJournal
  <2>3. RolledBack(p)
    OBVIOUS
  <2>4. rec[p].val.after.policy = rec[p].val.id /\ rec[p].val.before.policy # rec[p].val.id
    BY <2>1 DEF Planned
  <2>5. rec[p].val.phase = "CANCELLED" =>
          mem.config = rec[p].val.before.config /\ mem.policy = rec[p].val.before.policy
    BY <1>5, <2>3 DEF RolledBack
  <2>6. rec[p].val.phase = "COMMITTED" =>
          /\ mem.config = rec[p].val.after.config /\ mem.policy = rec[p].val.after.policy
          /\ mem.state.body.doc = rec[p].val.id
    BY <1>5, <2>3 DEF RolledBack, ProductsAfter, Products
  <2> QED BY <2>2, <2>4, <2>5, <2>6 DEF SettledNow, Settled
<1>6. ASSUME NEW v \in Journals, NEW ph, ph \notin {"COMMITTED", "CANCELLED"},
             Writes("journal", Phased(v, ph))
      PROVE  SettledNow'
  BY <1>3, <1>6, Phasing
<1> QED BY <1>1, <1>2, <1>3, <1>4, <1>5, <1>6, PhaseMoves

(* What the flash may have of state.json after a cancellation is without the *)
(* document, and what a settled job's files have is what it decided for.     *)
LEMMA SettledIsWhole ==
  ASSUME Ground, JobInv, PhaseInv, NEW v \in disk.journal, Terminal(v),
         NEW s \in disk.state, NEW c, NEW p, Settled(v, {s}, {c}, {p})
  PROVE  Whole(v, s, c, p)
<1>1. Planned(v) /\ v # NoJournal
  BY DEF JobInv, JobOnFlash, Terminal
<1>2. CASE v.phase = "COMMITTED"
  BY <1>1, <1>2 DEF Settled, Whole, Planned
<1>3. CASE v.phase = "CANCELLED"
  <2>1. s.body.doc # v.id
    BY <1>1, <1>3 DEF PhaseInv, NotYet
  <2> QED BY <1>1, <1>3, <2>1 DEF Settled, Whole, Planned
<1> QED BY <1>2, <1>3 DEF Terminal

RollInv ==
  Unedited =>
    /\ \A j \in Jobs : RolledOut(j)
    /\ \A p \in Recoverers : RolledBack(p)
SettledInv == Unedited /\ Lossless => SettledNow
WholeInv == TicksPast /\ RollInv /\ SettledInv

LEMMA InitWhole ==
  ASSUME Init
  PROVE  WholeInv
<1>1. /\ mem.journal = NoJournal /\ disk.journal = {NoJournal} /\ disk.policy = {0}
      /\ tick = "idle" /\ budget.ticks = MaxTicks
  <2>1. mem.journal = NoJournal /\ mem.policy = 0 /\ disk = [f \in Files |-> {mem[f]}]
    BY DEF Init
  <2> QED BY <2>1 DEF Init, Files
<1>2. Past(0)
  BY <1>1, BackupAssumption DEF Past, Ticks
<1>3. /\ \A j \in Jobs : wk[j].pc = "off"
      /\ \A p \in Recoverers : rec[p].pc = "off"
  BY DEF Init, NoWorker, NotRecovering
<1> QED
  BY <1>1, <1>2, <1>3 DEF WholeInv, TicksPast, RollInv, SettledInv, SettledNow, RolledOut, RolledBack

LEMMA WholeStep ==
  ASSUME Ground, JobInv, PhaseInv, WholeInv, [Next]_vars
  PROVE  WholeInv'
<1>1. Ground' /\ Step /\ TypeInv /\ TypeInv'
  BY PhaseStep DEF Ground
<1>2. TicksPast'
  BY <1>1, TicksPastStep DEF WholeInv
<1>3. RollInv'
  <2>1. SUFFICES ASSUME Unedited' PROVE /\ \A j \in Jobs : RolledOut(j)'
                                       /\ \A p \in Recoverers : RolledBack(p)'
    BY DEF RollInv
  <2>2. ~Edit /\ Unedited
    BY <1>1, <2>1, Sparing
  <2> QED BY <1>1, <2>2, RolledOutStep, RolledBackStep DEF WholeInv, RollInv
<1>4. SettledInv'
  <2>1. SUFFICES ASSUME Unedited', Lossless' PROVE SettledNow'
    BY DEF SettledInv
  <2>2. ~Edit /\ Unedited /\ Lossless /\ ~Loses
    BY <1>1, <2>1, Sparing DEF Loses
  <2> QED BY <1>1, <2>2, SettledNowStep DEF WholeInv, RollInv, SettledInv
<1> QED BY <1>2, <1>3, <1>4 DEF WholeInv

(* FinishedIsWhole: run_backup() and recover_locked().  As long as the power *)
(* stays and nobody else commits /etc/config/foxhole, a job that says it is  *)
(* finished restored state, options and policy, or none of them, whichever   *)
(* worker or rpcd was killed and whatever write or sync failed on the way,   *)
(* and it stays so under every later call and update tick.                   *)
THEOREM FinishedJobsAreWhole == Spec => [](Unedited /\ Lossless => FinishedIsWhole)
<1> DEFINE Inv == Ground /\ JobInv /\ PhaseInv /\ WholeInv
<1>1. Init => Inv
  BY InitGround, InitPhase, InitWhole
<1>2. Inv /\ [Next]_vars => Inv'
  BY PhaseStep, WholeStep
<1>3. Inv => (Unedited /\ Lossless => FinishedIsWhole)
  <2>1. SUFFICES ASSUME Inv, Unedited, Lossless, Terminal(mem.journal)
                 PROVE  Whole(mem.journal, mem.state, mem.config, mem.policy)
    BY DEF FinishedIsWhole
  <2>2. mem.journal \in disk.journal /\ mem.state \in disk.state
    BY <2>1, OnFlash DEF Ground, TypeInv
  <2>3. Settled(mem.journal, {mem.state}, {mem.config}, {mem.policy})
    BY <2>1 DEF WholeInv, SettledInv, SettledNow, Terminal
  <2> QED BY <2>1, <2>2, <2>3, SettledIsWhole
<1> QED
  BY <1>1, <1>2, <1>3, PTL DEF Spec

-----------------------------------------------------------------------------
(* Nobody stops between a write and its sync                                 *)

Nothing == ~Fault /\ ~RpcdDies /\ \A j \in Jobs : ~WorkerDies(j)
Synced  == mem' = mem /\ \A f \in Files : disk'[f] = {mem[f]}

LEMMA Losing ==
  ASSUME PowerLoss
  PROVE  Loses
<1>1. PICK st \in disk.state, cf \in disk.config, po \in disk.policy,
           jo \in disk.journal, it \in disk.intent, ke \in disk.keys :
        mem' = [state |-> st, config |-> cf, policy |-> po, journal |-> jo,
                intent |-> it, keys |-> ke]
  BY DEF PowerLoss
<1>2. \A f \in Files : mem'[f] \in disk[f]
  BY <1>1 DEF Files
<1>3. disk' = [f \in Files |-> {mem'[f]}]
  BY DEF PowerLoss
<1> QED BY <1>2, <1>3 DEF Loses

LEMMA JobSynced ==
  ASSUME Ground, [Next]_vars, Nothing, NEW j \in Jobs, wk[j].syncing
  PROVE  wk'[j] = wk[j] \/ Synced \/ Loses
<1>0. TypeInv /\ wk[j].pc \in Section
  BY DEF Ground, TypeInv, WkOK
<1>1. ASSUME NEW i \in Jobs, Worker(i) PROVE wk'[j] = wk[j] \/ Synced
  <2>1. i # j => wk'[j] = wk[j]
    BY <1>0, <1>1, WorkerTypes
  <2>2. ASSUME i = j PROVE Synced
    <3>1. WorkSync(j)
      BY <1>0, <1>1, <2>2 DEF Worker, WorkContext, WorkEngine, WorkFirst, WorkQuiesce,
         WorkWrite, WorkCatch, WorkRecovered, WorkResume, WorkAbort, WorkAborted, At, Section
    <3> QED BY <1>0, <3>1, Syncing DEF WorkSync, Sync, Synced, TypeInv
  <2> QED BY <2>1, <2>2
<1>2. CASE InitDone
  BY <1>0, <1>2, InitDoneTypes DEF Section
<1>3. CASE RpcLaunch
  BY <1>0, <1>3, RpcLaunchTypes DEF Ground, LaunchOK, RpcLaunch, RpcAt, Enqueued, Section
<1>4. CASE \/ (Rpc /\ ~RpcLaunch) \/ (InitScript /\ ~InitDone) \/ TunnelEnds \/ Tick \/ Reload
           \/ Edit
           \/ (\E op \in Ops : RpcCall(op))
           \/ (\E p \in Recoverers : Recovery(p)) \/ UNCHANGED vars
  <2>1. wk' = wk
    BY <1>4 DEF Rpc, RpcLock, RpcIntent, RpcKeys, RpcWrite, RpcRestart, RpcQueue, RpcRefuse,
       RpcPrepare, RpcQueued, RpcRecovered, InitScript, InitStop, InitBoot, InitGate, InitStart,
       TunnelEnds, Tick, TickGuard, TickLock, TickWrite, TickDone, Reload, Edit, RpcCall, Recovery,
       RecPeek, RecEngine, RecState, RecRead, RecCheck, RecWrite, RecSync, vars
  <2> QED BY <2>1
<1> QED
  BY <1>1, <1>2, <1>3, <1>4, Losing DEF Next, System, Environment, Nothing

LEMMA RecoverySynced ==
  ASSUME Ground, [Next]_vars, Nothing, NEW p \in Recoverers,
         rec[p].pc \in RecWrites, rec[p].stage = "sync"
  PROVE  rec'[p] = rec[p] \/ Synced \/ Loses
<1>0. TypeInv /\ HalfInv /\ LockInv /\ rec[p].pc \in {"config", "policy", "publish", "error"}
  BY RecTables DEF Ground
<1>1. ASSUME NEW q \in Recoverers, Recovery(q) PROVE rec'[p] = rec[p] \/ Synced
  <2>1. q # p => rec'[p] = rec[p]
    BY <1>0, <1>1, RecoveryDecides
  <2>2. ASSUME q = p PROVE Synced
    <3>1. RecSync(p)
      BY <1>0, <1>1, <2>2 DEF Recovery, RecPeek, RecEngine, RecState, RecRead, RecCheck,
         RecWrite, RecAt
    <3> QED BY <1>0, <3>1, Syncing DEF RecSync, Sync, Synced, TypeInv
  <2> QED BY <2>1, <2>2
<1>2. ASSUME NEW j \in Jobs, Worker(j) PROVE rec'[p] = rec[p]
  <2>0. p = j => wk[j].pc \in {"recovering", "aborting"} /\ rec[j].pc \notin {"ok", "fail"}
    BY <1>0 DEF LockInv, JobOwned
  <2>1. CASE WorkCatch(j)
    BY <1>0, <2>0, <2>1, WorkCatchTypes DEF WorkCatch, At
  <2>2. CASE WorkRecovered(j)
    BY <1>0, <2>0, <2>2, WorkRecoveredTypes DEF WorkRecovered, Recovered
  <2>3. CASE WorkAbort(j)
    BY <1>0, <2>0, <2>3, WorkAbortTypes DEF WorkAbort, At
  <2>4. CASE WorkAborted(j)
    BY <1>0, <2>0, <2>4, WorkAbortedTypes DEF WorkAborted, Recovered
  <2>5. CASE \/ WorkContext(j) \/ WorkEngine(j) \/ WorkFirst(j) \/ WorkQuiesce(j)
             \/ WorkWrite(j) \/ WorkSync(j) \/ WorkResume(j)
    BY <2>5 DEF WorkContext, WorkEngine, WorkFirst, WorkQuiesce, WorkWrite, WorkSync, WorkResume
  <2> QED BY <1>2, <2>1, <2>2, <2>3, <2>4, <2>5 DEF Worker
<1>3. CASE InitScript
  <2>0. p = "init" => init.pc = "gate" /\ rec["init"].pc \notin {"ok", "fail"}
    BY <1>0 DEF LockInv, RecOwned
  <2>1. CASE InitBoot
    BY <1>0, <2>0, <2>1, InitBootTypes DEF InitBoot
  <2>2. CASE InitGate
    BY <1>0, <2>0, <2>2, InitGateTypes DEF InitGate, Recovered
  <2>3. CASE InitStop \/ InitStart \/ InitDone
    <3>1. CASE InitStop
      BY <1>0, <2>0, <3>1, InitStopTypes DEF InitStop
    <3>2. CASE InitStart \/ InitDone
      BY <3>2 DEF InitStart, InitDone
    <3> QED BY <2>3, <3>1, <3>2
  <2> QED BY <1>3, <2>1, <2>2, <2>3 DEF InitScript
<1>4. CASE RpcRecovered
  BY <1>0, <1>4, RpcRecoveredTypes DEF RpcRecovered, Recovered
<1>5. CASE \/ (Rpc /\ ~RpcRecovered) \/ TunnelEnds \/ Tick \/ Reload \/ Edit
           \/ (\E op \in Ops : RpcCall(op)) \/ UNCHANGED vars
  <2>1. rec' = rec
    BY <1>5 DEF Rpc, RpcLock, RpcIntent, RpcKeys, RpcWrite, RpcRestart, RpcQueue, RpcRefuse,
       RpcPrepare, RpcQueued, RpcLaunch, TunnelEnds, Tick, TickGuard, TickLock, TickWrite, TickDone,
       Reload,
       Edit, RpcCall, vars
  <2> QED BY <2>1
<1> QED
  BY <1>1, <1>2, <1>3, <1>4, <1>5, Losing DEF Next, System, Environment, Nothing

LEMMA CallSynced ==
  ASSUME Ground, [Next]_vars, Nothing, rpc.pc = "queued"
  PROVE  rpc'.pc = "queued" \/ Synced \/ Loses
<1>0. TypeInv
  BY DEF Ground
<1>1. CASE Rpc
  <2>1. RpcQueued
    BY <1>1 DEF Rpc, RpcLock, RpcIntent, RpcKeys, RpcWrite, RpcRestart, RpcQueue, RpcRefuse,
       RpcPrepare, RpcLaunch, RpcRecovered, RpcAt
  <2> QED BY <1>0, <2>1, Syncing DEF RpcQueued, Sync, Synced, TypeInv
<1>2. CASE InitDone
  BY <1>0, <1>2, InitDoneTypes
<1>3. ASSUME NEW op \in Ops, RpcCall(op) PROVE FALSE
  BY <1>3 DEF RpcCall, RpcAt
<1>4. ASSUME NEW j \in Jobs, Worker(j) PROVE rpc' = rpc
  BY <1>0, <1>4, WorkerTypes
<1>5. CASE \/ (InitScript /\ ~InitDone) \/ TunnelEnds \/ Tick \/ Reload \/ Edit
           \/ (\E p \in Recoverers : Recovery(p)) \/ UNCHANGED vars
  <2>1. rpc' = rpc
    BY <1>5 DEF InitScript, InitStop, InitBoot, InitGate, InitStart,
       TunnelEnds, Tick, TickGuard, TickLock, TickWrite, TickDone, Reload, Edit, Recovery,
       RecPeek, RecEngine, RecState, RecRead, RecCheck, RecWrite, RecSync, vars
  <2> QED BY <2>1
<1> QED
  BY <1>1, <1>2, <1>3, <1>4, <1>5, Losing DEF Next, System, Environment, Nothing

-----------------------------------------------------------------------------
(* What is on the flash behind everybody                                     *)

(* A finished job is finished for those who read its journal too.            *)
FinishedForAll == \A v \in disk.journal : Terminal(v) => mem.journal = v
(* A recovery gives up only a job that is not finished.                      *)
GivesUp(p) == rec[p].pc = "error" /\ rec[p].stage = "write" => Pending(mem.journal)

LEMMA FinishedForAllStep ==
  ASSUME Ground, JobInv, PhaseInv, Step, FinishedForAll, \A p \in Recoverers : GivesUp(p)
  PROVE  FinishedForAll'
<1>1. CASE Calm("journal") \/ Loses \/ Clears
  BY <1>1 DEF Calm, Loses, Clears, FinishedForAll, Terminal, Files
<1>2. ASSUME NEW w, Writes("journal", w), ~Terminal(mem.journal) PROVE FinishedForAll'
  BY <1>2 DEF Writes, FinishedForAll
<1>3. ASSUME NEW j \in Jobs, JobWrites(j) PROVE ~Terminal(mem.journal)
  BY <1>3, NobodyWrites
<1>4. ASSUME NEW p \in Recoverers, RecoveryWrites(p) PROVE ~Terminal(mem.journal)
  <2>1. rec[p].stage = "write"
    BY <1>4 DEF RecoveryWrites
  <2> QED BY <1>4, <2>1, NobodyWrites DEF GivesUp, Pending
<1>5. CASE mem.journal = NoJournal
  BY <1>2, <1>5, PhaseMoves, <1>1, <1>3, <1>4 DEF Terminal
<1> QED BY <1>1, <1>2, <1>3, <1>4, <1>5, PhaseMoves

LEMMA GivesUpStep ==
  ASSUME Ground, JobInv, PhaseInv, Step, ~Fault, NEW p \in Recoverers, GivesUp(p)
  PROVE  GivesUp(p)'
<1>0. RecStep(p) /\ "error" \in RecWrites
  BY RecTables DEF Step
<1>1. CASE rec'[p] = rec[p] /\ rec[p].pc = "error" /\ rec[p].stage = "write"
  <2>1. ~RecoveryWrites(p)
    BY <1>1 DEF RecoveryWrites
  <2>2. Calm("journal")
    BY <1>0, <1>1, <2>1, RecovererWorks
  <2> QED BY <1>1, <2>2 DEF GivesUp, Calm
<1>2. CASE rec'[p].pc # "error" \/ rec'[p].stage # "write"
  BY <1>2 DEF GivesUp
<1>3. CASE mem' = mem /\ Pending(mem.journal)
  BY <1>3 DEF GivesUp
<1>4. CASE mem' = mem /\ rec[p].pc \in Products
  <2>1. Pending(mem.journal)
    BY <1>4 DEF PhaseInv, Justified
  <2> QED BY <1>3, <1>4, <2>1
<1>5. CASE rec'[p].pc \notin RecWrites
  BY <1>0, <1>2, <1>5
<1>6. CASE RecoveryWrites(p)
  BY <1>2, <1>6 DEF RecoveryWrites
<1> QED BY <1>0, <1>1, <1>2, <1>3, <1>4, <1>5, <1>6 DEF RecStep

(* A product file of a job under way is on the flash unless somebody is      *)
(* about to sync it, or it is a policy that an update tick has replaced and  *)
(* no recovery will take for the job's.                                      *)
Flushed(f) ==
  Pending(mem.journal) /\ rpc.pc # "queued" =>
    \/ disk[f] = {mem[f]}
    \/ \E j \in Jobs : wk[j].pc = f /\ wk[j].syncing
    \/ \E p \in Recoverers : rec[p].pc = f /\ rec[p].stage = "sync"
    \/ f = "policy" /\ mem.policy \notin {mem.journal.before.policy, mem.journal.after.policy}

(* A job under way was under way before, or a call has just made it.         *)
LEMMA UnderWay ==
  ASSUME Ground, JobInv, PhaseInv, Step, ~Loses, Pending(mem'.journal), rpc'.pc # "queued",
         \A p \in Recoverers : GivesUp(p)
  PROVE  Pending(mem.journal) /\ Same(mem.journal, mem'.journal)
<1>1. CASE Calm("journal")
  BY <1>1 DEF Calm, Same
<1>2. ~Clears
  BY DEF Clears, Pending
<1>3. ASSUME NEW w \in Journals, NEW ph, mem.journal # NoJournal, ~Terminal(mem.journal),
             Same(mem.journal, w), Writes("journal", w) \/ Writes("journal", Phased(w, ph))
      PROVE  Pending(mem.journal) /\ Same(mem.journal, mem'.journal)
  BY <1>3, Phasing DEF Writes, Pending
<1>4. ASSUME NEW p \in Recoverers, RecoveryWrites(p), mem.journal # NoJournal
      PROVE  ~Terminal(mem.journal)
  <2>1. rec[p].stage = "write"
    BY <1>4 DEF RecoveryWrites
  <2> QED BY <1>4, <2>1, NobodyWrites DEF GivesUp, Pending
<1>5. ASSUME NEW j \in Jobs, JobWrites(j) PROVE ~Terminal(mem.journal)
  BY <1>5, NobodyWrites
<1> QED BY <1>1, <1>2, <1>3, <1>4, <1>5, PhaseMoves

LEMMA FlushedStep ==
  ASSUME Ground, Ground', JobInv, PhaseInv, TicksPast, Step, [Next]_vars, Nothing, ~Edit,
         NEW f \in Products, Flushed(f), \A p \in Recoverers : GivesUp(p)
  PROVE  Flushed(f)'
<1>0. /\ f \in Files /\ f \in {"config", "policy"} /\ mem'[f] \in disk'[f]
      /\ RecWrites = {"config", "policy", "publish", "error"}
  BY RecTables DEF Products, Files, Ground, TypeInv, FilesOK
<1>1. CASE Loses \/ Synced
  BY <1>0, <1>1 DEF Loses, Synced, Flushed
<1>2. SUFFICES ASSUME ~Loses, ~Synced, Pending(mem'.journal), rpc'.pc # "queued"
               PROVE  Flushed(f)'
  BY <1>1 DEF Flushed
<1>3. /\ Pending(mem.journal) /\ Same(mem.journal, mem'.journal) /\ rpc.pc # "queued"
      /\ mem.journal # NoJournal
  BY <1>2, UnderWay, CallSynced DEF Pending
<1>4. CASE Calm(f)
  <2>1. CASE disk[f] = {mem[f]}
    <3>1. disk'[f] = {mem'[f]}
      BY <1>0, <1>4, <2>1 DEF Calm
    <3> QED BY <3>1 DEF Flushed
  <2>2. ASSUME NEW j \in Jobs, wk[j].pc = f, wk[j].syncing PROVE Flushed(f)'
    <3>1. wk'[j] = wk[j]
      BY <1>2, <2>2, JobSynced
    <3> QED BY <2>2, <3>1 DEF Flushed
  <2>3. ASSUME NEW p \in Recoverers, rec[p].pc = f, rec[p].stage = "sync" PROVE Flushed(f)'
    <3>1. rec'[p] = rec[p]
      BY <1>0, <1>2, <2>3, RecoverySynced
    <3> QED BY <2>3, <3>1 DEF Flushed
  <2>4. CASE /\ f = "policy"
             /\ mem.policy \notin {mem.journal.before.policy, mem.journal.after.policy}
    BY <1>3, <1>4, <2>4 DEF Flushed, Calm, Same
  <2> QED BY <1>3, <2>1, <2>2, <2>3, <2>4 DEF Flushed
<1>5. ASSUME NEW j \in Jobs, JobWrites(j), wk[j].pc = f PROVE Flushed(f)'
  BY <1>5 DEF JobWrites, Flushed
<1>6. ASSUME NEW p \in Recoverers, RecoveryWrites(p), rec[p].pc = f PROVE Flushed(f)'
  BY <1>6 DEF RecoveryWrites, Flushed
<1>7. CASE f = "policy" /\ TickWrite /\ Writes("policy", Ticks)
  <2>1. Planned(mem.journal)
    BY <1>3, OnFlash DEF JobInv, JobOnFlash, Ground, TypeInv
  <2>2. Ticks \notin {mem.journal.before.policy, mem.journal.after.policy}
    BY <1>3, <1>7, <2>1, TickIsNew DEF Planned
  <2>3. mem'.policy = Ticks /\ mem'.journal = mem.journal
    BY <1>7 DEF Writes, Files
  <2>4. mem'.policy \notin {mem'.journal.before.policy, mem'.journal.after.policy}
    BY <2>2, <2>3
  <2>5. f = "policy"
    BY <1>7
  <2> QED BY <2>4, <2>5 DEF Flushed
<1> QED BY <1>2, <1>4, <1>5, <1>6, <1>7, ProductMoves

(* The document of the job is in state.json on the flash too, or about to be. *)
DocFlushed ==
  mem.journal # NoJournal /\ mem.state.body.doc = mem.journal.id =>
    \/ \A s \in disk.state : s.body.doc = mem.journal.id
    \/ \E j \in Jobs : wk[j].pc = "state" /\ wk[j].syncing

LEMMA DocFlushedStep ==
  ASSUME Ground, Ground', JobInv, PhaseInv, Step, [Next]_vars, Nothing, DocFlushed
  PROVE  DocFlushed'
<1>1. CASE Loses \/ Synced
  BY <1>1 DEF Loses, Synced, DocFlushed, Files
<1>2. SUFFICES ASSUME ~Loses, ~Synced, mem'.journal # NoJournal,
                      mem'.state.body.doc = mem'.journal.id
               PROVE  DocFlushed'
  BY <1>1 DEF DocFlushed
<1>3. ASSUME NEW j \in Jobs, JobWrites(j), wk[j].pc = "state" PROVE DocFlushed'
  BY <1>3 DEF JobWrites, DocFlushed
<1>4. CASE \A j \in Jobs : ~(JobWrites(j) /\ wk[j].pc = "state")
  <2>1. /\ mem'.state.body.doc = mem.state.body.doc
        /\ \A s \in disk'.state : s \in disk.state \/ s.body.doc = mem.state.body.doc
    BY <1>2, <1>4, DocStays
  <2>2. mem.journal # NoJournal /\ mem.journal.id = mem'.journal.id
    <3>1. CASE Calm("journal") \/ (Same(mem.journal, mem'.journal) /\ mem.journal # NoJournal)
      BY <1>2, <3>1 DEF Calm, Same
    <3>2. CASE /\ rpc.pc = "prepare" /\ mem'.journal = rpc.val
               /\ \A f \in Files : f # "journal" => mem'[f] = mem[f] /\ disk'[f] = disk[f]
      <4>1. Planned(rpc.val) /\ rpc.val.before.state = mem.state
        BY <3>2 DEF JobInv, RpcVal, Enqueued
      <4> QED BY <1>2, <2>1, <3>2, <4>1 DEF Planned, Files
    <3> QED BY <1>2, <3>1, <3>2, JournalMoves DEF JournalStep, Clears
  <2>3. CASE \A s \in disk.state : s.body.doc = mem.journal.id
    BY <1>2, <2>1, <2>2, <2>3 DEF DocFlushed
  <2>4. ASSUME NEW j \in Jobs, wk[j].pc = "state", wk[j].syncing PROVE DocFlushed'
    <3>1. wk'[j] = wk[j]
      BY <1>2, <2>4, JobSynced
    <3> QED BY <2>4, <3>1 DEF DocFlushed
  <2> QED BY <1>2, <2>1, <2>2, <2>3, <2>4 DEF DocFlushed
<1> QED BY <1>3, <1>4

(* A worker past its mark has the product files on the flash, and at its     *)
(* commit the document.                                                      *)
OutOnFlash(j) ==
  /\ wk[j].pc \in {"state", "commit"} => \A f \in Products : disk[f] = {wk[j].val.after[f]}
  /\ wk[j].pc = "commit" => \A s \in disk.state : s.body.doc = j

LEMMA OutOnFlashStep ==
  ASSUME Ground, Ground', JobInv, Step, ~Edit, NEW j \in Jobs, RolledOut(j), OutOnFlash(j)
  PROVE  OutOnFlash(j)'
<1>0. /\ JobStep(j) /\ Products = {"config", "policy"} /\ {"state", "commit"} \subseteq Section
      /\ mem.state \in disk.state /\ Products \subseteq Files
      /\ \A f \in Products : mem[f] \in disk[f] /\ mem'[f] \in disk'[f]
  BY OnFlash DEF Step, Products, Section, Ground, TypeInv, FilesOK, Files
<1>1. CASE wk'[j] = wk[j] /\ wk[j].pc \in {"state", "commit"}
  <2>1. ~JobWrites(j)
    BY <1>1 DEF JobWrites
  <2>2. /\ Calm("policy") /\ Calm("config")
        /\ \A s \in disk'.state : s \in disk.state \/ s.body.doc = mem.state.body.doc
    BY <1>0, <1>1, <2>1, BesideWorker
  <2>3. \A f \in Products : disk'[f] = {wk[j].val.after[f]}
    BY <1>0, <1>1, <2>2 DEF OutOnFlash, Calm
  <2>4. wk[j].pc = "commit" => \A s \in disk'.state : s.body.doc = j
    BY <1>0, <2>2 DEF OutOnFlash
  <2> QED BY <1>1, <2>3, <2>4 DEF OutOnFlash
<1>2. CASE wk'[j].pc \notin {"state", "commit"}
  BY <1>2 DEF OutOnFlash
<1>3. CASE JobWrites(j) /\ wk'[j].val = wk[j].val /\ wk[j].pc \in {"state", "commit"}
  <2>1. disk'.config = disk.config /\ disk'.policy = disk.policy
    BY <1>3 DEF JobWrites, Writes, Files
  <2>2. wk[j].pc = "commit" => disk'.state = disk.state
    BY <1>3 DEF JobWrites, Writes, Files
  <2> QED BY <1>0, <1>3, <2>1, <2>2 DEF OutOnFlash, JobWrites
<1>4. CASE /\ mem' = mem /\ (\A f \in Files : disk'[f] = {mem[f]})
           /\ wk'[j].val = wk[j].val /\ wk[j].syncing
           /\ \/ wk[j].pc = "mark" /\ wk'[j].pc = "state"
              \/ /\ wk[j].pc = "state" /\ wk'[j].pc = "commit"
                 /\ mem.state = wk[j].val.after.state
  <2>1. \A f \in Products : disk'[f] = {wk'[j].val.after[f]}
    BY <1>0, <1>4 DEF RolledOut, ProductsAfter
  <2>2. wk'[j].pc = "commit" => \A s \in disk'.state : s.body.doc = j
    <3>1. SUFFICES ASSUME wk[j].pc = "state", mem.state = wk[j].val.after.state
                   PROVE  mem.state.body.doc = j
      BY <1>4 DEF Files
    <3>2. wk[j].val.id = j /\ mem.journal # NoJournal /\ Same(mem.journal, wk[j].val)
      BY <1>0, <3>1 DEF JobInv, JobVal
    <3>3. Planned(wk[j].val)
      BY <3>2, OnFlash, SamePlans DEF JobInv, JobOnFlash, Ground, TypeInv
    <3> QED BY <3>1, <3>2, <3>3 DEF Planned
  <2> QED BY <2>1, <2>2 DEF OutOnFlash
<1>5. CASE wk'[j] = wk[j] /\ wk[j].pc \notin {"state", "commit"}
  BY <1>2, <1>5
<1> QED BY <1>0, <1>1, <1>2, <1>3, <1>4, <1>5 DEF JobStep, Ending, JobWrites

(* A recovery has what it has put back on the flash, or what it confirms.    *)
BackOnFlash(p) ==
  LET v == rec[p].val IN
  /\ v.phase = "CANCELLED" =>
       /\ rec[p].pc \in {"policy", "publish"} => disk.config = {v.before.config}
       /\ rec[p].pc = "publish" => disk.policy = {v.before.policy}
  /\ rec[p].pc = "publish" /\ v.phase = "COMMITTED" =>
       /\ \A f \in Products : disk[f] = {v.after[f]}
       /\ \A s \in disk.state : s.body.doc = v.id

LEMMA FlushedHere ==
  ASSUME Ground, JobInv, NEW p \in Recoverers, rec[p].pc \in Deciding,
         NEW f \in Products, rec[p].pc # f \/ rec[p].stage # "sync",
         Pending(mem.journal), Flushed(f),
         mem[f] \in {mem.journal.before[f], mem.journal.after[f]}
  PROVE  disk[f] = {mem[f]}
<1>1. /\ \A q \in Recoverers : q # p => rec[q].pc \notin Deciding
      /\ rpc.pc # "queued" /\ f \in Section /\ f \in Deciding
  BY RecovererAlone DEF Ground, Products, Section, Deciding
<1>2. \A j \in Jobs : wk[j].pc # f
  BY <1>1, NobodyElse DEF Ground
<1> QED BY <1>1, <1>2 DEF Flushed

LEMMA BackOnFlashStep ==
  ASSUME Ground, Ground', JobInv, PhaseInv, Step, ~Edit, NEW p \in Recoverers,
         RolledBack(p), BackOnFlash(p), DocFlushed, \A f \in Products : Flushed(f)
  PROVE  BackOnFlash(p)'
<1>0. /\ RecStep(p) /\ RecWrites = {"config", "policy", "publish", "error"}
      /\ Products = {"config", "policy"} /\ RecWrites \subseteq Deciding /\ "read" \in Deciding
      /\ "state" \in Files /\ Products \subseteq Files
      /\ \A f \in Products : mem[f] \in disk[f] /\ mem'[f] \in disk'[f]
  BY RecTables, Places DEF Step, Products, Files, Ground, TypeInv, FilesOK
<1>1. CASE rec'[p] = rec[p]
  <2>1. CASE rec[p].pc \in {"policy", "publish"}
    <3>1. ~RecoveryWrites(p)
      BY <1>1 DEF RecoveryWrites
    <3>2. Calm("state") /\ Calm("config") /\ Calm("policy")
      BY <1>0, <1>1, <2>1, <3>1, RecovererWorks
    <3>3. \A f \in Products : \A x : disk[f] = {x} => disk'[f] = {x}
      BY <1>0, <3>2 DEF Calm
    <3> QED BY <1>0, <1>1, <3>2, <3>3 DEF BackOnFlash, Calm
  <2>2. CASE rec[p].pc \notin {"policy", "publish"}
    BY <1>1, <2>2 DEF BackOnFlash
  <2> QED BY <2>1, <2>2
<1>2. CASE rec'[p].pc \notin {"policy", "publish"}
  BY <1>2 DEF BackOnFlash
<1>3. CASE /\ rec[p].pc = "read"
           /\ Pending(mem.journal) /\ ~Stuck(mem.journal) /\ mem.journal \in Journals
           /\ UNCHANGED <<mem, disk, wk, rpc, meddled>>
           /\ rec'[p].val = Phased(mem.journal, Verdict(mem.journal))
           /\ Verdict(mem.journal) = "COMMITTED" /\ rec'[p].pc = "publish"
  <2>1. ProductsAfter(mem.journal) /\ mem.state.body.doc = mem.journal.id
    BY <1>3, Judges
  <2>2. /\ Same(rec'[p].val, mem.journal) /\ rec'[p].val.phase = "COMMITTED"
    BY <1>3, Phasing
  <2>3. \A f \in Products : disk[f] = {mem.journal.after[f]}
    <3>1. SUFFICES ASSUME NEW f \in Products PROVE disk[f] = {mem.journal.after[f]}
      OBVIOUS
    <3>2. mem[f] = mem.journal.after[f]
      BY <2>1 DEF ProductsAfter
    <3> QED BY <1>0, <1>3, <3>2, FlushedHere
  <2>4. \A s \in disk.state : s.body.doc = mem.journal.id
    <3>1. \A j \in Jobs : wk[j].pc # "state"
      BY <1>0, <1>3, NobodyElse DEF Ground, Section
    <3> QED BY <1>3, <2>1, <3>1 DEF DocFlushed, Pending
  <2> QED BY <1>3, <2>2, <2>3, <2>4 DEF BackOnFlash, Same
<1>4. CASE /\ rec[p].pc \in Products /\ rec[p].stage = "check"
           /\ UNCHANGED <<mem, disk>> /\ rec'[p].val = rec[p].val
           /\ \/ /\ rec[p].pc = "config" /\ rec'[p].pc = "policy"
                 /\ mem.config = rec[p].val.before.config
              \/ /\ rec[p].pc = "policy" /\ rec'[p].pc = "publish"
                 /\ mem.policy = rec[p].val.before.policy
              \/ rec'[p].pc = rec[p].pc
  <2>1. /\ rec[p].val.phase = "CANCELLED" /\ Pending(mem.journal)
        /\ Same(mem.journal, rec[p].val)
    BY <1>0, <1>4 DEF PhaseInv, Justified, JobInv, RecVal
  <2>2. ASSUME NEW f \in Products, f = rec[p].pc, mem[f] = rec[p].val.before[f]
        PROVE  disk[f] = {rec[p].val.before[f]}
    <3>1. mem[f] = mem.journal.before[f]
      BY <2>1, <2>2 DEF Same
    <3>2. rec[p].stage # "sync"
      BY <1>4
    <3> QED BY <1>0, <2>1, <2>2, <3>1, <3>2, FlushedHere
  <2>3. CASE rec[p].pc = "config" /\ rec'[p].pc = "policy"
    BY <1>0, <1>4, <2>1, <2>2, <2>3 DEF BackOnFlash
  <2>4. CASE rec[p].pc = "policy" /\ rec'[p].pc = "publish"
    <3>1. disk.policy = {rec[p].val.before.policy}
      BY <1>0, <1>4, <2>2, <2>4
    <3>2. disk.config = {rec[p].val.before.config}
      BY <2>1, <2>4 DEF BackOnFlash
    <3> QED BY <1>4, <2>1, <2>4, <3>1, <3>2 DEF BackOnFlash
  <2>5. CASE rec'[p].pc = rec[p].pc
    BY <1>0, <1>4, <2>1, <2>5 DEF BackOnFlash
  <2> QED BY <1>4, <2>3, <2>4, <2>5
<1>5. CASE RecoveryWrites(p) /\ rec'[p].pc = rec[p].pc /\ rec'[p].val = rec[p].val
  <2>1. CASE rec[p].pc = "policy"
    <3>1. disk'.config = disk.config
      BY <1>0, <1>5, <2>1 DEF RecoveryWrites, Writes, Files
    <3> QED BY <1>5, <2>1, <3>1 DEF BackOnFlash
  <2>2. CASE rec[p].pc = "publish"
    <3>1. disk'.config = disk.config /\ disk'.policy = disk.policy /\ disk'.state = disk.state
      BY <1>5, <2>2 DEF RecoveryWrites, Writes, Files
    <3> QED BY <1>0, <1>5, <2>2, <3>1 DEF BackOnFlash
  <2> QED BY <1>2, <1>5, <2>1, <2>2
<1>6. CASE /\ rec[p].pc \in Products /\ rec'[p].val = rec[p].val
           /\ mem' = mem /\ (\A f \in Files : disk'[f] = {mem[f]})
           /\ \/ /\ rec[p].pc = "config" /\ rec'[p].pc = "policy"
                 /\ mem.config = rec[p].val.before.config
              \/ /\ rec[p].pc = "policy" /\ rec'[p].pc = "publish"
                 /\ mem.policy = rec[p].val.before.policy
  <2>1. rec[p].val.phase = "CANCELLED"
    BY <1>6 DEF PhaseInv, Justified
  <2>2. disk'.config = {mem.config} /\ disk'.policy = {mem.policy}
    BY <1>0, <1>6
  <2>3. rec[p].pc = "policy" => mem.config = rec[p].val.before.config
    BY <2>1 DEF RolledBack
  <2> QED BY <1>6, <2>1, <2>2, <2>3 DEF BackOnFlash
<1> QED BY <1>0, <1>1, <1>2, <1>3, <1>4, <1>5, <1>6 DEF RecStep

(* A finished job's files are settled in whatever the flash may have.        *)
SettledOnFlash ==
  \A v \in disk.journal : v # NoJournal => Settled(v, disk.state, disk.config, disk.policy)

LEMMA SettledOnFlashStep ==
  ASSUME Ground, Ground', JobInv, PhaseInv, TicksPast, Step, ~Edit, SettledOnFlash,
         FinishedForAll, \A p \in Recoverers : GivesUp(p) /\ BackOnFlash(p),
         \A j \in Jobs : OutOnFlash(j)
  PROVE  SettledOnFlash'
<1>0. /\ mem.state \in disk.state /\ mem.journal \in disk.journal
      /\ mem.config \in disk.config /\ mem.policy \in disk.policy
      /\ mem.journal # NoJournal => mem.journal \in Journals
      /\ \A f \in Files : mem'[f] \in disk'[f]
      /\ {"state", "config", "policy", "journal"} \subseteq Files
  BY OnFlash DEF Ground, TypeInv, FilesOK, Files
<1>1. SUFFICES ASSUME NEW v \in disk'.journal, v # NoJournal, Terminal(v)
               PROVE  Settled(v, disk'.state, disk'.config, disk'.policy)
  BY DEF SettledOnFlash, Settled, Terminal
<1>2. ASSUME v \in disk.journal, Loses
      PROVE  Settled(v, disk'.state, disk'.config, disk'.policy)
  <2>1. Settled(v, disk.state, disk.config, disk.policy)
    BY <1>1, <1>2 DEF SettledOnFlash
  <2>2. \A f \in Files : disk'[f] \subseteq disk[f]
    BY <1>2 DEF Loses
  <2>3. disk'.state \subseteq disk.state /\ disk'.config \subseteq disk.config
        /\ disk'.policy \subseteq disk.policy
    BY <1>0, <2>2
  <2> QED BY <2>1, <2>3 DEF Settled
<1>3. ASSUME v \in disk.journal, ~Loses
      PROVE  Settled(v, disk'.state, disk'.config, disk'.policy)
  <2>1. mem.journal = v /\ Terminal(mem.journal)
    BY <1>1, <1>3 DEF FinishedForAll
  <2>2. Settled(v, disk.state, disk.config, disk.policy)
    BY <1>1, <1>3 DEF SettledOnFlash
  <2>3. /\ Calm("config")
        /\ \/ Calm("policy")
           \/ \E t : t \notin {v.id, v.before.policy} /\ Writes("policy", t)
        /\ \A s \in disk'.state : s \in disk.state \/ s.body.doc = mem.state.body.doc
    BY <1>3, <2>1, Afterwards
  <2>4. disk'.config \subseteq disk.config
    BY <2>3 DEF Calm
  <2>5. \A p \in disk'.policy : p \in disk.policy \/ p \notin {v.id, v.before.policy}
    BY <2>3 DEF Calm, Writes
  <2> QED BY <1>0, <2>2, <2>3, <2>4, <2>5 DEF Settled
<1>4. CASE v \in disk.journal
  BY <1>2, <1>3, <1>4
<1>5. CASE v \notin disk.journal
  <2>1. /\ ~Calm("journal") /\ ~Loses /\ ~Clears
    BY <1>0, <1>1, <1>5 DEF Calm, Loses, Clears
  <2>2. ASSUME NEW w, Writes("journal", w), OnlyJournal
        PROVE  /\ v = w /\ disk'.state = disk.state /\ disk'.config = disk.config
               /\ disk'.policy = disk.policy
    BY <1>0, <1>5, <2>2 DEF Writes, OnlyJournal
  <2>3. ASSUME NEW j \in Jobs, wk[j].pc = "commit", wk[j].val \in Journals, wk[j].val.id = j,
               mem.journal # NoJournal, Same(mem.journal, wk[j].val), OnlyJournal,
               Writes("journal", Phased(wk[j].val, "COMMITTED"))
        PROVE  Settled(v, disk'.state, disk'.config, disk'.policy)
    <3>1. Planned(wk[j].val)
      BY <1>0, <2>3, SamePlans DEF JobInv, JobOnFlash
    <3>2. v.phase = "COMMITTED" /\ Same(v, wk[j].val)
      BY <2>2, <2>3, Phasing
    <3>3. /\ disk.config = {wk[j].val.after.config} /\ disk.policy = {wk[j].val.after.policy}
          /\ \A s \in disk.state : s.body.doc = j
      BY <2>3 DEF OutOnFlash, Products
    <3>4. disk'.state = disk.state /\ disk'.config = disk.config /\ disk'.policy = disk.policy
      BY <2>2, <2>3
    <3>5. v.id = j /\ v.before = wk[j].val.before /\ v.after = wk[j].val.after
      BY <2>3, <3>2 DEF Same
    <3>6. v.after.policy # v.before.policy
      BY <3>1, <3>5 DEF Planned
    <3> QED BY <3>2, <3>3, <3>4, <3>5, <3>6 DEF Settled
  <2>4. ASSUME NEW p \in Recoverers, rec[p].pc = "publish", rec[p].val \in Journals,
               mem.journal # NoJournal, Same(mem.journal, rec[p].val), OnlyJournal,
               Writes("journal", rec[p].val)
        PROVE  Settled(v, disk'.state, disk'.config, disk'.policy)
    <3>1. Planned(rec[p].val)
      BY <1>0, <2>4, SamePlans DEF JobInv, JobOnFlash
    <3>2. BackOnFlash(p) /\ v = rec[p].val
      BY <2>2, <2>4
    <3>3. disk'.state = disk.state /\ disk'.config = disk.config /\ disk'.policy = disk.policy
      BY <2>2, <2>4
    <3>4. v.after.policy = v.id /\ v.before.policy # v.id
      BY <3>1, <3>2 DEF Planned
    <3>5. v.phase = "CANCELLED" =>
            disk.config = {v.before.config} /\ disk.policy = {v.before.policy}
      BY <2>4, <3>2 DEF BackOnFlash
    <3>6. v.phase = "COMMITTED" =>
            /\ disk.config = {v.after.config} /\ disk.policy = {v.after.policy}
            /\ \A s \in disk.state : s.body.doc = v.id
      BY <2>4, <3>2 DEF BackOnFlash, Products
    <3> QED BY <3>3, <3>4, <3>5, <3>6 DEF Settled
  <2>5. ASSUME NEW w \in Journals, NEW ph, ph \notin {"COMMITTED", "CANCELLED"},
               Writes("journal", Phased(w, ph)), OnlyJournal
        PROVE  FALSE
    <3>1. v = Phased(w, ph)
      BY <2>2, <2>5
    <3> QED BY <1>1, <2>5, <3>1, Phasing DEF Terminal
  <2>6. ASSUME Writes("journal", rpc.val), rpc.val.phase = "PREPARED"
        PROVE  FALSE
    BY <1>1, <1>5, <2>6 DEF Writes, Terminal
  <2> QED BY <2>1, <2>3, <2>4, <2>5, <2>6, PhaseMoves
<1> QED BY <1>4, <1>5

FlashInv ==
  Unedited /\ Unfailing =>
    /\ FinishedForAll /\ DocFlushed /\ SettledOnFlash
    /\ \A f \in Products : Flushed(f)
    /\ \A j \in Jobs : OutOnFlash(j)
    /\ \A p \in Recoverers : GivesUp(p) /\ BackOnFlash(p)

LEMMA InitFlash ==
  ASSUME Init
  PROVE  FlashInv
<1>1. mem.journal = NoJournal /\ disk.journal = {NoJournal}
  <2>1. mem.journal = NoJournal /\ disk = [f \in Files |-> {mem[f]}]
    BY DEF Init
  <2> QED BY <2>1 DEF Files
<1>2. /\ \A j \in Jobs : wk[j].pc = "off"
      /\ \A p \in Recoverers : rec[p].pc = "off"
  BY DEF Init, NoWorker, NotRecovering
<1> QED
  BY <1>1, <1>2 DEF FlashInv, FinishedForAll, Terminal, DocFlushed, SettledOnFlash, Flushed,
     Pending, OutOnFlash, GivesUp, BackOnFlash

LEMMA FlashStep ==
  ASSUME Ground, JobInv, PhaseInv, WholeInv, FlashInv, [Next]_vars
  PROVE  FlashInv'
<1>1. Ground' /\ Step /\ TypeInv /\ TypeInv'
  BY PhaseStep DEF Ground
<1>2. SUFFICES ASSUME Unedited', Unfailing'
               PROVE  /\ FinishedForAll' /\ DocFlushed' /\ SettledOnFlash'
                      /\ \A f \in Products : Flushed(f)'
                      /\ \A j \in Jobs : OutOnFlash(j)'
                      /\ \A p \in Recoverers : GivesUp(p)' /\ BackOnFlash(p)'
  BY DEF FlashInv
<1>3. Unedited /\ Unfailing /\ ~Edit /\ ~Fault /\ Nothing
  BY <1>1, <1>2, Sparing DEF Nothing
<1>4. /\ TicksPast /\ FinishedForAll /\ DocFlushed /\ SettledOnFlash
      /\ \A f \in Products : Flushed(f)
      /\ \A j \in Jobs : OutOnFlash(j) /\ RolledOut(j)
      /\ \A p \in Recoverers : GivesUp(p) /\ BackOnFlash(p) /\ RolledBack(p)
  BY <1>3 DEF FlashInv, WholeInv, RollInv
<1>5. FinishedForAll' /\ DocFlushed' /\ SettledOnFlash'
  BY <1>1, <1>3, <1>4, FinishedForAllStep, DocFlushedStep, SettledOnFlashStep
<1>6. \A f \in Products : Flushed(f)'
  BY <1>1, <1>3, <1>4, FlushedStep
<1>7. \A j \in Jobs : OutOnFlash(j)'
  BY <1>1, <1>3, <1>4, OutOnFlashStep
<1>8. \A p \in Recoverers : GivesUp(p)' /\ BackOnFlash(p)'
  BY <1>1, <1>3, <1>4, GivesUpStep, BackOnFlashStep
<1> QED BY <1>5, <1>6, <1>7, <1>8

(* DurablyWhole: the syncs of backup-service.uc.  As long as no process is   *)
(* killed, no write or sync fails and nobody else commits                    *)
(* /etc/config/foxhole, whatever combination of files a power loss may leave *)
(* on the flash, at any step of any job, recovery, call or update tick, a    *)
(* journal that says finished stands beside a whole triple; however often    *)
(* the power is lost.  A death, or a failed sync, ends the promise: the run  *)
(* torn shows what a power loss makes of it.                                 *)
THEOREM RestoresAreDurable == Spec => [](Unedited /\ Unfailing => DurablyWhole)
<1> DEFINE Inv == Ground /\ JobInv /\ PhaseInv /\ WholeInv /\ FlashInv
<1>1. Init => Inv
  BY InitGround, InitPhase, InitWhole, InitFlash
<1>2. Inv /\ [Next]_vars => Inv'
  BY PhaseStep, WholeStep, FlashStep
<1>3. Inv => (Unedited /\ Unfailing => DurablyWhole)
  <2>1. SUFFICES ASSUME Inv, Unedited, Unfailing, NEW v \in disk.journal, Terminal(v),
                        NEW s \in disk.state, NEW c \in disk.config, NEW p \in disk.policy
                 PROVE  Whole(v, s, c, p)
    BY DEF DurablyWhole
  <2>2. Settled(v, {s}, {c}, {p})
    BY <2>1 DEF FlashInv, SettledOnFlash, Settled, Terminal
  <2> QED BY <2>1, <2>2, SettledIsWhole
<1> QED
  BY <1>1, <1>2, <1>3, PTL DEF Spec

-----------------------------------------------------------------------------
(* A restore is one change of the settings                                   *)

LEMMA Amounts ==
  ASSUME NEW v, NEW s, NEW c, NEW p
  PROVE  /\ Pending(v) /\ s.body.doc # v.id =>
              Amount(v, s, c, p) = [state |-> s, config |-> v.before.config,
                                    policy |-> v.before.policy]
         /\ ~Pending(v) \/ s.body.doc = v.id =>
              Amount(v, s, c, p) = [state |-> s, config |-> c, policy |-> p]
  BY DEF Amount

LEMMA PlannedState ==
  ASSUME NEW v \in Journals, Planned(v)
  PROVE  v.after.state = [rev |-> v.before.state.rev + 1, active |-> Docs[v.id].active,
                          body |-> [doc |-> v.id, edits |-> 0, cut |-> FALSE]]
<1>1. v.after.state \in States
  BY JournalTypes
<1> QED BY <1>1 DEF Planned, States

(* Whatever somebody publishes in the journal, the settings are the same     *)
(* before and after: the files a phase stands on are there.                  *)
LEMMA PhasesLeaveSettings ==
  ASSUME Ground, JobInv, PhaseInv, Step, ~Loses, ~Calm("journal"), ~Stuck(mem'.journal),
         \A j \in Jobs : RolledOut(j), \A p \in Recoverers : RolledBack(p)
  PROVE  InForce' = InForce /\ mem'.state = mem.state
<1> DEFINE u == mem.journal
<1>1. CASE Clears
  <2>1. ~Pending(u) /\ mem'.journal = NoJournal
    BY <1>1 DEF Clears, RpcQueue
  <2>2. mem'.state = mem.state /\ mem'.config = mem.config /\ mem'.policy = mem.policy
    BY <1>1 DEF Clears, Calm, Files
  <2>3. ~Pending(mem'.journal)
    BY <2>1 DEF Pending
  <2> QED BY <2>1, <2>2, <2>3, Amounts DEF InForce
<1>2. ASSUME NEW w, OnlyJournal, Writes("journal", w), Same(u, w), Pending(u), Pending(w)
      PROVE  InForce' = InForce
  <2>1. mem'.journal = w /\ w.id = u.id /\ w.before = u.before
    BY <1>2 DEF Writes, Same
  <2> QED BY <1>2, <2>1, Amounts DEF InForce, OnlyJournal
<1>3. ASSUME NEW w, OnlyJournal, Writes("journal", w), Same(u, w), Pending(u), ~Pending(w),
             \/ mem.state.body.doc = w.id
             \/ mem.config = w.before.config /\ mem.policy = w.before.policy
      PROVE  InForce' = InForce
  <2>1. mem'.journal = w /\ w.id = u.id /\ w.before = u.before
    BY <1>3 DEF Writes, Same
  <2> QED BY <1>3, <2>1, Amounts DEF InForce, OnlyJournal
<1>4. ASSUME NEW j \in Jobs, JobWrites(j), wk[j].val \in Journals, wk[j].val.id = j,
             u # NoJournal, Same(u, wk[j].val), OnlyJournal,
             \/ wk[j].pc = "apply" /\ Writes("journal", Phased(wk[j].val, "APPLYING"))
             \/ wk[j].pc = "mark" /\ Writes("journal", Phased(wk[j].val, "STATE_COMMITTING"))
             \/ wk[j].pc = "commit" /\ Writes("journal", Phased(wk[j].val, "COMMITTED"))
      PROVE  InForce' = InForce
  <2>1. Pending(u)
    BY <1>4, NobodyWrites DEF Pending
  <2>2. ASSUME NEW ph \in Phases
        PROVE  /\ Same(u, Phased(wk[j].val, ph)) /\ Phased(wk[j].val, ph).id = j
               /\ Pending(Phased(wk[j].val, ph)) <=> ph \notin {"COMMITTED", "CANCELLED"}
    <3>1. Phased(wk[j].val, ph) \in Journals
      BY <1>4, JournalTypes DEF Phased
    <3>2. Phased(wk[j].val, ph) # NoJournal
      BY <3>1, AbsentAssumption
    <3>3. /\ Same(u, Phased(wk[j].val, ph)) /\ Phased(wk[j].val, ph).phase = ph
          /\ Same(Phased(wk[j].val, ph), wk[j].val)
      BY <1>4, Phasing
    <3> QED BY <1>4, <3>2, <3>3 DEF Pending, Terminal, Same
  <2>3. CASE wk[j].pc = "apply" /\ Writes("journal", Phased(wk[j].val, "APPLYING"))
    BY <1>2, <1>4, <2>1, <2>2, <2>3 DEF Phases
  <2>4. CASE wk[j].pc = "mark" /\ Writes("journal", Phased(wk[j].val, "STATE_COMMITTING"))
    BY <1>2, <1>4, <2>1, <2>2, <2>4 DEF Phases
  <2>5. CASE wk[j].pc = "commit" /\ Writes("journal", Phased(wk[j].val, "COMMITTED"))
    <3>1. mem.state.body.doc = j
      BY <2>5 DEF RolledOut
    <3> QED BY <1>3, <1>4, <2>1, <2>2, <2>5, <3>1 DEF Phases
  <2> QED BY <1>4, <2>3, <2>4, <2>5
<1>5. ASSUME NEW p \in Recoverers, RecoveryWrites(p), rec[p].pc = "publish",
             rec[p].val \in Journals, rec[p].val.phase \in {"CANCELLED", "COMMITTED"},
             Same(u, rec[p].val), OnlyJournal, Writes("journal", rec[p].val)
      PROVE  InForce' = InForce
  <2>1. Pending(u)
    BY <1>5 DEF RecoveryWrites, PhaseInv, Justified
  <2>2. ~Pending(rec[p].val)
    BY <1>5, AbsentAssumption DEF Pending, Terminal
  <2>3. RolledBack(p)
    OBVIOUS
  <2>4. \/ mem.state.body.doc = rec[p].val.id
        \/ mem.config = rec[p].val.before.config /\ mem.policy = rec[p].val.before.policy
    BY <1>5, <2>3 DEF RolledBack
  <2> QED BY <1>3, <1>5, <2>1, <2>2, <2>4
<1>6. ASSUME NEW w \in Journals, Writes("journal", Phased(w, "RECOVERY_REQUIRED"))
      PROVE  FALSE
  <2>1. mem'.journal = Phased(w, "RECOVERY_REQUIRED")
    BY <1>6 DEF Writes
  <2>2. Phased(w, "RECOVERY_REQUIRED") \in Journals
    BY <1>6, JournalTypes DEF Phased, Phases
  <2> QED BY <2>1, <2>2, Phasing, AbsentAssumption DEF Stuck
<1>7. ASSUME mem.journal = NoJournal, rpc.val \in Journals, OnlyJournal,
             Writes("journal", rpc.val),
             mem.config = rpc.val.before.config, mem.policy = rpc.val.before.policy
      PROVE  InForce' = InForce
  <2>1. ~Pending(u) /\ mem'.journal = rpc.val
    BY <1>7 DEF Pending, Writes
  <2> QED BY <1>7, <2>1, Amounts DEF InForce, OnlyJournal
<1>8. InForce' = InForce
  BY <1>1, <1>4, <1>5, <1>6, <1>7, PhaseMoves
<1>9. mem'.state = mem.state
  <2>1. CASE Clears
    BY <2>1 DEF Clears, Calm, Files
  <2>2. CASE OnlyJournal
    BY <2>2 DEF OnlyJournal
  <2> QED BY <2>1, <2>2, PhaseMoves
<1> QED BY <1>8, <1>9

(* state.json becomes a document's with everything else of it at once, or a  *)
(* call makes it newer.                                                      *)
LEMMA StateMovesSettings ==
  ASSUME Ground, JobInv, PhaseInv, Step, ~Loses, ~Calm("state"), \A j \in Jobs : RolledOut(j)
  PROVE  InMemory!Restore \/ InMemory!Serve
<1> DEFINE u == mem.journal
<1>1. ASSUME NEW j \in Jobs, wk[j].pc = "state", wk[j].val \in Journals, wk[j].val.id = j,
             Planned(wk[j].val), u # NoJournal, Same(u, wk[j].val), Fresh(wk[j].val),
             ~wk[j].syncing, Writes("state", wk[j].val.after.state)
      PROVE  InMemory!Restore
  <2> DEFINE v == wk[j].val
  <2>1. u.id = j /\ u.before = v.before /\ u.after = v.after
    BY <1>1 DEF Same
  <2>2. u.phase = "STATE_COMMITTING"
    BY <1>1 DEF PhaseInv, Marked
  <2>3. Pending(u)
    BY <1>1, <2>2 DEF Pending, Terminal
  <2>4. mem.state = v.before.state /\ v.before.state.body.doc # j
    BY <1>1 DEF Fresh, Planned
  <2>5. InForce = [state |-> mem.state, config |-> v.before.config, policy |-> v.before.policy]
    BY <2>1, <2>3, <2>4, Amounts DEF InForce
  <2>6. /\ mem'.state = v.after.state /\ mem'.journal = u
        /\ mem'.config = mem.config /\ mem'.policy = mem.policy
    BY <1>1 DEF Writes, Files
  <2>7. mem.config = v.after.config /\ mem.policy = v.after.policy
    BY <1>1 DEF RolledOut, ProductsAfter, Products
  <2>8. v.after.state.body.doc = j /\ v.after.config = Docs[j].panel /\ v.after.policy = j
    BY <1>1 DEF Planned
  <2>9. InForce' = [state |-> v.after.state, config |-> Docs[j].panel, policy |-> j]
    BY <2>1, <2>6, <2>7, <2>8, Amounts DEF InForce
  <2>10. v.after.state = [rev |-> mem.state.rev + 1, active |-> Docs[j].active,
                          body |-> [doc |-> j, edits |-> 0, cut |-> FALSE]]
    BY <1>1, <2>4, PlannedState
  <2>11. InForce.state = mem.state
    BY <2>5
  <2>12. InForce' = InMemory!Restored(InForce, j)
    BY <2>9, <2>10, <2>11 DEF InMemory!Restored
  <2>13. InForce.state.body.doc # j
    BY <2>4, <2>11
  <2> QED BY <2>12, <2>13 DEF InMemory!Restore
<1>2. ASSUME RpcWrite, NEW s \in NewStates(mem.state), s # mem.state, Writes("state", s)
      PROVE  InMemory!Serve
  <2>1. s.rev = mem.state.rev + 1 /\ s.body.doc = mem.state.body.doc
    BY <1>2, CallsGoOn DEF Ground
  <2>2. /\ mem'.state = s /\ mem'.journal = u
        /\ mem'.config = mem.config /\ mem'.policy = mem.policy
    BY <1>2 DEF Writes, Files
  <2>3. InForce.state = mem.state /\ InForce'.state = s
    BY <2>2 DEF InForce, Amount
  <2>4. InForce' = [InForce EXCEPT !.state = s]
    <3>1. CASE Pending(u) /\ mem.state.body.doc # u.id
      BY <2>1, <2>2, <3>1, Amounts DEF InForce
    <3>2. CASE ~Pending(u) \/ mem.state.body.doc = u.id
      BY <2>1, <2>2, <3>2, Amounts DEF InForce
    <3> QED BY <3>1, <3>2
  <2> QED BY <2>1, <2>3, <2>4 DEF InMemory!Serve
<1> QED BY <1>1, <1>2, StateMoves DEF StateStep

(* What a job does to a product file does not count before its commit.       *)
LEMMA ProductsMoveSettings ==
  ASSUME Ground, JobInv, PhaseInv, Step, ~Loses, ~Edit, Calm("journal"), Calm("state"),
         ~Stuck(mem.journal)
  PROVE  InForce' = InForce \/ InMemory!Retime
<1> DEFINE u == mem.journal
<1>1. mem'.journal = u /\ mem'.state = mem.state
  BY DEF Calm
<1>2. CASE Pending(u) /\ mem.state.body.doc # u.id
  BY <1>1, <1>2, Amounts DEF InForce
<1>3. ASSUME ~(Pending(u) /\ mem.state.body.doc # u.id), NEW f \in Products
      PROVE  mem'[f] = mem[f] \/ (f = "policy" /\ TickWrite /\ Writes("policy", Ticks))
  <2>1. ASSUME NEW j \in Jobs, JobWrites(j), wk[j].pc = f, wk[j].val.id = j,
               u # NoJournal, Same(u, wk[j].val)
        PROVE  FALSE
    <3>1. wk[j].pc \in {"config", "policy"} /\ u.id = j
      BY <2>1 DEF Products, Same
    <3>2. Pending(u)
      BY <3>1 DEF Ground, HalfInv, PendingWork, Early, Late
    <3>3. u \in disk.journal /\ mem.state \in disk.state /\ u \in Journals
      BY <2>1, OnFlash, FileTypes DEF Ground, TypeInv
    <3>4. u.phase \notin {"STATE_COMMITTING", "COMMITTED", "CANCELLED", "RECOVERY_REQUIRED"}
      BY <2>1, <3>1, <3>2, <3>3 DEF PhaseInv, Unmarked, Young, Pending, Terminal, Stuck
    <3>5. u.phase \in {"PREPARED", "APPLYING"}
      BY <3>3, <3>4 DEF Journals, Phases
    <3>6. mem.state.body.doc # u.id
      BY <2>1, <3>3, <3>5 DEF PhaseInv, NotYet
    <3> QED BY <1>3, <3>2, <3>6
  <2>2. ASSUME NEW p \in Recoverers, RecoveryWrites(p), rec[p].pc = f, Same(u, rec[p].val),
               rec[p].val.phase = "CANCELLED"
        PROVE  FALSE
    <3>1. Pending(u) /\ mem.state.body.doc # rec[p].val.id
      BY <2>2 DEF PhaseInv, Justified, Products
    <3> QED BY <1>3, <2>2, <3>1 DEF Same
  <2> QED BY <2>1, <2>2, ProductMoves DEF Calm
<1>4. ASSUME ~(Pending(u) /\ mem.state.body.doc # u.id)
      PROVE  InForce' = InForce \/ InMemory!Retime
  <2>1. mem'.config = mem.config /\ (mem'.policy = mem.policy \/ mem'.policy = Ticks)
    BY <1>3, <1>4 DEF Products, Writes
  <2>2. InForce = [state |-> mem.state, config |-> mem.config, policy |-> mem.policy]
    BY <1>4, Amounts DEF InForce
  <2>3. InForce' = [state |-> mem.state, config |-> mem.config, policy |-> mem'.policy]
    BY <1>1, <1>4, <2>1, Amounts DEF InForce
  <2>4. CASE mem'.policy = mem.policy
    BY <2>2, <2>3, <2>4
  <2>5. CASE mem'.policy = Ticks
    <3>1. Ticks \in Nat
      BY BackupAssumption DEF Ground, TypeInv, BudgetOK, Spent, Ticks
    <3>2. InForce'.policy = Ticks
      BY <2>3, <2>5
    <3>3. InForce' = [InForce EXCEPT !.policy = InForce'.policy]
      BY <2>2, <2>3
    <3> QED BY <3>1, <3>2, <3>3 DEF InMemory!Retime
  <2> QED BY <2>1, <2>4, <2>5
<1> QED BY <1>2, <1>4

LEMMA SettingsMove ==
  ASSUME Ground, JobInv, PhaseInv, Step, ~Loses, ~Edit, ~Stuck(mem'.journal),
         \A j \in Jobs : RolledOut(j), \A p \in Recoverers : RolledBack(p)
  PROVE  \/ InForce' = InForce /\ mem'.state = mem.state
         \/ InMemory!Restore \/ InMemory!Serve \/ InMemory!Retime
<1>1. CASE ~Calm("journal")
  BY <1>1, PhasesLeaveSettings
<1>2. CASE ~Calm("state")
  BY <1>2, StateMovesSettings
<1>3. CASE Calm("journal") /\ Calm("state")
  <2>1. mem'.journal = mem.journal /\ mem'.state = mem.state
    BY <1>3 DEF Calm
  <2> QED BY <1>3, <2>1, ProductsMoveSettings
<1> QED BY <1>1, <1>2, <1>3

(* RestoresAtOnce: run_backup(), recover_locked() and prepare_job().  A      *)
(* restore is one change of state, options and policy together, made from    *)
(* the state it replaces, or none at all, and beside it only rpcd's calls    *)
(* and the update ticks change anything - whichever process dies or fails on *)
(* the way, until somebody else commits the panel options, the power goes or *)
(* the journal says RECOVERY_REQUIRED.                                       *)
THEOREM RestoresImplementSettings == Spec => RestoresAtOnce
<1> DEFINE Inv == Ground /\ JobInv /\ PhaseInv /\ WholeInv
<1>1. Init => Inv /\ InMemory!SInit
  BY InitGround, InitPhase, InitWhole DEF InMemory!SInit
<1>2. Inv /\ [Next]_vars => Inv' /\ [InMemory!SNext]_(InMemory!svars)
  <2> SUFFICES ASSUME Inv, [Next]_vars PROVE Inv' /\ InMemory!SNext
    OBVIOUS
  <2>1. Inv' /\ Ground /\ Step /\ TypeInv /\ TypeInv'
    BY PhaseStep, WholeStep DEF Ground
  <2>2. CASE budget'.edits # MaxEdits \/ budget'.losses # MaxLosses \/ Stuck(mem'.journal)
    BY <2>1, <2>2 DEF InMemory!SNext
  <2>3. CASE budget'.edits = MaxEdits /\ budget'.losses = MaxLosses /\ ~Stuck(mem'.journal)
    <3>1. Unedited /\ ~Edit /\ ~Loses
      BY <2>1, <2>3, Sparing DEF Unedited, Lossless, Loses
    <3>2. \/ InForce' = InForce
          \/ InMemory!Restore \/ InMemory!Serve \/ InMemory!Retime
      BY <2>1, <2>3, <3>1, SettingsMove DEF WholeInv, RollInv
    <3>3. CASE InForce' = InForce
      BY <2>1, <3>3 DEF InMemory!SNext, InMemory!Flush
    <3>4. CASE InMemory!Restore \/ InMemory!Serve \/ InMemory!Retime
      BY <2>1, <3>4 DEF InMemory!SNext, InMemory!Change
    <3> QED BY <3>2, <3>3, <3>4
  <2> QED BY <2>2, <2>3
<1> QED
  BY <1>1, <1>2, PTL DEF Spec, RestoresAtOnce, InMemory!SSpec

-----------------------------------------------------------------------------
(* A power loss leaves the settings of one moment                            *)

(* Whoever edits or fails meddles.                                           *)
MeddlingShows == ~meddled => Unedited /\ budget.faults = MaxFaults

LEMMA MeddlingShowsStep ==
  ASSUME TypeInv, MeddlingShows, [Next]_vars, meddled => meddled'
  PROVE  MeddlingShows'
<1>1. SUFFICES ASSUME ~meddled'
               PROVE  budget'.edits = MaxEdits /\ budget'.faults = MaxFaults
  BY DEF MeddlingShows, Unedited
<1>2. budget.edits = MaxEdits /\ budget.faults = MaxFaults /\ ~Edit /\ ~Fault
  BY <1>1 DEF MeddlingShows, Unedited, Edit, Fault
<1>3. DOMAIN budget = Spent /\ "edits" \in Spent /\ "faults" \in Spent
  BY DEF TypeInv, BudgetOK, Spent
<1>4. CASE UNCHANGED budget
  BY <1>2, <1>4
<1>5. CASE \E b \in Spent \ {"edits", "faults"} : Spending(b)
  BY <1>2, <1>3, <1>5 DEF Spending
<1>6. CASE \/ TickGuard \/ RpcdDies \/ PowerLoss \/ Reload
           \/ (\E j \in Jobs : WorkerDies(j)) \/ (\E op \in Ops : RpcCall(op))
  <2>1. CASE TickGuard \/ RpcdDies \/ Reload
    BY <1>5, <2>1 DEF TickGuard, RpcdDies, Reload, Spending, Spent
  <2>2. CASE PowerLoss
    BY <1>5, <2>2 DEF PowerLoss, Spending, Spent
  <2>3. ASSUME NEW j \in Jobs, WorkerDies(j) PROVE budget'.edits = MaxEdits /\ budget'.faults = MaxFaults
    BY <1>5, <2>3 DEF WorkerDies, Spending, Spent
  <2>4. ASSUME NEW op \in Ops, RpcCall(op) PROVE budget'.edits = MaxEdits /\ budget'.faults = MaxFaults
    BY <1>5, <2>4 DEF RpcCall, Spending, Spent
  <2> QED BY <1>6, <2>1, <2>2, <2>3, <2>4
<1>7. CASE Rpc
  <2>1. CASE RpcLock \/ RpcIntent \/ RpcKeys \/ RpcWrite \/ RpcRestart
    BY <1>4, <2>1 DEF RpcLock, RpcIntent, RpcKeys, RpcWrite, RpcRestart
  <2>2. CASE RpcQueue \/ RpcRefuse \/ RpcPrepare \/ RpcQueued \/ RpcLaunch \/ RpcRecovered
    BY <1>4, <2>2 DEF RpcQueue, RpcRefuse, RpcPrepare, RpcQueued, RpcLaunch, RpcRecovered
  <2> QED BY <1>7, <2>1, <2>2 DEF Rpc
<1>8. CASE InitScript \/ TunnelEnds \/ TickLock \/ TickWrite \/ TickDone \/ UNCHANGED vars
  BY <1>4, <1>8 DEF InitScript, InitStop, InitBoot, InitGate, InitStart, InitDone, TunnelEnds,
     TickLock, TickWrite, TickDone, vars
<1>9. CASE \E j \in Jobs : Worker(j)
  BY <1>4, <1>9 DEF Worker, WorkContext, WorkEngine, WorkFirst, WorkQuiesce, WorkWrite, WorkSync,
     WorkCatch, WorkRecovered, WorkResume, WorkAbort, WorkAborted
<1>10. CASE \E p \in Recoverers : Recovery(p)
  BY <1>4, <1>10 DEF Recovery, RecPeek, RecEngine, RecState, RecRead, RecCheck, RecWrite, RecSync
<1> QED BY <1>2, <1>6, <1>7, <1>8, <1>9, <1>10 DEF Next, System, Environment, Tick

(* Until the sync of prepare_job() the flash may have a new journal or none, *)
(* with the product files as the journal found them.                         *)
Announced ==
  NoJournal \in disk.journal /\ mem.journal # NoJournal =>
    /\ rpc.pc = "queued" /\ mem.journal.phase = "PREPARED"
    /\ \A f \in Products : disk[f] = {mem.journal.before[f]}

LEMMA AnnouncedStep ==
  ASSUME Ground, Ground', JobInv, PhaseInv, Peace, Step, [Next]_vars, Nothing, ~meddled',
         Announced
  PROVE  Announced'
<1>0. /\ \A f \in Products : mem[f] \in disk[f] /\ mem'[f] \in disk'[f]
      /\ mem.journal \in disk.journal
      /\ Products = {"config", "policy"} /\ {"config", "policy", "journal"} \subseteq Files
  BY OnFlash DEF Ground, TypeInv, FilesOK, Files, Products
<1>1. CASE Loses \/ Synced
  <2>1. disk'.journal = {mem'.journal}
    BY <1>1 DEF Loses, Synced, Files
  <2> QED BY <2>1 DEF Announced
<1>2. CASE ~Loses /\ ~Synced /\ NoJournal \in disk.journal /\ mem.journal # NoJournal
  <2>1. rpc.pc = "queued" /\ mem.journal.phase = "PREPARED"
        /\ \A f \in Products : disk[f] = {mem.journal.before[f]}
    BY <1>2 DEF Announced
  <2>2. rpc'.pc = "queued"
    BY <1>2, <2>1, CallSynced
  <2>3. Calm("journal") \/ Clears
    BY <1>2, <2>1, JournalMoves DEF JournalStep
  <2>4. CASE Clears
    BY <2>4 DEF Clears, Announced
  <2>5. CASE Calm("journal")
    <3>1. ASSUME NEW f \in Products PROVE disk'[f] = {mem.journal.before[f]}
      <4>1. ASSUME NEW j \in Jobs, JobWrites(j) PROVE FALSE
        BY <2>1, <4>1, NobodyElse DEF Ground, JobWrites
      <4>2. ASSUME NEW p \in Recoverers, RecoveryWrites(p) PROVE FALSE
        BY <2>1, <4>2, RecovererAlone, Places DEF Ground, RecoveryWrites
      <4>3. Calm(f)
        BY <1>2, <4>1, <4>2, OwnMoves
      <4> QED BY <1>0, <2>1, <4>3 DEF Calm
    <3> QED BY <2>1, <2>2, <2>5, <3>1 DEF Announced, Calm
  <2> QED BY <2>3, <2>4, <2>5
<1>3. CASE mem.journal # NoJournal /\ NoJournal \notin disk.journal /\ ~Loses
  <2>1. NoJournal \notin disk'.journal \/ mem'.journal = NoJournal
    BY <1>0, <1>3, JournalMoves, AbsentAssumption DEF JournalStep, Calm, Clears
  <2> QED BY <2>1 DEF Announced
<1>4. CASE mem.journal = NoJournal /\ ~Loses
  <2>1. CASE Calm("journal") \/ Clears
    BY <1>4, <2>1 DEF Calm, Clears, Announced
  <2>2. CASE /\ rpc'.pc = "queued" /\ rpc.val.phase = "PREPARED" /\ OnlyJournal
             /\ mem.config = rpc.val.before.config /\ mem.policy = rpc.val.before.policy
             /\ Writes("journal", rpc.val)
    <3>1. mem'.journal = rpc.val
      BY <2>2 DEF Writes
    <3>2. disk.config = {mem.config} /\ disk.policy = {mem.policy}
      BY <1>0, <1>4 DEF Peace, OwnFiles
    <3>3. disk'.config = {rpc.val.before.config} /\ disk'.policy = {rpc.val.before.policy}
      BY <2>2, <3>2 DEF OnlyJournal
    <3> QED BY <1>0, <2>2, <3>1, <3>3 DEF Announced
  <2> QED BY <1>4, <2>1, <2>2, PhaseMoves
<1> QED BY <1>1, <1>2, <1>3, <1>4

(* What the files amount to with one of the states on the flash.             *)
With(s) ==
  LET u == mem.journal IN
  IF u = NoJournal THEN [state |-> s, config |-> mem.config, policy |-> mem.policy]
  ELSE IF s.body.doc = u.id
  THEN [state |-> s, config |-> u.after.config, policy |-> u.after.policy]
  ELSE [state |-> s, config |-> u.before.config, policy |-> u.before.policy]
(* It is the same whatever the flash has of the other files.                 *)
Uniform ==
  \A v \in disk.journal, s \in disk.state, c \in disk.config, p \in disk.policy :
    Amount(v, s, c, p) = With(s)
FlashOK == Ground /\ JobInv /\ PhaseInv /\ Peace /\ SettledOnFlash /\ Announced

LEMMA OneAmount ==
  FlashOK => Uniform
<1> SUFFICES ASSUME FlashOK, NEW v \in disk.journal, NEW s \in disk.state,
                    NEW c \in disk.config, NEW p \in disk.policy
             PROVE  Amount(v, s, c, p) = With(s)
  BY DEF Uniform
<1> DEFINE u == mem.journal
<1>0. /\ u \in disk.journal /\ "config" \in Products /\ "policy" \in Products
      /\ \A w \in disk.journal : w # NoJournal => w \in Journals
  BY OnFlash DEF FlashOK, Ground, TypeInv, Products
<1>1. CASE u = NoJournal
  <2>1. v = NoJournal
    BY <1>1 DEF FlashOK, JobInv, JobOnFlash
  <2>2. c = mem.config /\ p = mem.policy
    BY <1>0, <1>1 DEF FlashOK, Peace, OwnFiles
  <2>3. ~Pending(v)
    BY <2>1 DEF Pending
  <2> QED BY <1>1, <2>2, <2>3, Amounts DEF With
<1>2. CASE u # NoJournal /\ v # NoJournal
  <2>1. v.id = u.id /\ v.before = u.before /\ v.after = u.after /\ Planned(v) /\ v \in Journals
    BY <1>0, <1>2 DEF FlashOK, JobInv, JobOnFlash, Same
  <2>2. c \in {v.before.config, v.after.config} /\ p \in {v.before.policy, v.after.policy}
    BY <1>0, <1>2, <2>1 DEF FlashOK, Peace, OwnFiles
  <2>3. Settled(v, disk.state, disk.config, disk.policy)
    BY <1>2 DEF FlashOK, SettledOnFlash
  <2>4. v.phase \in {"PREPARED", "APPLYING", "STATE_COMMITTING", "COMMITTED", "CANCELLED"}
    BY <1>2, <2>1 DEF FlashOK, Peace, NoneStuck, Stuck, Journals, Phases
  <2>5. CASE v.phase \in {"PREPARED", "APPLYING"}
    <3>1. Pending(v) /\ s.body.doc # v.id
      BY <1>2, <2>5 DEF Pending, Terminal, FlashOK, PhaseInv, NotYet
    <3> QED BY <1>2, <2>1, <3>1, Amounts DEF With
  <2>6. CASE v.phase = "STATE_COMMITTING"
    <3>1. Pending(v)
      BY <1>2, <2>6 DEF Pending, Terminal
    <3>2. CASE s.body.doc # v.id
      BY <1>2, <2>1, <3>1, <3>2, Amounts DEF With
    <3>3. CASE s.body.doc = v.id
      <4>1. c = v.after.config /\ p = v.after.policy
        BY <1>0, <1>2, <2>6, <3>3 DEF FlashOK, Peace, Decidable
      <4> QED BY <1>2, <2>1, <3>3, <4>1, Amounts DEF With
    <3> QED BY <3>2, <3>3
  <2>7. CASE v.phase = "COMMITTED"
    <3>1. ~Pending(v)
      BY <1>2, <2>7 DEF Pending, Terminal
    <3>2. s.body.doc = v.id /\ c = v.after.config /\ p # v.before.policy
      BY <2>3, <2>7 DEF Settled
    <3>3. p = v.after.policy
      BY <2>2, <3>2
    <3> QED BY <1>2, <2>1, <3>1, <3>2, <3>3, Amounts DEF With
  <2>8. CASE v.phase = "CANCELLED"
    <3>1. ~Pending(v)
      BY <1>2, <2>8 DEF Pending, Terminal
    <3>2. s.body.doc # v.id
      BY <1>2, <2>8 DEF FlashOK, PhaseInv, NotYet
    <3>3. c = v.before.config /\ p # v.id
      BY <2>3, <2>8 DEF Settled
    <3>4. p = v.before.policy
      BY <2>1, <2>2, <3>3 DEF Planned
    <3> QED BY <1>2, <2>1, <3>1, <3>2, <3>3, <3>4, Amounts DEF With
  <2> QED BY <2>4, <2>5, <2>6, <2>7, <2>8
<1>3. CASE u # NoJournal /\ v = NoJournal
  <2>1. u.phase = "PREPARED" /\ c = u.before.config /\ p = u.before.policy
    BY <1>0, <1>3 DEF FlashOK, Announced
  <2>2. s.body.doc # u.id
    BY <1>0, <1>3, <2>1 DEF FlashOK, PhaseInv, NotYet
  <2>3. ~Pending(v)
    BY <1>3 DEF Pending
  <2> QED BY <1>3, <2>1, <2>2, <2>3, Amounts DEF With
<1> QED BY <1>1, <1>2, <1>3

(* No step but a power loss changes what a state stands for.                 *)
LEMMA WithStays ==
  ASSUME FlashOK, Uniform, Step, ~Loses, ~meddled', NEW s \in disk.state
  PROVE  With(s)' = With(s)
<1> DEFINE u == mem.journal
<1>0. /\ u \in disk.journal /\ mem.config \in disk.config /\ mem.policy \in disk.policy
      /\ Ground /\ JobInv /\ PhaseInv
  BY OnFlash DEF FlashOK, Ground, TypeInv
<1>1. CASE mem'.journal = u /\ u # NoJournal
  BY <1>1 DEF With
<1>2. CASE Calm("journal") /\ u = NoJournal
  <2>1. ASSUME NEW f \in Products PROVE mem'[f] = mem[f]
    BY <1>0, <1>2, OwnMoves DEF Calm
  <2>2. mem'.config = mem.config /\ mem'.policy = mem.policy
    BY <2>1 DEF Products
  <2> QED BY <1>2, <2>2 DEF With, Calm
<1>3. CASE u # NoJournal /\ mem'.journal # NoJournal /\ Same(u, mem'.journal)
  <2>1. u.id = mem'.journal.id /\ u.before = mem'.journal.before /\ u.after = mem'.journal.after
    BY <1>3 DEF Same
  <2> QED BY <1>3, <2>1 DEF With
<1>4. CASE Clears
  <2>1. ~Pending(u) /\ mem'.journal = NoJournal
    BY <1>4 DEF Clears, RpcQueue
  <2>2. mem'.config = mem.config /\ mem'.policy = mem.policy
    BY <1>4 DEF Clears, Calm, Files
  <2>3. With(s) = [state |-> s, config |-> mem.config, policy |-> mem.policy]
    BY <1>0, <2>1, Amounts DEF Uniform
  <2>4. With(s)' = [state |-> s, config |-> mem'.config, policy |-> mem'.policy]
    BY <2>1 DEF With
  <2> QED BY <2>2, <2>3, <2>4
<1>5. CASE /\ rpc.pc = "prepare" /\ u = NoJournal /\ rpc.val \in Journals
           /\ mem'.journal = rpc.val
           /\ mem.config = rpc.val.before.config /\ mem.policy = rpc.val.before.policy
  <2>1. rpc.val.id \in Jobs /\ ~Started(rpc.val.id)
    BY <1>0, <1>5, JournalTypes DEF Ground, LaunchOK, Enqueued, Started
  <2>2. s.body.doc # rpc.val.id
    BY <1>0, <2>1 DEF JobInv, KnownFiles, Known
  <2>3. rpc.val # NoJournal
    BY <1>5, AbsentAssumption
  <2> QED BY <1>5, <2>2, <2>3 DEF With
<1> QED
  BY <1>0, <1>1, <1>2, <1>3, <1>4, <1>5, JournalMoves, AbsentAssumption DEF JournalStep, Calm

LEMMA SurvivingMoves ==
  ASSUME FlashOK, FlashOK', Step, ~Loses, ~meddled'
  PROVE  InForce \in Surviving /\ InForce' \in Surviving'
         /\ Surviving' \subseteq Surviving \union {InForce'}
<1>1. Uniform
  BY OneAmount
<1>2. Uniform'
  <2>1. (FlashOK => Uniform)'
    BY OneAmount, PTL
  <2> QED BY <2>1
<1>3. /\ mem.state \in disk.state /\ mem.config \in disk.config
      /\ mem.policy \in disk.policy /\ mem.journal \in disk.journal
  BY OnFlash DEF FlashOK, Ground, TypeInv
<1>4. /\ mem'.state \in disk'.state /\ mem'.config \in disk'.config
      /\ mem'.policy \in disk'.policy /\ mem'.journal \in disk'.journal
  BY DEF FlashOK, Ground, TypeInv, FilesOK, Files
<1>5. InForce \in Surviving /\ InForce' \in Surviving'
  BY <1>3, <1>4 DEF InForce, Surviving
<1>6. ASSUME NEW t \in disk'.state PROVE t \in disk.state \/ t = mem'.state
  BY StateMoves DEF FlashOK, StateStep, Calm, Writes
<1>7. ASSUME NEW x \in Surviving' PROVE x \in Surviving \union {InForce'}
  <2>1. PICK v \in disk'.journal, s \in disk'.state, c \in disk'.config, p \in disk'.policy :
          x = Amount(v, s, c, p)
    BY <1>7 DEF Surviving, Amount, Pending, Terminal
  <2>2. x = With(s)'
    BY <1>2, <2>1 DEF Uniform, Amount, Pending, Terminal
  <2>3. CASE s \in disk.state
    <3>1. x = With(s)
      BY <1>1, <2>2, <2>3, WithStays
    <3>2. x = Amount(mem.journal, s, mem.config, mem.policy)
      BY <1>1, <1>3, <2>3, <3>1 DEF Uniform
    <3> QED BY <1>3, <2>3, <3>2 DEF Surviving
  <2>4. CASE s = mem'.state
    <3>1. InForce' = With(s)'
      BY <1>2, <1>4, <2>4 DEF Uniform, InForce
    <3> QED BY <2>2, <3>1
  <2> QED BY <1>6, <2>3, <2>4
<1> QED BY <1>5, <1>7

LEMMA LosesOne ==
  ASSUME Loses
  PROVE  InForce' \in Surviving /\ Surviving' = {InForce'}
<1>1. /\ mem'.state \in disk.state /\ mem'.config \in disk.config
      /\ mem'.policy \in disk.policy /\ mem'.journal \in disk.journal
      /\ disk'.state = {mem'.state} /\ disk'.config = {mem'.config}
      /\ disk'.policy = {mem'.policy} /\ disk'.journal = {mem'.journal}
  BY DEF Loses, Files
<1>2. InForce' \in Surviving
  <2>1. InForce' = Amount(mem'.journal, mem'.state, mem'.config, mem'.policy)
    BY DEF InForce, Amount, Pending, Terminal
  <2> QED BY <1>1, <2>1 DEF Surviving
<1>3. Surviving' = {InForce'}
  BY <1>1 DEF InForce, Surviving
<1> QED BY <1>2, <1>3

AnnouncedInv == ~meddled /\ budget.deaths = MaxDeaths => Announced

(* LosesNoHalf: the order of the writes in backup-service.uc, with a sync    *)
(* after each of them.  As long as nobody is killed, nothing fails and       *)
(* nothing meddles, the files on the flash amount to settings that were in   *)
(* force, whichever versions of them a power loss keeps and however often    *)
(* one comes: a job's are in force with its state.json and not before.       *)
THEOREM LossesImplementSettings == Spec => LosesNoHalf
<1> DEFINE Inv == /\ Ground /\ JobInv /\ PhaseInv /\ WholeInv /\ FlashInv /\ PeaceInv
                  /\ MeddlingShows /\ AnnouncedInv
<1>1. Init => Inv /\ AcrossLosses!SInit
  <2> SUFFICES ASSUME Init PROVE Inv /\ AcrossLosses!SInit
    OBVIOUS
  <2>1. \A f \in Files : disk[f] = {mem[f]}
    BY DEF Init
  <2>2. mem.journal = NoJournal /\ budget.edits = MaxEdits /\ budget.faults = MaxFaults
    BY DEF Init
  <2>3. Surviving = {InForce}
    BY <2>1 DEF Files, Surviving, InForce
  <2>4. MeddlingShows /\ AnnouncedInv
    BY <2>2 DEF MeddlingShows, Unedited, AnnouncedInv, Announced
  <2> QED
    BY <2>3, <2>4, InitGround, InitPhase, InitWhole, InitFlash, InitPeace DEF AcrossLosses!SInit
<1>2. Inv /\ [Next]_vars => Inv' /\ [AcrossLosses!SNext]_(AcrossLosses!svars)
  <2> SUFFICES ASSUME Inv, [Next]_vars PROVE Inv' /\ AcrossLosses!SNext
    OBVIOUS
  <2>1. /\ Ground' /\ JobInv' /\ PhaseInv' /\ WholeInv' /\ FlashInv' /\ PeaceInv' /\ Step
        /\ TypeInv /\ TypeInv'
    BY PhaseStep, WholeStep, FlashStep, PeaceStep DEF Ground
  <2>2. MeddlingShows' /\ (meddled => meddled')
    BY <2>1, MeddlingShowsStep DEF Step
  <2>3. ASSUME ~meddled', budget'.deaths = MaxDeaths
        PROVE  /\ ~meddled /\ budget.deaths = MaxDeaths /\ Nothing /\ ~Edit
               /\ Unedited /\ Unedited' /\ Unfailing /\ Unfailing'
    <3>1. Unedited' /\ Unfailing'
      BY <2>2, <2>3 DEF MeddlingShows, Unfailing, Unedited
    <3> QED BY <2>1, <2>2, <2>3, <3>1, Sparing DEF Nothing, Unfailing
  <2>4. AnnouncedInv'
    <3>1. SUFFICES ASSUME ~meddled', budget'.deaths = MaxDeaths PROVE Announced'
      BY DEF AnnouncedInv
    <3>2. Peace /\ Announced
      BY <2>3, <3>1 DEF PeaceInv, AnnouncedInv
    <3> QED BY <2>1, <2>3, <3>1, <3>2, AnnouncedStep
  <2>5. AcrossLosses!SNext
    <3>1. CASE meddled' \/ budget'.deaths # MaxDeaths
      BY <3>1 DEF AcrossLosses!SNext
    <3>2. CASE ~meddled' /\ budget'.deaths = MaxDeaths
      <4>1. FlashOK /\ FlashOK'
        BY <2>1, <2>3, <2>4, <3>2 DEF FlashOK, FlashInv, PeaceInv, AnnouncedInv
      <4>2. CASE Loses
        BY <4>2, LosesOne DEF AcrossLosses!SNext, AcrossLosses!Lose
      <4>3. CASE ~Loses
        <5>1. InForce \in Surviving /\ InForce' \in Surviving'
              /\ Surviving' \subseteq Surviving \union {InForce'}
          BY <2>1, <3>2, <4>1, <4>3, SurvivingMoves
        <5>2. ~Stuck(mem'.journal)
          <6>1. mem'.journal \in disk'.journal
            BY <2>1 DEF TypeInv, FilesOK, Files
          <6> QED BY <4>1, <6>1 DEF FlashOK, Peace, NoneStuck, Stuck
        <5>3. \/ InForce' = InForce
              \/ InMemory!Restore \/ InMemory!Serve \/ InMemory!Retime
          BY <2>1, <2>3, <3>2, <4>3, <5>2, SettingsMove DEF WholeInv, RollInv
        <5>4. CASE InForce' = InForce
          BY <5>1, <5>4 DEF AcrossLosses!SNext, AcrossLosses!Flush
        <5>5. CASE InMemory!Restore \/ InMemory!Serve \/ InMemory!Retime
          <6>1. AcrossLosses!Restore \/ AcrossLosses!Serve \/ AcrossLosses!Retime
            BY <5>5 DEF InMemory!Restore, InMemory!Serve, InMemory!Retime, InMemory!Restored,
               AcrossLosses!Restore, AcrossLosses!Serve, AcrossLosses!Retime, AcrossLosses!Restored
          <6> QED BY <5>1, <6>1 DEF AcrossLosses!SNext, AcrossLosses!Change
        <5> QED BY <5>3, <5>4, <5>5
      <4> QED BY <4>2, <4>3
    <3> QED BY <3>1, <3>2
  <2> QED BY <2>1, <2>2, <2>4, <2>5
<1> QED
  BY <1>1, <1>2, PTL DEF Spec, LosesNoHalf, AcrossLosses!SSpec

=============================================================================
