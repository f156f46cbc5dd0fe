------------------------------- MODULE Backup -------------------------------
(***************************************************************************)
(* Restoring a settings backup: rpcd queues a journalled job, a background  *)
(* worker replaces /etc/config/foxhole, update-policy.json and state.json,  *)
(* and any later start of a FoxHole service recovers a job it finds halfway. *)
(* engine.lock and state.lock are taken without blocking by all of them but *)
(* rpcd's own calls, which wait for state.lock; /etc/config/foxhole is under *)
(* no lock at all.  Files reach the flash when somebody runs sync.           *)
(***************************************************************************)
EXTENDS Naturals

CONSTANTS
  Jobs,        \* request ids a restore can have
  Docs,        \* [Jobs -> the document's selected profile and panel options]
  FirstPanel,  \* the panel options before anything is restored
  NoJournal,   \* journal.json is absent
  MaxCalls,    \* calls rpcd serves
  MaxFaults,   \* failing writes, syncs and service stops
  MaxDeaths,   \* workers, or rpcd, killed
  MaxLosses,   \* power losses
  MaxEdits,    \* commits of /etc/config/foxhole from elsewhere
  MaxTicks,    \* automatic-update ticks that are due
  MaxReloads   \* reload triggers of the runtime's init script

Document(d) == /\ DOMAIN d = {"active", "panel"}
               /\ d.active \in BOOLEAN
               /\ d.panel # "edited"

ASSUME BackupAssumption ==
  /\ \A j \in Jobs : Document(Docs[j])
  /\ Jobs \cap {"rpc", "init", "tick", "free", "own", "edited"} = {}
  /\ Jobs \cap Nat = {}
  /\ FirstPanel # "edited"
  /\ {MaxCalls, MaxFaults, MaxDeaths, MaxLosses, MaxEdits, MaxTicks,
      MaxReloads} \subseteq Nat

VARIABLES
  \* what a process reads now, and what each file may hold after a power loss
  mem, disk,
  \* holders of engine.lock and state.lock
  engineLock, stateLock,
  \* rpcd's call, the job workers, runs of backup.recover(), the init script of
  \* the runtime, the tunnel it starts and stops, the update tick
  rpc, wk, rec, init, tunnel, tick,
  \* history: a Stop was accepted and nothing asked for a tunnel since; something
  \* outside the transaction touched what it works on
  stopped, meddled,
  budget

locks == <<engineLock, stateLock>>
vars  == <<mem, disk, locks, rpc, wk, rec, init, tunnel, tick, stopped, meddled,
           budget>>

NoWorker == [pc |-> "off", val |-> NoJournal, syncing |-> FALSE]
NoCall   == [op |-> "none", pc |-> "idle", seen |-> 0, val |-> NoJournal]

------------------------------------------------------------------------------
(* Files and the journal *)

Files     == {"state", "config", "policy", "journal", "intent", "keys"}
Products  == {"config", "policy"}
Recoverers == {"rpc", "init"} \union Jobs

Terminal(j) == j # NoJournal /\ j.phase \in {"COMMITTED", "CANCELLED"}
Stuck(j)    == j # NoJournal /\ j.phase = "RECOVERY_REQUIRED"
Pending(j)  == j # NoJournal /\ ~Terminal(j)

Put(f, v) == /\ mem' = [mem EXCEPT ![f] = v]
             /\ disk' = [disk EXCEPT ![f] = @ \union {v}]
Sync_Skipped == UNCHANGED <<disk, mem>>
Sync == disk' = [f \in Files |-> {mem[f]}] /\ UNCHANGED mem
Free(lock, p) == IF lock = p THEN "free" ELSE lock
Release(p) == /\ engineLock' = Free(engineLock, p)
              /\ stateLock' = Free(stateLock, p)

\* prepare_job(): state.json with the document's contents and the next revision,
\* the policy with its enabled choice and the next revision.
NewJournal(j) ==
  [id |-> j, owner |-> mem.keys.owner, keys |-> mem.keys, intent |-> mem.intent,
   phase |-> "PREPARED",
   before |-> [state |-> mem.state, config |-> mem.config, policy |-> mem.policy],
   after |-> [state |-> [rev |-> mem.state.rev + 1, active |-> Docs[j].active,
                         body |-> [doc |-> j, edits |-> 0, cut |-> FALSE]],
              config |-> Docs[j].panel, policy |-> j]]

ProductsAfter(v) == \A f \in Products : mem[f] = v.after[f]

\* What both locked sections of the worker recheck.
Fresh_AnyKeys(v) ==
  /\ mem.keys.owner = v.owner
  /\ mem.intent = v.intent
  /\ mem.state = v.before.state

Fresh_AnyIntent(v) ==
  /\ mem.keys.owner = v.owner
  /\ mem.keys = v.keys
  /\ mem.state = v.before.state

Fresh(v) ==
  /\ mem.keys.owner = v.owner
  /\ mem.intent = v.intent /\ mem.keys = v.keys
  /\ mem.state = v.before.state

\* A Stop or a revocation whose caller saw the revision a restore has replaced.
Bridged(seen) ==
  LET v == mem.journal IN
  /\ v # NoJournal /\ v.phase \in {"STATE_COMMITTING", "COMMITTED"}
  /\ seen = v.before.state.rev
  /\ mem.state = v.after.state

------------------------------------------------------------------------------
(* recover_locked() and recover(), run by any of Recoverers *)

\* rollback_product_files() in order, then the journal.
RecNext == [config |-> "policy", policy |-> "publish", publish |-> "ok",
            error |-> "fail"]
RecWrites == DOMAIN RecNext
RecStage(pc) == IF pc \in {"publish", "error"} THEN "write" ELSE "check"

NotRecovering == [pc |-> "off", val |-> NoJournal, stage |-> "check"]
Recover(p, pc)  == rec' = [rec EXCEPT ![p] = [NotRecovering EXCEPT !.pc = pc]]
RecAt(p, stage) == rec[p].pc \in RecWrites /\ rec[p].stage = stage
RecGoto(p, pc, stage) == rec' = [rec EXCEPT ![p].pc = pc, ![p].stage = stage]
RecOn(p) == RecGoto(p, RecNext[rec[p].pc], RecStage(RecNext[rec[p].pc]))
Recovered(p) == rec[p].pc \in {"ok", "fail"}

\* Read without a lock: a job that is not pending needs no recovery.
RecPeek(p) ==
  /\ rec[p].pc = "peek"
  /\ RecGoto(p, IF Pending(mem.journal) THEN "engine" ELSE "ok", "check")
  /\ UNCHANGED <<mem, disk, locks, rpc, wk, init, tunnel, tick, stopped, meddled,
                 budget>>

Refused_Never == FALSE
Refused == engineLock # "free"

RecEngine(p) ==
  /\ rec[p].pc = "engine"
  /\ \/ engineLock = "free" /\ engineLock' = p /\ RecGoto(p, "state", "check")
     \/ Refused /\ RecGoto(p, "fail", "check") /\ UNCHANGED engineLock
  /\ UNCHANGED <<mem, disk, stateLock, rpc, wk, init, tunnel, tick, stopped,
                 meddled, budget>>

RecState(p) ==
  /\ rec[p].pc = "state"
  /\ IF stateLock = "free"
     THEN stateLock' = p /\ RecGoto(p, "read", "check") /\ UNCHANGED engineLock
     ELSE Release(p) /\ RecGoto(p, "fail", "check")
  /\ UNCHANGED <<mem, disk, rpc, wk, init, tunnel, tick, stopped, meddled, budget>>

\* The state as the restore would leave it, perhaps stopped afterwards.
Forward(v) ==
  LET s == mem.state IN
  \/ s = v.after.state
  \/ /\ ~s.active /\ s.rev > v.after.state.rev /\ s.body = v.after.state.body
     /\ ProductsAfter(v)

\* The state as the restore found it, perhaps stopped meanwhile.
Back_Exact(v) == mem.state = v.before.state
Back(v) ==
  LET s == mem.state IN
  \/ s = v.before.state
  \/ s.rev > v.before.state.rev /\ ~s.active /\ s.body = v.before.state.body

Verdict_TrustsMarker(v) ==
  IF v.phase \in {"PREPARED", "APPLYING"} THEN "CANCELLED"
  ELSE IF ProductsAfter(v) THEN "COMMITTED" ELSE "RECOVERY_REQUIRED"

Verdict(v) ==
  IF v.phase \in {"PREPARED", "APPLYING"} THEN "CANCELLED"
  ELSE IF Forward(v)
       THEN IF ProductsAfter(v) THEN "COMMITTED" ELSE "RECOVERY_REQUIRED"
       ELSE IF Back(v) THEN "CANCELLED" ELSE "RECOVERY_REQUIRED"

RecRead(p) ==
  /\ rec[p].pc = "read"
  /\ LET v == mem.journal
         w == [v EXCEPT !.phase = Verdict(v)]
     IN  IF ~Pending(v) THEN RecGoto(p, "ok", "check")
         ELSE IF Stuck(v) THEN RecGoto(p, "fail", "check")
         ELSE rec' = [rec EXCEPT ![p] =
                CASE w.phase = "CANCELLED" ->
                       [pc |-> "config", val |-> w, stage |-> "check"]
                  [] w.phase = "COMMITTED" ->
                       [pc |-> "publish", val |-> w, stage |-> "write"]
                  [] OTHER -> [pc |-> "error", val |-> w, stage |-> "write"]]
  /\ UNCHANGED <<mem, disk, locks, rpc, wk, init, tunnel, tick, stopped, meddled,
                 budget>>


\* A file that is neither what the job found nor what it wrote is not its own.
Foreign_Never(v, f) == FALSE
Foreign(v, f) == mem[f] \notin {v.before[f], v.after[f]}

RecCheck(p) ==
  /\ RecAt(p, "check")
  /\ LET f == rec[p].pc
         v == rec[p].val
     IN  IF mem[f] = v.before[f] THEN RecOn(p)
         ELSE IF Foreign(v, f) THEN RecGoto(p, "error", "write")
         ELSE RecGoto(p, f, "write")
  /\ UNCHANGED <<mem, disk, locks, rpc, wk, init, tunnel, tick, stopped, meddled,
                 budget>>

RecWrite(p) ==
  /\ RecAt(p, "write")
  /\ LET pc == rec[p].pc
         v  == rec[p].val
     IN  CASE pc \in Products -> Put(pc, v.before[pc])
           [] pc = "publish"  -> Put("journal", v)
           [] pc = "error"    -> Put("journal", [v EXCEPT !.phase = "RECOVERY_REQUIRED"])
  /\ RecGoto(p, rec[p].pc, "sync")
  /\ UNCHANGED <<locks, rpc, wk, init, tunnel, tick, stopped, meddled, budget>>

\* replace_file() compares what it finds afterwards with what it wrote.
RecSync(p) ==
  /\ RecAt(p, "sync")
  /\ Sync
  /\ LET f == rec[p].pc IN
     IF f \in Products /\ mem[f] # rec[p].val.before[f]
     THEN RecGoto(p, "error", "write") ELSE RecOn(p)
  /\ UNCHANGED <<locks, rpc, wk, init, tunnel, tick, stopped, meddled, budget>>

RecFault(p) ==
  /\ rec[p].pc \in RecWrites /\ rec[p].stage \in {"write", "sync"}
  /\ IF rec[p].pc = "error" THEN RecGoto(p, "fail", "check")
                            ELSE RecGoto(p, "error", "write")
  /\ UNCHANGED <<mem, disk, locks, rpc, wk, init, tunnel, tick, stopped>>

Recovery(p) ==
  RecPeek(p) \/ RecEngine(p) \/ RecState(p) \/ RecRead(p) \/ RecCheck(p)
    \/ RecWrite(p) \/ RecSync(p)

------------------------------------------------------------------------------
(* foxhole-backup-job: run_backup() *)

At(j, pc)   == wk[j].pc = pc
Goto(j, pc) == wk' = [wk EXCEPT ![j].pc = pc, ![j].syncing = FALSE]

\* worker_context(): another job's journal, or none, ends the process.
WorkContext(j) ==
  /\ At(j, "context")
  /\ LET v == mem.journal IN
     wk' = [wk EXCEPT ![j].pc = IF v # NoJournal /\ v.id = j THEN "engine" ELSE "gone",
                      ![j].val = v]
  /\ UNCHANGED <<mem, disk, locks, rpc, rec, init, tunnel, tick, stopped, meddled,
                 budget>>

WorkEngine(j) ==
  /\ At(j, "engine")
  /\ IF engineLock = "free" THEN engineLock' = j /\ Goto(j, "first")
                            ELSE Goto(j, "abort") /\ UNCHANGED engineLock
  /\ UNCHANGED <<mem, disk, stateLock, rpc, rec, init, tunnel, tick, stopped,
                 meddled, budget>>

\* Authorisation, and the journal read again; without it prepare_job() refuses.
WorkFirst(j) ==
  /\ At(j, "first")
  /\ LET v   == mem.journal
         own == v # NoJournal /\ v.id = j
     IN  IF stateLock # "free" \/ mem.keys.owner # wk[j].val.owner \/ ~own \/ Stuck(v)
         THEN Goto(j, "abort") /\ Release(j)
         ELSE IF Terminal(v) THEN Goto(j, "gone") /\ Release(j)
         ELSE /\ wk' = [wk EXCEPT ![j].pc = "quiesce", ![j].val = v]
              /\ UNCHANGED locks
  /\ UNCHANGED <<mem, disk, rpc, rec, init, tunnel, tick, stopped, meddled, budget>>

Ask(by, full) == init' = [pc |-> "stop", by |-> by, full |-> full]

WorkQuiesce(j) ==
  /\ At(j, "quiesce") /\ init.pc = "idle"
  /\ Ask(j, FALSE) /\ Goto(j, "quiescing")
  /\ UNCHANGED <<mem, disk, locks, rpc, rec, tunnel, tick, stopped, meddled, budget>>

\* The writes in order, each followed by a sync.
WorkNext == [apply |-> "config", config |-> "policy", policy |-> "mark",
             mark |-> "state", state |-> "commit", commit |-> "resume"]
WorkFile == [apply |-> "journal", config |-> "config", policy |-> "policy",
             mark |-> "journal", state |-> "state", commit |-> "journal"]
Marks    == [apply |-> "APPLYING", mark |-> "STATE_COMMITTING",
             commit |-> "COMMITTED"]

\* What a locked section demands before it publishes its phase.
Cleared(j, pc) ==
  LET v == wk[j].val IN
  /\ stateLock = "free"
  /\ Fresh(v)
  /\ pc = "apply" => \A f \in Products : mem[f] = v.before[f]
  /\ pc = "mark"  => ProductsAfter(v)

Holds(j, pc) == stateLock' = IF pc \in {"apply", "mark"} THEN j ELSE stateLock

WorkWrite(j) ==
  /\ wk[j].pc \in DOMAIN WorkNext /\ ~wk[j].syncing
  /\ LET pc == wk[j].pc
         v  == wk[j].val
     IN  IF pc \in {"apply", "mark"} /\ ~Cleared(j, pc)
         THEN Goto(j, "catch") /\ UNCHANGED <<mem, disk, stateLock>>
         ELSE /\ Put(WorkFile[pc], IF pc \in DOMAIN Marks
                                   THEN [v EXCEPT !.phase = Marks[pc]]
                                   ELSE v.after[pc])
              /\ Holds(j, pc)
              /\ wk' = [wk EXCEPT ![j].syncing = TRUE]
  /\ UNCHANGED <<engineLock, rpc, rec, init, tunnel, tick, stopped, meddled, budget>>

\* A file replaced by somebody else meanwhile is an error; "apply" and "commit"
\* end a section under state.lock.
WorkSync(j) ==
  /\ wk[j].syncing
  /\ Sync
  /\ LET pc   == wk[j].pc
         lost == /\ pc \in Products \union {"state"}
                 /\ mem[pc] # wk[j].val.after[pc]
     IN  /\ Goto(j, IF lost THEN "catch" ELSE WorkNext[pc])
         /\ stateLock' = IF lost \/ pc \in {"apply", "commit"}
                         THEN Free(stateLock, j) ELSE stateLock
  /\ UNCHANGED <<engineLock, rpc, rec, init, tunnel, tick, stopped, meddled, budget>>

WorkFault(j) ==
  /\ \/ wk[j].pc \in DOMAIN WorkNext
     \/ At(j, "quiesce")
  /\ Goto(j, "catch") /\ stateLock' = Free(stateLock, j)
  /\ UNCHANGED <<mem, disk, engineLock, rpc, rec, init, tunnel, tick, stopped>>

\* The catch block recovers under state.lock and still holds engine.lock.
WorkCatch(j) ==
  /\ At(j, "catch")
  /\ IF stateLock = "free"
     THEN /\ stateLock' = j /\ Recover(j, "read") /\ Goto(j, "recovering")
          /\ UNCHANGED engineLock
     ELSE Release(j) /\ Goto(j, "abort") /\ UNCHANGED rec
  /\ UNCHANGED <<mem, disk, rpc, init, tunnel, tick, stopped, meddled, budget>>

WorkRecovered(j) ==
  /\ At(j, "recovering") /\ Recovered(j)
  /\ Recover(j, "off")
  /\ IF rec[j].pc = "ok"
     THEN Goto(j, "resume") /\ stateLock' = "free" /\ UNCHANGED engineLock
     ELSE Goto(j, "abort") /\ Release(j)
  /\ UNCHANGED <<mem, disk, rpc, init, tunnel, tick, stopped, meddled, budget>>

WorkResume(j) ==
  /\ At(j, "resume") /\ init.pc = "idle"
  /\ Ask(j, TRUE) /\ Goto(j, "resuming")
  /\ UNCHANGED <<mem, disk, locks, rpc, rec, tunnel, tick, stopped, meddled, budget>>

\* run_backup()'s catch: recover(), provided the journal is still this job's.
WorkAbort(j) ==
  /\ At(j, "abort")
  /\ IF mem.journal # NoJournal /\ mem.journal.id = j
     THEN Recover(j, "peek") /\ Goto(j, "aborting")
     ELSE Goto(j, "gone") /\ UNCHANGED rec
  /\ UNCHANGED <<mem, disk, locks, rpc, init, tunnel, tick, stopped, meddled, budget>>

WorkAborted(j) ==
  /\ At(j, "aborting") /\ Recovered(j)
  /\ Recover(j, "off") /\ Goto(j, "gone") /\ Release(j)
  /\ UNCHANGED <<mem, disk, rpc, init, tunnel, tick, stopped, meddled, budget>>

Worker(j) ==
  \/ WorkContext(j) \/ WorkEngine(j) \/ WorkFirst(j) \/ WorkQuiesce(j)
  \/ WorkWrite(j) \/ WorkSync(j) \/ WorkCatch(j) \/ WorkRecovered(j)
  \/ WorkResume(j) \/ WorkAbort(j) \/ WorkAborted(j)

------------------------------------------------------------------------------
(* The runtime's init script, one run at a time under procd's lock *)

NoInit == [pc |-> "idle", by |-> "init", full |-> FALSE]

\* stop: procd is told to end the tunnel, and nobody waits until it has ended.
\* Then, for a restart, the gate of start_service.
InitStop ==
  /\ init.pc = "stop"
  /\ tunnel' = IF tunnel = "none" THEN "none" ELSE "ending"
  /\ IF init.full THEN init' = [init EXCEPT !.pc = "gate"] /\ Recover("init", "peek")
                  ELSE init' = [init EXCEPT !.pc = "done"] /\ UNCHANGED rec
  /\ UNCHANGED <<mem, disk, locks, rpc, wk, tick, stopped, meddled, budget>>

\* At boot rpcd, which recovers as it loads, is started long before.
InitBoot ==
  /\ init.pc = "boot" /\ rpc.pc # "recover"
  /\ init' = [init EXCEPT !.pc = "gate"] /\ Recover("init", "peek")
  /\ UNCHANGED <<mem, disk, locks, rpc, wk, tunnel, tick, stopped, meddled, budget>>

\* A failed recovery lets a stopped router enforce its policy, and no more.
Refuse_Proceeds == IF mem.state.active THEN "done" ELSE "start"
Refuse == "done"

InitGate ==
  /\ init.pc = "gate" /\ Recovered("init")
  /\ init' = [init EXCEPT !.pc = IF rec["init"].pc = "ok" THEN "start" ELSE Refuse]
  /\ Recover("init", "off") /\ Release("init")
  /\ UNCHANGED <<mem, disk, rpc, wk, tunnel, tick, stopped, meddled, budget>>

\* A tunnel that still ends is followed by the new one.
InitStart ==
  /\ init.pc = "start"
  /\ tunnel' = IF ~mem.state.active THEN tunnel ELSE IF tunnel = "none" THEN "up" ELSE "next"
  /\ init' = [init EXCEPT !.pc = "done"]
  /\ UNCHANGED <<mem, disk, locks, rpc, wk, rec, tick, stopped, meddled, budget>>

\* Whoever asked for the run goes on.
InitDone ==
  /\ init.pc = "done"
  /\ init' = NoInit
  /\ rpc' = IF init.by = "rpc" /\ rpc.pc = "restarting" THEN NoCall ELSE rpc
  /\ LET j == init.by IN
     IF j \in Jobs /\ wk[j].pc = "quiescing"
     THEN Goto(j, "apply") /\ UNCHANGED engineLock
     ELSE IF j \in Jobs /\ wk[j].pc = "resuming"
     THEN Goto(j, "gone") /\ engineLock' = Free(engineLock, j)
     ELSE UNCHANGED <<wk, engineLock>>
  /\ UNCHANGED <<mem, disk, stateLock, rec, tunnel, tick, stopped, meddled, budget>>

InitScript == InitStop \/ InitBoot \/ InitGate \/ InitStart \/ InitDone

\* It ends, or procd kills it after ten seconds.
TunnelEnds ==
  /\ tunnel \in {"ending", "next"}
  /\ tunnel' = IF tunnel = "next" THEN "up" ELSE "none"
  /\ UNCHANGED <<mem, disk, locks, rpc, wk, rec, init, tick, stopped, meddled, budget>>

Reload ==
  /\ budget.reloads > 0 /\ init.pc = "idle"
  /\ Ask("reload", TRUE)
  /\ budget' = [budget EXCEPT !.reloads = @ - 1]
  /\ UNCHANGED <<mem, disk, locks, rpc, wk, rec, tunnel, tick, stopped, meddled>>

------------------------------------------------------------------------------
(* rpcd: one call at a time *)

Ops    == {"apply", "stop", "revoke", "keys", "product"}
Call(op, seen) == [NoCall EXCEPT !.op = op, !.seen = seen,
                     !.pc = IF op = "apply" THEN "queue" ELSE "wait"]
RpcAt(pc)   == rpc.pc = pc
RpcGoto(pc) == rpc' = [rpc EXCEPT !.pc = pc]
Started(j)  == wk[j].pc # "off"

\* call() refuses product calls, and another restore, while a journal is pending.
\* The caller may have seen the revision a restore has just replaced.
Guarded(op) == op \in {"apply", "product"} => ~Pending(mem.journal)

RpcCall(op) ==
  /\ RpcAt("idle") /\ budget.calls > 0
  /\ Guarded(op)
  /\ \E seen \in {mem.state.rev} \union
                 (IF mem.journal = NoJournal THEN {} ELSE {mem.journal.before.state.rev}) :
       rpc' = Call(op, seen)
  /\ budget' = [budget EXCEPT !.calls = @ - 1]
  /\ UNCHANGED <<mem, disk, locks, wk, rec, init, tunnel, tick, stopped, meddled>>

\* The blocking state lock, and the revision the call was made for.  Stop and
\* revocation are let through a restore that replaced just that revision.
Admitted ==
  \/ rpc.op = "keys"
  \/ rpc.seen = mem.state.rev
  \/ rpc.op \in {"stop", "revoke"} /\ Bridged(rpc.seen)

RpcLock ==
  /\ RpcAt("wait") /\ stateLock = "free"
  /\ IF Admitted /\ Guarded(rpc.op)
     THEN /\ stateLock' = "rpc"
          /\ RpcGoto(CASE rpc.op = "stop" -> "intent" [] rpc.op = "keys" -> "keys"
                       [] OTHER -> "write")
     ELSE rpc' = NoCall /\ UNCHANGED stateLock
  /\ UNCHANGED <<mem, disk, engineLock, wk, rec, init, tunnel, tick, stopped,
                 meddled, budget>>

\* stop_intent() comes before state.json, so that a Stop of a router that is
\* stopped already is noticed too.
RpcIntent ==
  /\ RpcAt("intent")
  /\ Put("intent", mem.intent + 1)
  /\ RpcGoto("write")
  /\ UNCHANGED <<locks, wk, rec, init, tunnel, tick, stopped, meddled, budget>>

\* pair_revoke, change_pin: the job's owner or somebody else.
RpcKeys ==
  /\ RpcAt("keys")
  /\ \E n \in {0, 1} : Put("keys", [rev |-> mem.keys.rev + 1, owner |-> mem.keys.owner + n])
  /\ rpc' = NoCall /\ stateLock' = Free(stateLock, "rpc")
  /\ UNCHANGED <<engineLock, wk, rec, init, tunnel, tick, stopped, meddled, budget>>

\* What a call makes of state.json: a Stop of a stopped router leaves it alone; a
\* client loses access (or had none); a product call edits or starts a profile.
NewStates(s) ==
  CASE rpc.op = "stop" -> {IF s.active THEN [s EXCEPT !.active = FALSE, !.rev = @ + 1] ELSE s}
    [] rpc.op = "revoke" -> {[s EXCEPT !.body.cut = TRUE, !.rev = @ + 1]}
    [] rpc.op = "product" -> {[s EXCEPT !.active = TRUE, !.rev = @ + 1],
                              [s EXCEPT !.body.edits = @ + 1, !.rev = @ + 1]}

RpcWrite ==
  /\ RpcAt("write")
  /\ \E s \in NewStates(mem.state) :
       /\ IF s = mem.state THEN UNCHANGED <<mem, disk>> ELSE Put("state", s)
       /\ stopped' = (IF rpc.op = "stop" THEN TRUE ELSE stopped /\ ~s.active)
  /\ meddled' = \/ meddled
                \/ /\ rpc.op # "stop"
                   /\ \E v \in disk.journal : v # NoJournal /\ v.phase = "STATE_COMMITTING"
  /\ stateLock' = Free(stateLock, "rpc")
  /\ IF rpc.op = "revoke" THEN rpc' = NoCall ELSE RpcGoto("restart")
  /\ UNCHANGED <<engineLock, wk, rec, init, tunnel, tick, budget>>

RpcRestart ==
  /\ RpcAt("restart") /\ init.pc = "idle"
  /\ Ask("rpc", TRUE) /\ RpcGoto("restarting")
  /\ UNCHANGED <<mem, disk, locks, wk, rec, tunnel, tick, stopped, meddled, budget>>

\* queue_backup(): both locks without waiting, no package job, the revision; the
\* journal of the last job goes first.
RpcQueue ==
  /\ RpcAt("queue")
  /\ engineLock = "free" /\ stateLock = "free"
  /\ ~Pending(mem.journal) /\ tick # "checking"
  /\ rpc.seen = mem.state.rev
  /\ \E j \in Jobs :
       /\ ~Started(j) /\ (mem.journal # NoJournal => mem.journal.id # j)
       /\ rpc' = [rpc EXCEPT !.pc = "prepare", !.val = NewJournal(j)]
  /\ engineLock' = "rpc" /\ stateLock' = "rpc"
  /\ IF mem.journal = NoJournal THEN UNCHANGED <<mem, disk>>
     ELSE /\ mem' = [mem EXCEPT !.journal = NoJournal]
          /\ disk' = [f \in Files |-> {mem'[f]}]
  /\ UNCHANGED <<wk, rec, init, tunnel, tick, stopped, meddled, budget>>

\* One of those conditions fails, the document is not usable, the request is one
\* already answered, or there is no space.
RpcRefuse ==
  /\ RpcAt("queue")
  /\ rpc' = NoCall
  /\ UNCHANGED <<mem, disk, locks, wk, rec, init, tunnel, tick, stopped, meddled,
                 budget>>

RpcPrepare ==
  /\ RpcAt("prepare")
  /\ IF mem.config = rpc.val.before.config
     THEN Put("journal", rpc.val) /\ RpcGoto("queued") /\ UNCHANGED locks
     ELSE rpc' = NoCall /\ Release("rpc") /\ UNCHANGED <<mem, disk>>
  /\ UNCHANGED <<wk, rec, init, tunnel, tick, stopped, meddled, budget>>

RpcQueued ==
  /\ RpcAt("queued")
  /\ Sync /\ Release("rpc") /\ RpcGoto("launch")
  /\ stopped' = FALSE
  /\ UNCHANGED <<wk, rec, init, tunnel, tick, meddled, budget>>

RpcLaunch ==
  /\ RpcAt("launch")
  /\ wk' = [wk EXCEPT ![rpc.val.id].pc = "context"]
  /\ rpc' = NoCall
  /\ UNCHANGED <<mem, disk, locks, rec, init, tunnel, tick, stopped, meddled, budget>>

\* recover() as rpcd loads, or because the worker could not be launched.
RpcRecovered ==
  /\ RpcAt("recover") /\ Recovered("rpc")
  /\ rpc' = NoCall /\ Recover("rpc", "off") /\ Release("rpc")
  /\ UNCHANGED <<mem, disk, wk, init, tunnel, tick, stopped, meddled, budget>>

RpcFault ==
  /\ rpc.pc \in {"prepare", "queued", "launch"}
  /\ IF rpc.pc = "launch" THEN RpcGoto("recover") /\ Recover("rpc", "peek")
                          ELSE rpc' = NoCall /\ UNCHANGED rec
  /\ Release("rpc")
  /\ UNCHANGED <<mem, disk, wk, init, tunnel, tick, stopped>>

Rpc ==
  \/ RpcLock \/ RpcIntent \/ RpcKeys \/ RpcWrite \/ RpcRestart \/ RpcQueue
  \/ RpcRefuse \/ RpcPrepare \/ RpcQueued \/ RpcLaunch \/ RpcRecovered

------------------------------------------------------------------------------
(* The rest of the router *)

\* tick(): guard first, engine.lock afterwards.  Each tick writes the policy with
\* its own time.
Ticks == MaxTicks - budget.ticks

TickGuard ==
  /\ tick = "idle" /\ budget.ticks > 0
  /\ ~Pending(mem.journal)
  /\ tick' = "guarded"
  /\ budget' = [budget EXCEPT !.ticks = @ - 1]
  /\ UNCHANGED <<mem, disk, locks, rpc, wk, rec, init, tunnel, stopped, meddled>>

TickLock ==
  /\ tick = "guarded"
  /\ IF engineLock = "free" THEN engineLock' = "tick" /\ tick' = "holding"
                            ELSE tick' = "idle" /\ UNCHANGED engineLock
  /\ UNCHANGED <<mem, disk, stateLock, rpc, wk, rec, init, tunnel, stopped, meddled,
                 budget>>

TickWrite ==
  /\ tick = "holding"
  /\ Put("policy", Ticks)
  /\ tick' = "checking" /\ engineLock' = "free"
  /\ meddled' = TRUE
  /\ UNCHANGED <<stateLock, rpc, wk, rec, init, tunnel, stopped, budget>>

TickDone ==
  /\ tick = "checking" /\ tick' = "idle"
  /\ UNCHANGED <<mem, disk, locks, rpc, wk, rec, init, tunnel, stopped, meddled,
                 budget>>

Tick == TickGuard \/ TickLock \/ TickWrite \/ TickDone

\* uci commit, under no lock of FoxHole.
Edit ==
  /\ budget.edits > 0
  /\ Put("config", "edited")
  /\ meddled' = TRUE
  /\ budget' = [budget EXCEPT !.edits = @ - 1]
  /\ UNCHANGED <<locks, rpc, wk, rec, init, tunnel, tick, stopped>>

Fault ==
  /\ budget.faults > 0
  /\ \/ \E p \in Recoverers : RecFault(p)
     \/ \E j \in Jobs : WorkFault(j)
     \/ RpcFault
  /\ meddled' = TRUE
  /\ budget' = [budget EXCEPT !.faults = @ - 1]

\* A worker is killed; the kernel drops its locks.
WorkerDies(j) ==
  /\ budget.deaths > 0 /\ wk[j].pc \notin {"off", "gone"}
  /\ Goto(j, "gone") /\ Recover(j, "off") /\ Release(j)
  /\ budget' = [budget EXCEPT !.deaths = @ - 1]
  /\ UNCHANGED <<mem, disk, rpc, init, tunnel, tick, stopped, meddled>>

\* rpcd is killed and started again.
RpcdDies ==
  /\ budget.deaths > 0
  /\ rpc' = [NoCall EXCEPT !.pc = "recover"] /\ Recover("rpc", "peek")
  /\ Release("rpc")
  /\ budget' = [budget EXCEPT !.deaths = @ - 1]
  /\ UNCHANGED <<mem, disk, wk, init, tunnel, tick, stopped, meddled>>

\* Every file is what it may be on the flash, all processes are gone, and rpcd
\* and the services start.
PowerLoss ==
  /\ budget.losses > 0
  /\ budget' = [budget EXCEPT !.losses = @ - 1]
  /\ \E st \in disk.state, cf \in disk.config, po \in disk.policy,
        jo \in disk.journal, it \in disk.intent, ke \in disk.keys :
       mem' = [state |-> st, config |-> cf, policy |-> po, journal |-> jo,
               intent |-> it, keys |-> ke]
  /\ disk' = [f \in Files |-> {mem'[f]}]
  /\ engineLock' = "free" /\ stateLock' = "free"
  /\ rpc' = [NoCall EXCEPT !.pc = "recover"]
  /\ rec' = [p \in Recoverers |-> IF p = "rpc" THEN [NotRecovering EXCEPT !.pc = "peek"]
                                  ELSE NotRecovering]
  /\ wk' = [j \in Jobs |-> IF wk[j].pc = "off" THEN NoWorker
                           ELSE [NoWorker EXCEPT !.pc = "gone"]]
  /\ init' = [pc |-> "boot", by |-> "init", full |-> TRUE]
  /\ tunnel' = "none" /\ tick' = "idle"
  /\ stopped' = (stopped /\ ~mem'.state.active)
  /\ UNCHANGED meddled

Init ==
  /\ \E on \in BOOLEAN :
       /\ mem = [state |-> [rev |-> 0, active |-> on, body |-> [doc |-> "own", edits |-> 0, cut |-> FALSE]],
                 config |-> FirstPanel, policy |-> 0, journal |-> NoJournal,
                 intent |-> 0, keys |-> [rev |-> 0, owner |-> 0]]
       /\ tunnel = IF on THEN "up" ELSE "none"
  /\ disk = [f \in Files |-> {mem[f]}]
  /\ engineLock = "free" /\ stateLock = "free"
  /\ rpc = NoCall /\ wk = [j \in Jobs |-> NoWorker]
  /\ rec = [p \in Recoverers |-> NotRecovering]
  /\ init = NoInit /\ tick = "idle"
  /\ stopped = FALSE /\ meddled = FALSE
  /\ budget = [calls |-> MaxCalls, faults |-> MaxFaults, deaths |-> MaxDeaths,
               losses |-> MaxLosses, edits |-> MaxEdits, ticks |-> MaxTicks,
               reloads |-> MaxReloads]

System ==
  \/ Rpc \/ InitScript \/ TunnelEnds \/ Tick
  \/ \E j \in Jobs : Worker(j)
  \/ \E p \in Recoverers : Recovery(p)

Environment ==
  \/ \E op \in Ops : RpcCall(op)
  \/ Reload \/ Edit \/ Fault \/ RpcdDies \/ PowerLoss
  \/ \E j \in Jobs : WorkerDies(j)

Next == System \/ Environment
Spec == Init /\ [][Next]_vars

\* Processes that are not waiting for somebody else's disturbance run on.
Fairness ==
  /\ WF_vars(Rpc) /\ WF_vars(InitScript)
  /\ \A j \in Jobs : WF_vars(Worker(j))
  /\ \A p \in Recoverers : WF_vars(Recovery(p))

FairSpec == Spec /\ Fairness

------------------------------------------------------------------------------
(* Properties *)

Revs    == Nat
Bodies  == [doc : Jobs \union {"own"}, edits : Nat, cut : BOOLEAN]
States  == [rev : Revs, active : BOOLEAN, body : Bodies]
Panels  == {FirstPanel, "edited"} \union {Docs[j].panel : j \in Jobs}
Policies == Jobs \union Nat
Keys    == [rev : Nat, owner : Nat]
Triples == [state : States, config : Panels, policy : Policies]
Phases  == {"PREPARED", "APPLYING", "STATE_COMMITTING", "COMMITTED", "CANCELLED",
            "RECOVERY_REQUIRED"}
Journals == [id : Jobs, owner : Nat, keys : Keys, intent : Nat, phase : Phases,
             before : Triples, after : Triples]
\* The absent journal is no journal.
ASSUME AbsentAssumption == NoJournal \notin Journals
AnyJournal == Journals \union {NoJournal}
FileOK(f, v) ==
  CASE f = "state"   -> v \in States
    [] f = "config"  -> v \in Panels
    [] f = "policy"  -> v \in Policies
    [] f = "journal" -> v \in AnyJournal
    [] f = "intent"  -> v \in Nat
    [] f = "keys"    -> v \in Keys
Holders == {"free", "rpc", "init", "tick"} \union Jobs
RecPcs  == {"off", "peek", "engine", "state", "read", "ok", "fail"} \union RecWrites
WorkPcs == {"off", "context", "engine", "first", "quiesce", "quiescing", "catch",
            "recovering", "resume", "resuming", "abort", "aborting", "gone"}
           \union DOMAIN WorkNext
RpcPcs  == {"idle", "wait", "intent", "keys", "write", "restart", "restarting",
            "queue", "prepare", "queued", "launch", "recover"}

\* Every file holds, and may hold after a power loss, a value of its kind, and
\* every process is at a place of its program; the budgets stay natural numbers.
TypeOK ==
  /\ \A f \in Files : FileOK(f, mem[f]) /\ mem[f] \in disk[f]
                      /\ \A v \in disk[f] : FileOK(f, v)
  /\ engineLock \in Holders /\ stateLock \in Holders
  /\ rpc \in [op : Ops \union {"none"}, pc : RpcPcs, seen : Nat, val : AnyJournal]
  /\ wk \in [Jobs -> [pc : WorkPcs, val : AnyJournal, syncing : BOOLEAN]]
  /\ rec \in [Recoverers -> [pc : RecPcs, val : AnyJournal,
                             stage : {"check", "write", "sync"}]]
  /\ init \in [pc : {"idle", "stop", "boot", "gate", "start", "done"},
               by : Jobs \union {"init", "rpc", "reload"}, full : BOOLEAN]
  /\ tick \in {"idle", "guarded", "holding", "checking"}
  /\ tunnel \in {"none", "up", "ending", "next"} /\ stopped \in BOOLEAN /\ meddled \in BOOLEAN
  /\ \A b \in DOMAIN budget : budget[b] \in Nat

\* A triple of files is whole for a finished job if none of them still holds
\* what the job decided against.
Whole(v, s, c, p) ==
  LET lost == IF v.phase = "COMMITTED" THEN v.before ELSE v.after
      kept == IF v.phase = "COMMITTED" THEN v.after ELSE v.before
  IN  /\ s.body = lost.state.body => s.body = kept.state.body
      /\ c = lost.config => c = kept.config
      /\ p = lost.policy => p = kept.policy

\* recover_locked() and the worker: a job that says it is finished has restored
\* all three files or none, whoever died or failed in between.
FinishedIsWhole ==
  Terminal(mem.journal) => Whole(mem.journal, mem.state, mem.config, mem.policy)

\* backup-service.uc syncs what a phase stands on before it publishes the phase:
\* the same of every combination of files a power loss can leave on the flash.
DurablyWhole ==
  \A v \in disk.journal :
    Terminal(v) => \A s \in disk.state, c \in disk.config, p \in disk.policy :
                     Whole(v, s, c, p)

\* No tunnel runs but one that has been told to end, and none is to follow it.
Down == tunnel \in {"none", "ending"}

\* quiesce, and the gate of start_service: while the files of a restore are half
\* replaced no tunnel starts or goes on unasked, although the gate looks at the
\* journal without a lock and starts later, and one that was told to end may be
\* followed by another.
NoTunnelHalfway ==
  mem.journal # NoJournal /\ mem.journal.phase \in {"APPLYING", "STATE_COMMITTING"}
    => Down

\* stop_server against a restore: an accepted Stop is never undone by the worker,
\* by a recovery or by a restart, only by the owner's next request.
StopWins == stopped => ~mem.state.active

\* A step makes state.json what the restore of the journal wants.
Commits ==
  /\ mem'.journal # NoJournal /\ mem'.journal.phase = "STATE_COMMITTING"
  /\ mem'.state # mem.state /\ mem'.state = mem'.journal.after.state
  /\ mem'.state.rev >= mem.state.rev  \* a power loss takes it back

\* It finds the moment the job was queued at.
UpToDate ==
  LET v == mem.journal IN
  /\ v = mem'.journal
  /\ mem.keys = v.keys /\ mem.intent = v.intent
  /\ mem.state = v.before.state

\* The worker's locked sections: the step that replaces state.json finds the
\* credentials, the Stop intent and the revision of the moment the job was
\* queued, whatever rpcd served meanwhile.
CommitIsCurrent == [][Commits => UpToDate]_mem

\* recover_locked(): deaths, power losses, lock contention, Stop and credential
\* changes alone never leave a restore that needs a human.
StuckOnlyIfMeddled == Stuck(mem.journal) => meddled

\* BACKUP-ARCHITECTURE.md: "A precommit interruption rolls back only the
\* transaction's own UCI/policy writes", while "RPC remains available for Stop,
\* PIN changes and pairing revocation": once a worker has ended, and no restart
\* recovers in its place, what it wrote before the commit is undone.
WorkerUndoesItsWrites ==
  \A j \in Jobs :
    /\ wk[j].pc = "gone" /\ mem.journal # NoJournal /\ mem.journal.id = j
    /\ rpc.pc = "idle" /\ init.pc = "idle"
    => mem.journal.phase # "APPLYING"

\* foxhole.uc, backup-service.uc: whoever waits for the state lock or for the
\* init script gets it, so that calls and workers end.
EverybodyReturns ==
  /\ rpc.pc # "idle" ~> rpc.pc = "idle"
  /\ \A j \in Jobs : wk[j].pc = "context" ~> wk[j].pc = "gone"

------------------------------------------------------------------------------
(* Restores as one change of the settings *)

\* The settings the files amount to: while a job is pending, what it found stands
\* for the product files it may have replaced, unless state.json is its own already.
Amount(v, s, c, p) ==
  IF Pending(v) /\ s.body.doc # v.id
  THEN [state |-> s, config |-> v.before.config, policy |-> v.before.policy]
  ELSE [state |-> s, config |-> c, policy |-> p]

InForce   == Amount(mem.journal, mem.state, mem.config, mem.policy)
Surviving == {Amount(v, s, c, p) : v \in disk.journal, s \in disk.state,
                                   c \in disk.config, p \in disk.policy}

InMemory == INSTANCE Settings WITH
  settings <- InForce,
  kept <- {InForce},
  disturbed <- \/ budget.edits # MaxEdits \/ budget.losses # MaxLosses
               \/ Stuck(mem.journal)

AcrossLosses == INSTANCE Settings WITH
  settings <- InForce,
  kept <- Surviving,
  disturbed <- meddled \/ budget.deaths # MaxDeaths

\* backup-service.uc: whoever dies, fails or is served meanwhile, a restore is one
\* change of the three files or none, based on the state it replaces - until
\* somebody else commits the panel options, the power goes, or it says that it
\* needs a human.
RestoresAtOnce == InMemory!SSpec

\* With the order of the writes and the syncs between them, the same of what power
\* losses leave on the flash, as long as nobody is killed and nothing meddles.
LosesNoHalf == AcrossLosses!SSpec

==============================================================================
