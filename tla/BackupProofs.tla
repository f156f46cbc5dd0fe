---------------------------- MODULE BackupProofs ----------------------------
(* What a restore promises, for any jobs, documents and budgets: types, that *)
(* no tunnel is kept or started over half replaced files, and that a Stop is *)
(* never undone.                                                             *)
EXTENDS Backup, TLAPS

-----------------------------------------------------------------------------
(* Types                                                                     *)

Section  == {"apply", "config", "policy", "mark", "state", "commit"}
HasVal   == {"engine", "first", "quiesce", "quiescing"} \cup Section
Enqueued == {"prepare", "queued", "launch"}
Halfway(v) == v # NoJournal /\ v.phase \in {"APPLYING", "STATE_COMMITTING"}
Spent    == {"calls", "faults", "deaths", "losses", "edits", "ticks", "reloads"}

FilesOK ==
  /\ DOMAIN mem = Files /\ DOMAIN disk = Files
  /\ \A f \in Files : FileOK(f, mem[f]) /\ mem[f] \in disk[f]
                      /\ \A v \in disk[f] : FileOK(f, v)
HoldersOK == engineLock \in Holders /\ stateLock \in Holders
RpcOK ==
  /\ rpc \in [op : Ops \union {"none"}, pc : RpcPcs, seen : Nat, val : AnyJournal]
  /\ rpc.pc \in Enqueued => rpc.val \in Journals
  /\ rpc.pc = "wait" => rpc.op \in {"stop", "revoke", "keys", "product"}
  /\ rpc.pc = "intent" => rpc.op = "stop"
  /\ rpc.pc = "write" => rpc.op \in {"stop", "revoke", "product"}
WkOK ==
  /\ wk \in [Jobs -> [pc : WorkPcs, val : AnyJournal, syncing : BOOLEAN]]
  /\ \A j \in Jobs : /\ wk[j].pc \in HasVal => wk[j].val \in Journals
                     /\ wk[j].syncing => wk[j].pc \in Section
RecOK ==
  /\ rec \in [Recoverers -> [pc : RecPcs, val : AnyJournal,
                             stage : {"check", "write", "sync"}]]
  /\ \A p \in Recoverers : rec[p].pc \in RecWrites => rec[p].val \in Journals
InitOK ==
  init \in [pc : {"idle", "stop", "boot", "gate", "start", "done"},
            by : Jobs \union {"init", "rpc", "reload"}, full : BOOLEAN]
FlagsOK ==
  /\ tick \in {"idle", "guarded", "holding", "checking"}
  /\ tunnel \in {"none", "up", "ending", "next"} /\ stopped \in BOOLEAN /\ meddled \in BOOLEAN
BudgetOK == /\ DOMAIN budget = Spent /\ \A b \in Spent : budget[b] \in Nat
            /\ budget.ticks <= MaxTicks /\ budget.edits <= MaxEdits
            /\ budget.losses <= MaxLosses /\ budget.deaths <= MaxDeaths
            /\ budget.faults <= MaxFaults

(* TypeOK, the domains of files and budgets, and that whoever is to write    *)
(* from a journal has one.                                                   *)
TypeInv ==
  FilesOK /\ HoldersOK /\ RpcOK /\ WkOK /\ RecOK /\ InitOK /\ FlagsOK /\ BudgetOK

LEMMA NoName ==
  /\ "rpc" \notin Jobs /\ "init" \notin Jobs /\ "tick" \notin Jobs /\ "free" \notin Jobs
  /\ \A j \in Jobs : j \in Recoverers /\ j \in Holders
  /\ "rpc" \in Recoverers /\ "init" \in Recoverers
  /\ \A p \in Recoverers : p \in Holders
  BY BackupAssumption DEF Recoverers, Holders

LEMMA RecTables ==
  /\ RecWrites = {"config", "policy", "publish", "error"}
  /\ RecNext.config = "policy" /\ RecNext.policy = "publish"
  /\ RecNext.publish = "ok" /\ RecNext.error = "fail"
  BY DEF RecWrites, RecNext

LEMMA WorkTables ==
  /\ DOMAIN WorkNext = Section /\ DOMAIN Marks = {"apply", "mark", "commit"}
  /\ WorkNext.apply = "config" /\ WorkNext.config = "policy" /\ WorkNext.policy = "mark"
  /\ WorkNext.mark = "state" /\ WorkNext.state = "commit" /\ WorkNext.commit = "resume"
  /\ WorkFile.apply = "journal" /\ WorkFile.mark = "journal" /\ WorkFile.commit = "journal"
  /\ WorkFile.config = "config" /\ WorkFile.policy = "policy" /\ WorkFile.state = "state"
  /\ Marks.apply = "APPLYING" /\ Marks.mark = "STATE_COMMITTING"
  /\ Marks.commit = "COMMITTED"
  BY DEF WorkNext, WorkFile, Marks, Section

LEMMA Kinds ==
  /\ \A v : FileOK("state", v) <=> v \in States
  /\ \A v : FileOK("config", v) <=> v \in Panels
  /\ \A v : FileOK("policy", v) <=> v \in Policies
  /\ \A v : FileOK("journal", v) <=> v \in AnyJournal
  /\ \A v : FileOK("intent", v) <=> v \in Nat
  /\ \A v : FileOK("keys", v) <=> v \in Keys
  BY DEF FileOK

LEMMA FileTypes ==
  ASSUME FilesOK
  PROVE  /\ mem.state \in States /\ mem.config \in Panels /\ mem.policy \in Policies
         /\ mem.journal \in AnyJournal /\ mem.intent \in Nat /\ mem.keys \in Keys
         /\ mem.journal # NoJournal => mem.journal \in Journals
  BY Kinds DEF FilesOK, Files, AnyJournal

LEMMA PutFile ==
  ASSUME FilesOK, NEW f \in Files, NEW v, FileOK(f, v), Put(f, v)
  PROVE  /\ FilesOK' /\ mem'[f] = v
         /\ \A g \in Files : g # f => mem'[g] = mem[g]
<1>1. /\ DOMAIN mem' = Files /\ DOMAIN disk' = Files
      /\ mem'[f] = v /\ \A g \in Files : g # f => mem'[g] = mem[g] /\ disk'[g] = disk[g]
      /\ disk'[f] = disk[f] \union {v}
  BY DEF Put, FilesOK
<1>2. ASSUME NEW g \in Files
      PROVE  FileOK(g, mem'[g]) /\ mem'[g] \in disk'[g] /\ \A w \in disk'[g] : FileOK(g, w)
  BY <1>1 DEF FilesOK
<1> QED
  BY <1>1, <1>2 DEF FilesOK, FileOK

LEMMA SyncFiles ==
  ASSUME FilesOK, Sync
  PROVE  FilesOK' /\ mem' = mem
<1>1. mem' = mem /\ DOMAIN disk' = Files /\ \A f \in Files : disk'[f] = {mem[f]}
  BY DEF Sync
<1>2. \A f \in Files : /\ FileOK(f, mem'[f]) /\ mem'[f] \in disk'[f]
                       /\ \A v \in disk'[f] : FileOK(f, v)
  BY <1>1 DEF FilesOK
<1> QED
  BY <1>1, <1>2 DEF FilesOK, FileOK

(* Whatever a step leaves alone keeps its type.                              *)
LEMMA Alike ==
  /\ FilesOK /\ UNCHANGED <<mem, disk>> => FilesOK'
  /\ HoldersOK /\ UNCHANGED locks => HoldersOK'
  /\ RpcOK /\ UNCHANGED rpc => RpcOK'
  /\ WkOK /\ UNCHANGED wk => WkOK'
  /\ RecOK /\ UNCHANGED rec => RecOK'
  /\ InitOK /\ UNCHANGED init => InitOK'
  /\ FlagsOK /\ UNCHANGED <<tick, tunnel, stopped, meddled>> => FlagsOK'
  /\ BudgetOK /\ UNCHANGED budget => BudgetOK'
<1>1. FilesOK /\ UNCHANGED <<mem, disk>> => FilesOK'
  BY DEF FilesOK, FileOK
<1>2. HoldersOK /\ UNCHANGED locks => HoldersOK'
  BY DEF HoldersOK, locks
<1>3. (RpcOK /\ UNCHANGED rpc => RpcOK') /\ (WkOK /\ UNCHANGED wk => WkOK')
  BY DEF RpcOK, WkOK
<1>4. (RecOK /\ UNCHANGED rec => RecOK') /\ (InitOK /\ UNCHANGED init => InitOK')
  BY DEF RecOK, InitOK
<1>5. (FlagsOK /\ UNCHANGED <<tick, tunnel, stopped, meddled>> => FlagsOK')
      /\ (BudgetOK /\ UNCHANGED budget => BudgetOK')
  BY DEF FlagsOK, BudgetOK
<1> QED
  BY <1>1, <1>2, <1>3, <1>4, <1>5

LEMMA Frees ==
  ASSUME HoldersOK, NEW p
  PROVE  Free(engineLock, p) \in Holders /\ Free(stateLock, p) \in Holders
  BY DEF HoldersOK, Free, Holders

LEMMA Releases ==
  ASSUME HoldersOK, NEW p, Release(p)
  PROVE  HoldersOK'
  BY Frees DEF Release, HoldersOK

LEMMA WorkGoes ==
  ASSUME WkOK, NEW j \in Jobs, NEW pc \in WorkPcs, Goto(j, pc),
         pc \in HasVal => wk[j].pc \in HasVal
  PROVE  WkOK' /\ wk'[j].pc = pc /\ wk'[j].syncing = FALSE /\ wk'[j].val = wk[j].val
         /\ \A i \in Jobs : i # j => wk'[i] = wk[i]
<1>1. wk' = [wk EXCEPT ![j] = [wk[j] EXCEPT !.pc = pc, !.syncing = FALSE]]
  BY DEF Goto, WkOK
<1> QED
  BY <1>1 DEF WkOK

LEMMA RecGoes ==
  ASSUME RecOK, NEW p \in Recoverers, NEW pc \in RecPcs,
         NEW stage \in {"check", "write", "sync"}, RecGoto(p, pc, stage),
         pc \in RecWrites => rec[p].pc \in RecWrites
  PROVE  RecOK' /\ rec'[p].pc = pc /\ rec'[p].stage = stage /\ rec'[p].val = rec[p].val
         /\ \A q \in Recoverers : q # p => rec'[q] = rec[q]
<1>1. rec' = [rec EXCEPT ![p] = [rec[p] EXCEPT !.pc = pc, !.stage = stage]]
  BY DEF RecGoto, RecOK
<1> QED
  BY <1>1 DEF RecOK

LEMMA RecGoesOn ==
  ASSUME RecOK, NEW p \in Recoverers, rec[p].pc \in RecWrites, RecOn(p)
  PROVE  /\ RecOK' /\ \A q \in Recoverers : q # p => rec'[q] = rec[q]
         /\ rec'[p].val = rec[p].val
         /\ \/ rec[p].pc = "config" /\ rec'[p].pc = "policy" /\ rec'[p].stage = "check"
            \/ rec[p].pc = "policy" /\ rec'[p].pc = "publish" /\ rec'[p].stage = "write"
            \/ rec[p].pc = "publish" /\ rec'[p].pc = "ok" /\ rec'[p].stage = "check"
            \/ rec[p].pc = "error" /\ rec'[p].pc = "fail" /\ rec'[p].stage = "check"
<1>0. rec[p].pc \in {"config", "policy", "publish", "error"}
  BY RecTables
<1>1. \/ rec[p].pc = "config" /\ RecGoto(p, "policy", "check")
      \/ rec[p].pc = "policy" /\ RecGoto(p, "publish", "write")
      \/ rec[p].pc = "publish" /\ RecGoto(p, "ok", "check")
      \/ rec[p].pc = "error" /\ RecGoto(p, "fail", "check")
  BY <1>0, RecTables DEF RecOn, RecStage
<1>2. rec[p] \in [pc : RecPcs, val : AnyJournal, stage : {"check", "write", "sync"}]
  BY DEF RecOK
<1>3. {"policy", "publish", "ok", "fail"} \subseteq RecPcs
  BY RecTables DEF RecPcs
<1>4. CASE rec[p].pc = "config" /\ RecGoto(p, "policy", "check")
  BY <1>2, <1>3, <1>4, RecGoes
<1>5. CASE rec[p].pc = "policy" /\ RecGoto(p, "publish", "write")
  BY <1>2, <1>3, <1>5, RecGoes
<1>6. CASE rec[p].pc = "publish" /\ RecGoto(p, "ok", "check")
  BY <1>2, <1>3, <1>6, RecGoes
<1>7. CASE rec[p].pc = "error" /\ RecGoto(p, "fail", "check")
  BY <1>2, <1>3, <1>7, RecGoes
<1> QED
  BY <1>1, <1>4, <1>5, <1>6, <1>7

LEMMA Recoveries ==
  ASSUME RecOK, NEW p \in Recoverers, NEW pc \in {"off", "peek", "read"}, Recover(p, pc)
  PROVE  /\ RecOK' /\ rec'[p].pc = pc /\ rec'[p].val = NoJournal /\ rec'[p].stage = "check"
         /\ \A q \in Recoverers : q # p => rec'[q] = rec[q]
<1> DEFINE new == [NotRecovering EXCEPT !.pc = pc]
<1>1. rec' = [rec EXCEPT ![p] = new]
  BY DEF Recover
<1>2. pc \in RecPcs /\ pc \notin RecWrites /\ NoJournal \in AnyJournal
  BY RecTables DEF RecPcs, AnyJournal
<1>3. /\ new \in [pc : RecPcs, val : AnyJournal, stage : {"check", "write", "sync"}]
      /\ new.pc = pc /\ new.val = NoJournal /\ new.stage = "check"
  BY <1>2 DEF NotRecovering
<1> HIDE DEF new
<1> QED
  BY <1>1, <1>2, <1>3 DEF RecOK

LEMMA JournalTypes ==
  ASSUME NEW v \in Journals
  PROVE  /\ v.before \in Triples /\ v.after \in Triples /\ v.intent \in Nat /\ v.id \in Jobs
         /\ v.before.state \in States /\ v.after.state \in States
         /\ \A f \in Products : FileOK(f, v.before[f]) /\ FileOK(f, v.after[f])
         /\ \A ph \in Phases : /\ [v EXCEPT !.phase = ph] \in Journals
                               /\ [v EXCEPT !.phase = ph].phase = ph
                               /\ [v EXCEPT !.phase = ph].id = v.id
                               /\ [v EXCEPT !.phase = ph].intent = v.intent
         /\ v \in AnyJournal
<1>1. /\ v.before \in Triples /\ v.after \in Triples /\ v.intent \in Nat /\ v.id \in Jobs
      /\ v \in AnyJournal
  BY DEF Journals, AnyJournal
<1>2. \A t \in Triples : t.state \in States /\ t.config \in Panels /\ t.policy \in Policies
  BY DEF Triples
<1>3. \A f \in Products : FileOK(f, v.before[f]) /\ FileOK(f, v.after[f])
  BY <1>1, <1>2, Kinds DEF Products
<1>4. \A ph \in Phases : /\ [v EXCEPT !.phase = ph] \in Journals
                         /\ [v EXCEPT !.phase = ph].phase = ph
                         /\ [v EXCEPT !.phase = ph].id = v.id
                         /\ [v EXCEPT !.phase = ph].intent = v.intent
  BY DEF Journals
<1> QED
  BY <1>1, <1>2, <1>3, <1>4

LEMMA RpcGoes ==
  ASSUME RpcOK, NEW pc \in RpcPcs, RpcGoto(pc), pc \in Enqueued => rpc.pc \in Enqueued,
         pc # "wait", pc = "intent" => rpc.op = "stop",
         pc = "write" => rpc.op \in {"stop", "revoke", "product"}
  PROVE  RpcOK' /\ rpc'.pc = pc /\ rpc'.val = rpc.val /\ rpc'.op = rpc.op
  BY DEF RpcGoto, RpcOK

LEMMA RpcEnds ==
  ASSUME RpcOK, rpc' = NoCall
  PROVE  RpcOK' /\ rpc'.pc = "idle" /\ rpc'.op = "none"
  BY DEF RpcOK, NoCall, RpcPcs, Enqueued, AnyJournal

LEMMA Spends ==
  ASSUME BudgetOK, NEW b \in Spent, budget[b] > 0,
         budget' = [budget EXCEPT ![b] = budget[b] - 1]
  PROVE  BudgetOK'
  BY BackupAssumption DEF BudgetOK, Spent

-----------------------------------------------------------------------------
(* Types: a run of recover()                                                 *)

LEMMA RecPeekTypes ==
  ASSUME TypeInv, NEW p \in Recoverers, RecPeek(p)
  PROVE  TypeInv'
<1>1. RecGoto(p, "engine", "check") \/ RecGoto(p, "ok", "check")
  BY DEF RecPeek
<1>2. RecOK'
  BY <1>1, RecGoes, RecTables DEF TypeInv, RecPcs
<1> QED
  BY <1>2, Alike DEF TypeInv, RecPeek

LEMMA RecEngineTypes ==
  ASSUME TypeInv, NEW p \in Recoverers, RecEngine(p)
  PROVE  TypeInv'
<1>1. RecGoto(p, "state", "check") \/ RecGoto(p, "fail", "check")
  BY DEF RecEngine
<1>2. RecOK'
  BY <1>1, RecGoes, RecTables DEF TypeInv, RecPcs
<1>3. HoldersOK'
  BY NoName DEF TypeInv, RecEngine, HoldersOK
<1> QED
  BY <1>2, <1>3, Alike DEF TypeInv, RecEngine

LEMMA RecStateTypes ==
  ASSUME TypeInv, NEW p \in Recoverers, RecState(p)
  PROVE  TypeInv'
<1>1. RecGoto(p, "read", "check") \/ RecGoto(p, "fail", "check")
  BY DEF RecState
<1>2. RecOK'
  BY <1>1, RecGoes, RecTables DEF TypeInv, RecPcs
<1>3. HoldersOK'
  BY NoName, Releases DEF TypeInv, RecState, HoldersOK
<1> QED
  BY <1>2, <1>3, Alike DEF TypeInv, RecState

(* What recover_locked() decides is a phase, and its journal keeps its type. *)
LEMMA Verdicts ==
  ASSUME NEW v \in Journals
  PROVE  /\ Verdict(v) \in {"CANCELLED", "COMMITTED", "RECOVERY_REQUIRED"}
         /\ Verdict(v) \in Phases
  BY DEF Verdict, Phases

LEMMA RecReads ==
  ASSUME TypeInv, NEW p \in Recoverers, RecRead(p)
  PROVE  /\ RecOK' /\ \A q \in Recoverers : q # p => rec'[q] = rec[q]
         /\ \/ ~Pending(mem.journal) /\ rec'[p].pc = "ok" /\ rec'[p].stage = "check"
            \/ Pending(mem.journal) /\ rec'[p].pc = "fail" /\ rec'[p].stage = "check"
            \/ /\ Pending(mem.journal) /\ rec'[p].val \in Journals
               /\ rec'[p].val.id = mem.journal.id
               /\ rec'[p].val.intent = mem.journal.intent
               /\ \/ rec'[p].pc = "config" /\ rec'[p].stage = "check"
                     /\ rec'[p].val.phase = "CANCELLED"
                  \/ rec'[p].pc = "publish" /\ rec'[p].stage = "write"
                     /\ rec'[p].val.phase = "COMMITTED"
                  \/ rec'[p].pc = "error" /\ rec'[p].stage = "write"
<1> DEFINE v == mem.journal
           w == [v EXCEPT !.phase = Verdict(v)]
           to(pc, stage) == [pc |-> pc, val |-> w, stage |-> stage]
<1>1. CASE ~Pending(v)
  <2>1. RecGoto(p, "ok", "check")
    BY <1>1 DEF RecRead
  <2> QED
    BY <1>1, <2>1, RecGoes, RecTables DEF TypeInv, RecPcs
<1>2. CASE Pending(v) /\ Stuck(v)
  <2>1. RecGoto(p, "fail", "check")
    BY <1>2 DEF RecRead
  <2> QED
    BY <1>2, <2>1, RecGoes, RecTables DEF TypeInv, RecPcs
<1>3. CASE Pending(v) /\ ~Stuck(v)
  <2>1. v \in Journals
    BY <1>3, FileTypes DEF TypeInv, Pending
  <2>2. /\ w \in Journals /\ w.phase = Verdict(v) /\ w.id = v.id /\ w.intent = v.intent
        /\ w \in AnyJournal
    BY <2>1, Verdicts, JournalTypes DEF AnyJournal
  <2>3. \/ rec' = [rec EXCEPT ![p] = to("config", "check")] /\ w.phase = "CANCELLED"
        \/ rec' = [rec EXCEPT ![p] = to("publish", "write")] /\ w.phase = "COMMITTED"
        \/ rec' = [rec EXCEPT ![p] = to("error", "write")]
    BY <1>3 DEF RecRead
  <2>4. \A pc \in RecWrites, stage \in {"check", "write"} :
          rec' = [rec EXCEPT ![p] = to(pc, stage)] =>
            /\ RecOK' /\ \A q \in Recoverers : q # p => rec'[q] = rec[q]
            /\ rec'[p].pc = pc /\ rec'[p].stage = stage /\ rec'[p].val = w
    <3> HIDE DEF w
    <3> QED BY <2>2 DEF TypeInv, RecOK, RecPcs
  <2> HIDE DEF w
  <2> QED
    BY <1>3, <2>2, <2>3, <2>4, RecTables
<1> QED
  BY <1>1, <1>2, <1>3

LEMMA RecReadTypes ==
  ASSUME TypeInv, NEW p \in Recoverers, RecRead(p)
  PROVE  TypeInv'
  BY RecReads, Alike DEF TypeInv, RecRead

(* A check of a product file goes on, writes it back, or finds it foreign.   *)
LEMMA RecChecks ==
  ASSUME TypeInv, NEW p \in Recoverers, RecCheck(p)
  PROVE  /\ RecOK' /\ \A q \in Recoverers : q # p => rec'[q] = rec[q]
         /\ rec'[p].val = rec[p].val
         /\ \/ rec[p].pc = "config" /\ rec'[p].pc = "policy" /\ rec'[p].stage = "check"
            \/ rec[p].pc = "policy" /\ rec'[p].pc = "publish" /\ rec'[p].stage = "write"
            \/ rec[p].pc = "publish" /\ rec'[p].pc = "ok" /\ rec'[p].stage = "check"
            \/ rec[p].pc = "error" /\ rec'[p].pc = "fail" /\ rec'[p].stage = "check"
            \/ rec'[p].pc = "error" /\ rec'[p].stage = "write"
            \/ rec'[p].pc = rec[p].pc /\ rec'[p].stage = "write"
<1>1. rec[p].pc \in RecWrites /\ rec[p].pc \in RecPcs
  BY DEF RecCheck, RecAt, RecPcs
<1>2. RecOn(p) \/ RecGoto(p, "error", "write") \/ RecGoto(p, rec[p].pc, "write")
  BY DEF RecCheck
<1>3. CASE RecOn(p)
  BY <1>1, <1>3, RecGoesOn DEF TypeInv
<1>4. CASE RecGoto(p, "error", "write")
  BY <1>1, <1>4, RecGoes, RecTables DEF TypeInv, RecPcs
<1>5. CASE RecGoto(p, rec[p].pc, "write")
  BY <1>1, <1>5, RecGoes DEF TypeInv
<1> QED
  BY <1>2, <1>3, <1>4, <1>5

LEMMA RecCheckTypes ==
  ASSUME TypeInv, NEW p \in Recoverers, RecCheck(p)
  PROVE  TypeInv'
  BY RecChecks, Alike DEF TypeInv, RecCheck

(* What a recovery writes: a product file as it was, or the journal.         *)
LEMMA RecWritesFile ==
  ASSUME TypeInv, NEW p \in Recoverers, RecWrite(p)
  PROVE  /\ FilesOK'
         /\ \A f \in Files : f # rec[p].pc /\ f # "journal" => mem'[f] = mem[f]
         /\ rec[p].pc \in Products => mem'.journal = mem.journal
         /\ rec[p].pc = "publish" => mem'.journal = rec[p].val
         /\ rec[p].pc = "error" => /\ mem'.journal \in Journals
                                   /\ mem'.journal.id = rec[p].val.id
                                   /\ mem'.journal.intent = rec[p].val.intent
                                   /\ mem'.journal.phase = "RECOVERY_REQUIRED"
         /\ rec[p].pc \in {"config", "policy", "publish", "error"}
<1> DEFINE v == rec[p].val
           stuck == [v EXCEPT !.phase = "RECOVERY_REQUIRED"]
<1>1. rec[p].pc \in {"config", "policy", "publish", "error"} /\ v \in Journals
  BY RecTables DEF RecWrite, RecAt, TypeInv, RecOK
<1>2. /\ \A f \in Products : FileOK(f, v.before[f])
      /\ v \in AnyJournal /\ stuck \in Journals /\ stuck \in AnyJournal
      /\ stuck.id = v.id /\ stuck.intent = v.intent /\ stuck.phase = "RECOVERY_REQUIRED"
  BY <1>1, JournalTypes DEF Phases, AnyJournal
<1>3. /\ rec[p].pc = "config" => Put("config", v.before.config)
      /\ rec[p].pc = "policy" => Put("policy", v.before.policy)
      /\ rec[p].pc = "publish" => Put("journal", v)
      /\ rec[p].pc = "error" => Put("journal", stuck)
  BY <1>1 DEF RecWrite, Products
<1> HIDE DEF stuck
<1>4. FileOK("config", v.before.config) /\ FileOK("policy", v.before.policy)
      /\ FileOK("journal", v) /\ FileOK("journal", stuck)
  BY <1>2, Kinds DEF Products
<1>5. CASE rec[p].pc = "config"
  <2>1. FilesOK' /\ \A g \in Files : g # "config" => mem'[g] = mem[g]
    BY <1>3, <1>4, <1>5, PutFile DEF TypeInv, Files
  <2> QED BY <1>1, <1>5, <2>1 DEF Files, Products
<1>6. CASE rec[p].pc = "policy"
  <2>1. FilesOK' /\ \A g \in Files : g # "policy" => mem'[g] = mem[g]
    BY <1>3, <1>4, <1>6, PutFile DEF TypeInv, Files
  <2> QED BY <1>1, <1>6, <2>1 DEF Files, Products
<1>7. CASE rec[p].pc = "publish"
  <2>1. FilesOK' /\ mem'.journal = v /\ \A g \in Files : g # "journal" => mem'[g] = mem[g]
    BY <1>3, <1>4, <1>7, PutFile DEF TypeInv, Files
  <2> QED BY <1>1, <1>7, <2>1 DEF Files, Products
<1>8. CASE rec[p].pc = "error"
  <2>1. FilesOK' /\ mem'.journal = stuck /\ \A g \in Files : g # "journal" => mem'[g] = mem[g]
    BY <1>3, <1>4, <1>8, PutFile DEF TypeInv, Files
  <2> QED BY <1>1, <1>2, <1>8, <2>1 DEF Files, Products
<1> QED
  BY <1>1, <1>5, <1>6, <1>7, <1>8

LEMMA RecWriteTypes ==
  ASSUME TypeInv, NEW p \in Recoverers, RecWrite(p)
  PROVE  TypeInv' /\ rec'[p].pc = rec[p].pc /\ rec'[p].stage = "sync"
         /\ rec'[p].val = rec[p].val
         /\ \A q \in Recoverers : q # p => rec'[q] = rec[q]
<1>1. rec[p].pc \in RecWrites /\ rec[p].pc \in RecPcs /\ RecGoto(p, rec[p].pc, "sync")
  BY DEF RecWrite, RecAt, RecPcs
<1>2. /\ RecOK' /\ rec'[p].pc = rec[p].pc /\ rec'[p].stage = "sync"
      /\ rec'[p].val = rec[p].val
      /\ \A q \in Recoverers : q # p => rec'[q] = rec[q]
  BY <1>1, RecGoes DEF TypeInv
<1> QED
  BY <1>2, RecWritesFile, Alike DEF TypeInv, RecWrite

LEMMA RecSyncs ==
  ASSUME TypeInv, NEW p \in Recoverers, RecSync(p)
  PROVE  /\ FilesOK' /\ mem' = mem
         /\ RecOK' /\ \A q \in Recoverers : q # p => rec'[q] = rec[q]
         /\ rec'[p].val = rec[p].val
         /\ \/ rec[p].pc = "config" /\ rec'[p].pc = "policy" /\ rec'[p].stage = "check"
            \/ rec[p].pc = "policy" /\ rec'[p].pc = "publish" /\ rec'[p].stage = "write"
            \/ rec[p].pc = "publish" /\ rec'[p].pc = "ok" /\ rec'[p].stage = "check"
            \/ rec[p].pc = "error" /\ rec'[p].pc = "fail" /\ rec'[p].stage = "check"
            \/ rec[p].pc \in Products /\ rec'[p].pc = "error" /\ rec'[p].stage = "write"
<1>1. rec[p].pc \in RecWrites /\ Sync
  BY DEF RecSync, RecAt
<1>2. RecOn(p) \/ (rec[p].pc \in Products /\ RecGoto(p, "error", "write"))
  BY DEF RecSync
<1>3. FilesOK' /\ mem' = mem
  BY <1>1, SyncFiles DEF TypeInv
<1>4. CASE RecOn(p)
  BY <1>1, <1>3, <1>4, RecGoesOn DEF TypeInv
<1>5. CASE rec[p].pc \in Products /\ RecGoto(p, "error", "write")
  BY <1>1, <1>3, <1>5, RecGoes, RecTables DEF TypeInv, RecPcs
<1> QED
  BY <1>2, <1>4, <1>5

LEMMA RecSyncTypes ==
  ASSUME TypeInv, NEW p \in Recoverers, RecSync(p)
  PROVE  TypeInv'
  BY RecSyncs, Alike DEF TypeInv, RecSync

LEMMA RecFaults ==
  ASSUME TypeInv, NEW p \in Recoverers, RecFault(p)
  PROVE  /\ RecOK' /\ \A q \in Recoverers : q # p => rec'[q] = rec[q]
         /\ rec'[p].val = rec[p].val
         /\ \/ rec'[p].pc = "fail" /\ rec'[p].stage = "check"
            \/ rec'[p].pc = "error" /\ rec'[p].stage = "write"
<1>1. rec[p].pc \in RecWrites
      /\ (RecGoto(p, "fail", "check") \/ RecGoto(p, "error", "write"))
  BY DEF RecFault
<1> QED
  BY <1>1, RecGoes, RecTables DEF TypeInv, RecPcs

-----------------------------------------------------------------------------
(* Types: the worker of a job                                                *)

LEMMA WorkPlaces ==
  /\ {"off", "context", "engine", "first", "quiesce", "quiescing", "catch", "recovering",
      "resume", "resuming", "abort", "aborting", "gone"} \subseteq WorkPcs
  /\ Section \subseteq WorkPcs /\ Section \subseteq HasVal
  /\ \A pc \in {"off", "context", "catch", "recovering", "resume", "resuming", "abort",
                "aborting", "gone"} : pc \notin HasVal
  BY WorkTables DEF WorkPcs, HasVal, Section

(* The worker goes on with another journal.                                  *)
LEMMA WorkTakes ==
  ASSUME WkOK, NEW j \in Jobs, NEW pc \in WorkPcs, NEW v \in AnyJournal,
         wk' = [wk EXCEPT ![j].pc = pc, ![j].val = v], pc \in HasVal => v \in Journals,
         ~wk[j].syncing
  PROVE  /\ WkOK' /\ wk'[j].pc = pc /\ wk'[j].val = v /\ ~wk'[j].syncing
         /\ \A i \in Jobs : i # j => wk'[i] = wk[i]
<1>1. wk' = [wk EXCEPT ![j] = [wk[j] EXCEPT !.pc = pc, !.val = v]]
  BY DEF WkOK
<1> QED
  BY <1>1 DEF WkOK

LEMMA WorkContextTypes ==
  ASSUME TypeInv, NEW j \in Jobs, WorkContext(j)
  PROVE  /\ TypeInv' /\ wk'[j].val = mem.journal /\ ~wk'[j].syncing
         /\ \/ wk'[j].pc = "engine" /\ mem.journal \in Journals /\ mem.journal.id = j
            \/ wk'[j].pc = "gone"
         /\ \A i \in Jobs : i # j => wk'[i] = wk[i]
<1> DEFINE v == mem.journal
<1>1. v \in AnyJournal /\ (v # NoJournal => v \in Journals) /\ ~wk[j].syncing
  <2>1. ~wk[j].syncing
    BY DEF WorkContext, At, TypeInv, WkOK, Section
  <2> QED
    BY <2>1, FileTypes DEF TypeInv
<1>2. CASE v # NoJournal /\ v.id = j
  <2>1. wk' = [wk EXCEPT ![j].pc = "engine", ![j].val = v]
    BY <1>2 DEF WorkContext
  <2>2. /\ WkOK' /\ wk'[j].pc = "engine" /\ wk'[j].val = v /\ ~wk'[j].syncing
        /\ \A i \in Jobs : i # j => wk'[i] = wk[i]
    BY <1>1, <1>2, <2>1, WorkTakes, WorkPlaces DEF TypeInv
  <2> QED
    BY <1>1, <1>2, <2>2, Alike DEF TypeInv, WorkContext
<1>3. CASE ~(v # NoJournal /\ v.id = j)
  <2>1. wk' = [wk EXCEPT ![j].pc = "gone", ![j].val = v]
    BY <1>3 DEF WorkContext
  <2>2. /\ WkOK' /\ wk'[j].pc = "gone" /\ wk'[j].val = v /\ ~wk'[j].syncing
        /\ \A i \in Jobs : i # j => wk'[i] = wk[i]
    BY <1>1, <1>3, <2>1, WorkTakes, WorkPlaces DEF TypeInv
  <2> QED
    BY <2>2, Alike DEF TypeInv, WorkContext
<1> QED
  BY <1>2, <1>3

LEMMA WorkEngineTypes ==
  ASSUME TypeInv, NEW j \in Jobs, WorkEngine(j)
  PROVE  /\ TypeInv' /\ wk'[j].val = wk[j].val /\ ~wk'[j].syncing
         /\ \/ wk'[j].pc = "first" /\ engineLock = "free" /\ engineLock' = j
            \/ wk'[j].pc = "abort" /\ engineLock' = engineLock
         /\ \A i \in Jobs : i # j => wk'[i] = wk[i]
<1>1. At(j, "engine") /\ "engine" \in HasVal
  BY DEF WorkEngine, HasVal
<1>2. CASE engineLock = "free"
  <2>1. Goto(j, "first") /\ engineLock' = j
    BY <1>2 DEF WorkEngine
  <2>2. /\ WkOK' /\ wk'[j].pc = "first" /\ wk'[j].val = wk[j].val /\ ~wk'[j].syncing
        /\ \A i \in Jobs : i # j => wk'[i] = wk[i]
    BY <1>1, <2>1, WorkGoes, WorkPlaces DEF TypeInv, At
  <2>3. HoldersOK'
    BY <2>1, NoName DEF TypeInv, HoldersOK, WorkEngine
  <2> QED
    BY <1>2, <2>1, <2>2, <2>3, Alike DEF TypeInv, WorkEngine
<1>3. CASE engineLock # "free"
  <2>1. Goto(j, "abort") /\ engineLock' = engineLock
    BY <1>3 DEF WorkEngine
  <2>2. /\ WkOK' /\ wk'[j].pc = "abort" /\ wk'[j].val = wk[j].val /\ ~wk'[j].syncing
        /\ \A i \in Jobs : i # j => wk'[i] = wk[i]
    BY <2>1, WorkGoes, WorkPlaces DEF TypeInv
  <2>3. HoldersOK'
    BY <2>1 DEF TypeInv, HoldersOK, WorkEngine
  <2> QED
    BY <1>3, <2>1, <2>2, <2>3, Alike DEF TypeInv, WorkEngine
<1> QED
  BY <1>2, <1>3

LEMMA WorkFirstTypes ==
  ASSUME TypeInv, NEW j \in Jobs, WorkFirst(j)
  PROVE  /\ TypeInv'
         /\ \/ wk'[j].pc \in {"abort", "gone"} /\ ~wk'[j].syncing /\ Release(j)
            \/ /\ wk'[j].pc = "quiesce" /\ wk'[j].val = mem.journal
               /\ ~wk'[j].syncing
               /\ mem.journal \in Journals /\ mem.journal.id = j /\ Pending(mem.journal)
               /\ UNCHANGED locks
         /\ \A i \in Jobs : i # j => wk'[i] = wk[i]
<1> DEFINE v == mem.journal
           own == v # NoJournal /\ v.id = j
           bad == stateLock # "free" \/ mem.keys.owner # wk[j].val.owner \/ ~own \/ Stuck(v)
<1>1. v \in AnyJournal /\ (v # NoJournal => v \in Journals) /\ ~wk[j].syncing
  <2>1. ~wk[j].syncing
    BY DEF WorkFirst, At, TypeInv, WkOK, Section
  <2> QED
    BY <2>1, FileTypes DEF TypeInv
<1>2. CASE bad
  <2>1. Goto(j, "abort") /\ Release(j)
    BY <1>2 DEF WorkFirst
  <2>2. /\ WkOK' /\ wk'[j].pc = "abort" /\ ~wk'[j].syncing
        /\ \A i \in Jobs : i # j => wk'[i] = wk[i]
    BY <2>1, WorkGoes, WorkPlaces DEF TypeInv
  <2>3. HoldersOK'
    BY <2>1, Releases DEF TypeInv
  <2> QED
    BY <2>1, <2>2, <2>3, Alike DEF TypeInv, WorkFirst
<1>3. CASE ~bad /\ Terminal(v)
  <2>1. Goto(j, "gone") /\ Release(j)
    BY <1>3 DEF WorkFirst
  <2>2. /\ WkOK' /\ wk'[j].pc = "gone" /\ ~wk'[j].syncing
        /\ \A i \in Jobs : i # j => wk'[i] = wk[i]
    BY <2>1, WorkGoes, WorkPlaces DEF TypeInv
  <2>3. HoldersOK'
    BY <2>1, Releases DEF TypeInv
  <2> QED
    BY <2>1, <2>2, <2>3, Alike DEF TypeInv, WorkFirst
<1>4. CASE ~bad /\ ~Terminal(v)
  <2>1. wk' = [wk EXCEPT ![j].pc = "quiesce", ![j].val = v] /\ UNCHANGED locks
    BY <1>4 DEF WorkFirst
  <2>2. /\ WkOK' /\ wk'[j].pc = "quiesce" /\ wk'[j].val = v /\ ~wk'[j].syncing
        /\ \A i \in Jobs : i # j => wk'[i] = wk[i]
    BY <1>1, <1>4, <2>1, WorkTakes, WorkPlaces DEF TypeInv
  <2>3. own /\ Pending(v)
    BY <1>4 DEF Pending
  <2> QED
    BY <1>1, <2>1, <2>2, <2>3, Alike DEF TypeInv, WorkFirst
<1> QED
  BY <1>2, <1>3, <1>4

LEMMA Asks ==
  ASSUME NEW by \in Jobs \union {"init", "rpc", "reload"}, NEW full \in BOOLEAN, Ask(by, full)
  PROVE  InitOK' /\ init'.pc = "stop" /\ init'.by = by /\ init'.full = full
  BY DEF Ask, InitOK

LEMMA WorkQuiesceTypes ==
  ASSUME TypeInv, NEW j \in Jobs, WorkQuiesce(j)
  PROVE  /\ TypeInv' /\ wk'[j].pc = "quiescing" /\ ~wk'[j].syncing /\ wk'[j].val = wk[j].val
         /\ init'.pc = "stop" /\ init'.by = j /\ ~init'.full
         /\ \A i \in Jobs : i # j => wk'[i] = wk[i]
<1>1. /\ WkOK' /\ wk'[j].pc = "quiescing" /\ ~wk'[j].syncing /\ wk'[j].val = wk[j].val
      /\ \A i \in Jobs : i # j => wk'[i] = wk[i]
  BY WorkGoes, WorkPlaces DEF TypeInv, WorkQuiesce, At, HasVal
<1>2. InitOK' /\ init'.pc = "stop" /\ init'.by = j /\ ~init'.full
  BY Asks DEF WorkQuiesce
<1> QED
  BY <1>1, <1>2, Alike DEF TypeInv, WorkQuiesce

(* The worker's writes: a phase in the journal, a product file, or state.json *)
(* as the restore would have them.                                           *)
LEMMA WorkWrites ==
  ASSUME TypeInv, NEW j \in Jobs, WorkWrite(j)
  PROVE  /\ TypeInv'
         /\ wk[j].pc \in Section /\ wk[j].val \in Journals
         /\ wk'[j].val = wk[j].val /\ \A i \in Jobs : i # j => wk'[i] = wk[i]
         /\ \/ /\ wk[j].pc \in {"apply", "mark"} /\ wk'[j].pc = "catch" /\ ~wk'[j].syncing
               /\ UNCHANGED <<mem, stateLock>>
            \/ /\ wk'[j].pc = wk[j].pc /\ wk'[j].syncing
               /\ wk[j].pc \in {"apply", "mark"} =>
                    stateLock = "free" /\ stateLock' = j /\ Fresh(wk[j].val)
               /\ wk[j].pc \notin {"apply", "mark"} => stateLock' = stateLock
               /\ wk[j].pc \in {"config", "policy"} =>
                    mem'.journal = mem.journal /\ mem'.state = mem.state
               /\ wk[j].pc = "state" =>
                    mem'.journal = mem.journal /\ mem'.state = wk[j].val.after.state
               /\ wk[j].pc \in {"apply", "mark", "commit"} =>
                    /\ mem'.state = mem.state /\ mem'.journal \in Journals
                    /\ mem'.journal.id = wk[j].val.id
                    /\ mem'.journal.intent = wk[j].val.intent
                    /\ wk[j].pc = "commit" => mem'.journal.phase = "COMMITTED"
                    /\ wk[j].pc # "commit" => Halfway(mem'.journal)
               /\ mem'.intent = mem.intent /\ mem'.keys = mem.keys
<1> DEFINE pc == wk[j].pc
           v == wk[j].val
           marked == [v EXCEPT !.phase = Marks[pc]]
<1>0. pc \in Section
  BY WorkTables DEF WorkWrite
<1>1. pc \in Section /\ pc \in HasVal /\ v \in Journals /\ pc \in WorkPcs
  <2>1. pc \in HasVal /\ pc \in WorkPcs
    BY <1>0, WorkPlaces
  <2> QED
    BY <1>0, <2>1 DEF TypeInv, WkOK
<1>2. CASE pc \in {"apply", "mark"} /\ ~Cleared(j, pc)
  <2>1. Goto(j, "catch") /\ UNCHANGED <<mem, disk, stateLock>>
    BY <1>2 DEF WorkWrite
  <2>2. /\ WkOK' /\ wk'[j].pc = "catch" /\ ~wk'[j].syncing /\ wk'[j].val = wk[j].val
        /\ \A i \in Jobs : i # j => wk'[i] = wk[i]
    BY <2>1, WorkGoes, WorkPlaces DEF TypeInv
  <2>3. HoldersOK'
    BY <2>1 DEF TypeInv, HoldersOK, WorkWrite
  <2>4. TypeInv'
    BY <2>1, <2>2, <2>3, Alike DEF TypeInv, WorkWrite
  <2> QED
    BY <1>1, <1>2, <2>1, <2>2, <2>4
<1>3. CASE ~(pc \in {"apply", "mark"} /\ ~Cleared(j, pc))
  <2>1. /\ Put(WorkFile[pc], IF pc \in DOMAIN Marks THEN marked ELSE v.after[pc])
        /\ Holds(j, pc) /\ wk' = [wk EXCEPT ![j].syncing = TRUE]
    BY <1>3 DEF WorkWrite
  <2>2. /\ WkOK' /\ wk'[j].pc = pc /\ wk'[j].syncing /\ wk'[j].val = v
        /\ \A i \in Jobs : i # j => wk'[i] = wk[i]
    <3>1. wk' = [wk EXCEPT ![j] = [wk[j] EXCEPT !.syncing = TRUE]]
      BY <2>1 DEF TypeInv, WkOK
    <3> QED
      BY <1>1, <3>1 DEF TypeInv, WkOK
  <2>3. /\ pc \in {"apply", "mark"} => stateLock = "free" /\ stateLock' = j /\ Fresh(v)
        /\ pc \notin {"apply", "mark"} => stateLock' = stateLock
    BY <1>3, <2>1 DEF Holds, Cleared
  <2>4. HoldersOK'
    BY <1>1, <2>3, NoName DEF TypeInv, HoldersOK, WorkWrite
  <2>5. /\ pc = "apply" => Marks[pc] = "APPLYING"
        /\ pc = "mark" => Marks[pc] = "STATE_COMMITTING"
        /\ pc = "commit" => Marks[pc] = "COMMITTED"
        /\ pc \in DOMAIN Marks <=> pc \in {"apply", "mark", "commit"}
        /\ pc \in {"apply", "mark", "commit"} => WorkFile[pc] = "journal"
        /\ pc \in {"config", "policy", "state"} => WorkFile[pc] = pc
    BY WorkTables
  <2>6. CASE pc \in {"apply", "mark", "commit"}
    <3>1. Marks[pc] \in Phases
      BY <2>5, <2>6 DEF Phases
    <3>2. /\ marked \in Journals /\ marked \in AnyJournal /\ marked.id = v.id
          /\ marked.intent = v.intent /\ marked.phase = Marks[pc]
      BY <1>1, <3>1, JournalTypes DEF AnyJournal
    <3>3. Put("journal", marked) /\ FileOK("journal", marked)
      BY <2>1, <2>5, <2>6, <3>2, Kinds
    <3> HIDE DEF marked
    <3>4. FilesOK' /\ mem'.journal = marked /\ \A g \in Files : g # "journal" => mem'[g] = mem[g]
      BY <3>3, PutFile DEF TypeInv, Files
    <3>5. /\ mem'.state = mem.state /\ mem'.intent = mem.intent /\ mem'.keys = mem.keys
      BY <3>4 DEF Files
    <3>6. TypeInv'
      BY <2>2, <2>4, <3>4, Alike DEF TypeInv, WorkWrite
    <3>7. marked # NoJournal
      BY <3>2, AbsentAssumption
    <3>8. pc # "commit" => marked.phase \in {"APPLYING", "STATE_COMMITTING"}
      BY <2>5, <2>6, <3>2
    <3> QED
      BY <1>1, <2>2, <2>3, <2>5, <2>6, <3>2, <3>4, <3>5, <3>6, <3>7, <3>8 DEF Halfway
  <2>7. CASE pc \in {"config", "policy", "state"}
    <3>1. FileOK(pc, v.after[pc])
      BY <1>1, <2>7, JournalTypes, Kinds DEF Products
    <3>2. Put(pc, v.after[pc]) /\ pc \in Files
      BY <2>1, <2>5, <2>7 DEF Files
    <3>3. FilesOK' /\ mem'[pc] = v.after[pc] /\ \A g \in Files : g # pc => mem'[g] = mem[g]
      BY <3>1, <3>2, PutFile DEF TypeInv
    <3>4. TypeInv'
      BY <2>2, <2>4, <3>3, Alike DEF TypeInv, WorkWrite
    <3>5. /\ mem'.journal = mem.journal /\ mem'.intent = mem.intent /\ mem'.keys = mem.keys
          /\ pc # "state" => mem'.state = mem.state
          /\ pc = "state" => mem'.state = v.after.state
      BY <2>7, <3>3 DEF Files
    <3> QED
      BY <1>1, <2>2, <2>3, <2>7, <3>4, <3>5
  <2> QED
    BY <1>1, <2>6, <2>7 DEF Section
<1> QED
  BY <1>2, <1>3

LEMMA WorkSyncTypes ==
  ASSUME TypeInv, NEW j \in Jobs, WorkSync(j)
  PROVE  /\ TypeInv' /\ mem' = mem /\ ~wk'[j].syncing /\ wk'[j].val = wk[j].val
         /\ \A i \in Jobs : i # j => wk'[i] = wk[i]
         /\ \/ wk'[j].pc = "catch" /\ stateLock' = Free(stateLock, j)
            \/ /\ wk[j].pc = "apply" /\ wk'[j].pc = "config"
               /\ stateLock' = Free(stateLock, j)
            \/ wk[j].pc = "config" /\ wk'[j].pc = "policy" /\ stateLock' = stateLock
            \/ wk[j].pc = "policy" /\ wk'[j].pc = "mark" /\ stateLock' = stateLock
            \/ wk[j].pc = "mark" /\ wk'[j].pc = "state" /\ stateLock' = stateLock
            \/ wk[j].pc = "state" /\ wk'[j].pc = "commit" /\ stateLock' = stateLock
            \/ /\ wk[j].pc = "commit" /\ wk'[j].pc = "resume"
               /\ stateLock' = Free(stateLock, j)
<1> DEFINE pc == wk[j].pc
           next == WorkNext[pc]
<1>1. /\ Sync /\ UNCHANGED <<engineLock, rpc, rec, init, tunnel, tick, stopped, meddled, budget>>
      /\ pc \in Section
  <2>1. wk[j].syncing => wk[j].pc \in Section
    BY DEF TypeInv, WkOK
  <2> QED
    BY <2>1 DEF WorkSync
<1>2. FilesOK' /\ mem' = mem
  BY <1>1, SyncFiles DEF TypeInv
<1>3. \/ Goto(j, "catch") /\ stateLock' = Free(stateLock, j)
      \/ /\ Goto(j, next)
         /\ stateLock' = IF pc \in {"apply", "commit"} THEN Free(stateLock, j) ELSE stateLock
  BY DEF WorkSync
<1>4. Free(stateLock, j) \in Holders
  BY Frees DEF TypeInv
<1>5. HoldersOK'
  BY <1>1, <1>3, <1>4 DEF TypeInv, HoldersOK
<1>6. CASE Goto(j, "catch") /\ stateLock' = Free(stateLock, j)
  <2>1. /\ WkOK' /\ wk'[j].pc = "catch" /\ ~wk'[j].syncing /\ wk'[j].val = wk[j].val
        /\ \A i \in Jobs : i # j => wk'[i] = wk[i]
    BY <1>6, WorkGoes, WorkPlaces DEF TypeInv
  <2> QED
    BY <1>1, <1>2, <1>5, <1>6, <2>1, Alike DEF TypeInv
<1>7. CASE /\ Goto(j, next)
           /\ stateLock' = IF pc \in {"apply", "commit"} THEN Free(stateLock, j) ELSE stateLock
  <2>1. pc \in HasVal
    BY <1>1, WorkPlaces
  <2>2. \/ pc = "apply" /\ next = "config"
        \/ pc = "config" /\ next = "policy"
        \/ pc = "policy" /\ next = "mark"
        \/ pc = "mark" /\ next = "state"
        \/ pc = "state" /\ next = "commit"
        \/ pc = "commit" /\ next = "resume"
    <3>1. pc \in {"apply", "config", "policy", "mark", "state", "commit"}
      BY <1>1 DEF Section
    <3>2. /\ pc = "apply" => WorkNext[pc] = "config"
          /\ pc = "config" => WorkNext[pc] = "policy"
          /\ pc = "policy" => WorkNext[pc] = "mark"
          /\ pc = "mark" => WorkNext[pc] = "state"
          /\ pc = "state" => WorkNext[pc] = "commit"
          /\ pc = "commit" => WorkNext[pc] = "resume"
      BY WorkTables
    <3> QED
      BY <3>1, <3>2
  <2>3. next \in WorkPcs
    BY <2>2, WorkPlaces DEF Section
  <2> HIDE DEF next
  <2>4. /\ WkOK' /\ wk'[j].pc = next /\ ~wk'[j].syncing /\ wk'[j].val = wk[j].val
        /\ \A i \in Jobs : i # j => wk'[i] = wk[i]
    BY <1>7, <2>1, <2>3, WorkGoes DEF TypeInv
  <2>5. TypeInv'
    BY <1>1, <1>2, <1>5, <2>4, Alike DEF TypeInv
  <2> QED
    BY <1>2, <1>7, <2>2, <2>4, <2>5
<1> QED
  BY <1>3, <1>6, <1>7

LEMMA WorkFaults ==
  ASSUME TypeInv, NEW j \in Jobs, WorkFault(j)
  PROVE  /\ WkOK' /\ HoldersOK' /\ wk'[j].pc = "catch" /\ ~wk'[j].syncing
         /\ \A i \in Jobs : i # j => wk'[i] = wk[i]
  BY WorkGoes, WorkPlaces, Frees DEF TypeInv, WorkFault, HoldersOK

LEMMA WorkCatchTypes ==
  ASSUME TypeInv, NEW j \in Jobs, WorkCatch(j)
  PROVE  /\ TypeInv' /\ ~wk'[j].syncing
         /\ \A i \in Jobs : i # j => wk'[i] = wk[i]
         /\ \/ /\ wk'[j].pc = "recovering" /\ stateLock = "free" /\ stateLock' = j
               /\ engineLock' = engineLock
               /\ rec'[j].pc = "read" /\ rec'[j].stage = "check"
               /\ \A q \in Recoverers : q # j => rec'[q] = rec[q]
            \/ wk'[j].pc = "abort" /\ Release(j) /\ rec' = rec
<1>1. CASE stateLock = "free"
  <2>1. /\ stateLock' = j /\ Recover(j, "read") /\ Goto(j, "recovering")
        /\ UNCHANGED engineLock
    BY <1>1 DEF WorkCatch
  <2>2. /\ WkOK' /\ wk'[j].pc = "recovering" /\ ~wk'[j].syncing
        /\ \A i \in Jobs : i # j => wk'[i] = wk[i]
    BY <2>1, WorkGoes, WorkPlaces DEF TypeInv
  <2>3. /\ RecOK' /\ rec'[j].pc = "read" /\ rec'[j].stage = "check"
        /\ \A q \in Recoverers : q # j => rec'[q] = rec[q]
    BY <2>1, Recoveries, NoName DEF TypeInv
  <2>4. HoldersOK'
    BY <2>1, NoName DEF TypeInv, HoldersOK
  <2> QED
    BY <1>1, <2>1, <2>2, <2>3, <2>4, Alike DEF TypeInv, WorkCatch
<1>2. CASE stateLock # "free"
  <2>1. Release(j) /\ Goto(j, "abort") /\ UNCHANGED rec
    BY <1>2 DEF WorkCatch
  <2>2. /\ WkOK' /\ wk'[j].pc = "abort" /\ ~wk'[j].syncing
        /\ \A i \in Jobs : i # j => wk'[i] = wk[i]
    BY <2>1, WorkGoes, WorkPlaces DEF TypeInv
  <2> QED
    BY <2>1, <2>2, Releases, Alike DEF TypeInv, WorkCatch
<1> QED
  BY <1>1, <1>2

LEMMA WorkRecoveredTypes ==
  ASSUME TypeInv, NEW j \in Jobs, WorkRecovered(j)
  PROVE  /\ TypeInv' /\ ~wk'[j].syncing
         /\ \A i \in Jobs : i # j => wk'[i] = wk[i]
         /\ rec'[j].pc = "off" /\ \A q \in Recoverers : q # j => rec'[q] = rec[q]
         /\ \/ wk'[j].pc = "resume" /\ stateLock' = "free" /\ engineLock' = engineLock
            \/ wk'[j].pc = "abort" /\ Release(j)
<1>1. RecOK' /\ rec'[j].pc = "off" /\ \A q \in Recoverers : q # j => rec'[q] = rec[q]
  BY Recoveries, NoName DEF TypeInv, WorkRecovered
<1>2. \/ Goto(j, "resume") /\ stateLock' = "free" /\ UNCHANGED engineLock
      \/ Goto(j, "abort") /\ Release(j)
  BY DEF WorkRecovered
<1>3. HoldersOK'
  BY <1>2, Releases DEF TypeInv, HoldersOK, Holders
<1>4. /\ WkOK' /\ ~wk'[j].syncing /\ \A i \in Jobs : i # j => wk'[i] = wk[i]
      /\ \/ wk'[j].pc = "resume" /\ stateLock' = "free" /\ engineLock' = engineLock
         \/ wk'[j].pc = "abort" /\ Release(j)
  BY <1>2, WorkGoes, WorkPlaces DEF TypeInv
<1> QED
  BY <1>1, <1>3, <1>4, Alike DEF TypeInv, WorkRecovered

LEMMA WorkResumeTypes ==
  ASSUME TypeInv, NEW j \in Jobs, WorkResume(j)
  PROVE  /\ TypeInv' /\ wk'[j].pc = "resuming" /\ ~wk'[j].syncing
         /\ init'.pc = "stop" /\ init'.by = j /\ init'.full
         /\ \A i \in Jobs : i # j => wk'[i] = wk[i]
<1>1. /\ WkOK' /\ wk'[j].pc = "resuming" /\ ~wk'[j].syncing
      /\ \A i \in Jobs : i # j => wk'[i] = wk[i]
  BY WorkGoes, WorkPlaces DEF TypeInv, WorkResume
<1>2. InitOK' /\ init'.pc = "stop" /\ init'.by = j /\ init'.full
  BY Asks DEF WorkResume
<1> QED
  BY <1>1, <1>2, Alike DEF TypeInv, WorkResume

LEMMA WorkAbortTypes ==
  ASSUME TypeInv, NEW j \in Jobs, WorkAbort(j)
  PROVE  /\ TypeInv' /\ ~wk'[j].syncing
         /\ \A i \in Jobs : i # j => wk'[i] = wk[i]
         /\ \/ /\ wk'[j].pc = "aborting" /\ rec'[j].pc = "peek"
               /\ \A q \in Recoverers : q # j => rec'[q] = rec[q]
            \/ wk'[j].pc = "gone" /\ rec' = rec
<1>1. \/ Recover(j, "peek") /\ Goto(j, "aborting")
      \/ Goto(j, "gone") /\ UNCHANGED rec
  BY DEF WorkAbort
<1>2. CASE Recover(j, "peek") /\ Goto(j, "aborting")
  <2>1. /\ WkOK' /\ wk'[j].pc = "aborting" /\ ~wk'[j].syncing
        /\ \A i \in Jobs : i # j => wk'[i] = wk[i]
    BY <1>2, WorkGoes, WorkPlaces DEF TypeInv
  <2>2. RecOK' /\ rec'[j].pc = "peek" /\ \A q \in Recoverers : q # j => rec'[q] = rec[q]
    BY <1>2, Recoveries, NoName DEF TypeInv
  <2> QED
    BY <2>1, <2>2, Alike DEF TypeInv, WorkAbort
<1>3. CASE Goto(j, "gone") /\ UNCHANGED rec
  <2>1. /\ WkOK' /\ wk'[j].pc = "gone" /\ ~wk'[j].syncing
        /\ \A i \in Jobs : i # j => wk'[i] = wk[i]
    BY <1>3, WorkGoes, WorkPlaces DEF TypeInv
  <2> QED
    BY <1>3, <2>1, Alike DEF TypeInv, WorkAbort
<1> QED
  BY <1>1, <1>2, <1>3

LEMMA WorkAbortedTypes ==
  ASSUME TypeInv, NEW j \in Jobs, WorkAborted(j)
  PROVE  /\ TypeInv' /\ ~wk'[j].syncing /\ wk'[j].pc = "gone" /\ Release(j)
         /\ \A i \in Jobs : i # j => wk'[i] = wk[i]
         /\ rec'[j].pc = "off" /\ \A q \in Recoverers : q # j => rec'[q] = rec[q]
<1>1. RecOK' /\ rec'[j].pc = "off" /\ \A q \in Recoverers : q # j => rec'[q] = rec[q]
  BY Recoveries, NoName DEF TypeInv, WorkAborted
<1>2. /\ WkOK' /\ wk'[j].pc = "gone" /\ ~wk'[j].syncing
      /\ \A i \in Jobs : i # j => wk'[i] = wk[i]
  BY WorkGoes, WorkPlaces DEF TypeInv, WorkAborted
<1>3. Release(j)
  BY DEF WorkAborted
<1> QED
  BY <1>1, <1>2, <1>3, Releases, Alike DEF TypeInv, WorkAborted

-----------------------------------------------------------------------------
(* Types: the runtime's init script                                          *)

LEMMA InitGoes ==
  ASSUME InitOK, NEW pc \in {"idle", "stop", "boot", "gate", "start", "done"},
         init' = [init EXCEPT !.pc = pc]
  PROVE  InitOK' /\ init'.pc = pc /\ init'.by = init.by /\ init'.full = init.full
  BY DEF InitOK

LEMMA InitStopTypes ==
  ASSUME TypeInv, InitStop
  PROVE  /\ TypeInv' /\ Down' /\ init'.by = init.by /\ init'.full = init.full
         /\ \/ /\ init.full /\ init'.pc = "gate" /\ rec'["init"].pc = "peek"
               /\ \A q \in Recoverers : q # "init" => rec'[q] = rec[q]
            \/ ~init.full /\ init'.pc = "done" /\ rec' = rec
<1>1. FlagsOK' /\ Down'
  BY DEF TypeInv, FlagsOK, InitStop, Down
<1>2. CASE init.full
  <2>1. init' = [init EXCEPT !.pc = "gate"] /\ Recover("init", "peek")
    BY <1>2 DEF InitStop
  <2>2. InitOK' /\ init'.pc = "gate" /\ init'.by = init.by /\ init'.full = init.full
    BY <2>1, InitGoes DEF TypeInv
  <2>3. RecOK' /\ rec'["init"].pc = "peek"
        /\ \A q \in Recoverers : q # "init" => rec'[q] = rec[q]
    BY <2>1, Recoveries, NoName DEF TypeInv
  <2> QED
    BY <1>1, <1>2, <2>2, <2>3, Alike DEF TypeInv, InitStop
<1>3. CASE ~init.full
  <2>1. init' = [init EXCEPT !.pc = "done"] /\ UNCHANGED rec
    BY <1>3 DEF InitStop
  <2>2. InitOK' /\ init'.pc = "done" /\ init'.by = init.by /\ init'.full = init.full
    BY <2>1, InitGoes DEF TypeInv
  <2> QED
    BY <1>1, <1>3, <2>1, <2>2, Alike DEF TypeInv, InitStop
<1> QED
  BY <1>2, <1>3

LEMMA InitBootTypes ==
  ASSUME TypeInv, InitBoot
  PROVE  /\ TypeInv' /\ init'.pc = "gate" /\ init'.by = init.by /\ init'.full = init.full
         /\ rec'["init"].pc = "peek"
         /\ \A q \in Recoverers : q # "init" => rec'[q] = rec[q]
<1>1. InitOK' /\ init'.pc = "gate" /\ init'.by = init.by /\ init'.full = init.full
  BY InitGoes DEF TypeInv, InitBoot
<1>2. RecOK' /\ rec'["init"].pc = "peek"
      /\ \A q \in Recoverers : q # "init" => rec'[q] = rec[q]
  BY Recoveries, NoName DEF TypeInv, InitBoot
<1> QED
  BY <1>1, <1>2, Alike DEF TypeInv, InitBoot

LEMMA InitGateTypes ==
  ASSUME TypeInv, InitGate
  PROVE  /\ TypeInv' /\ init'.by = init.by /\ init'.full = init.full
         /\ \/ rec["init"].pc = "ok" /\ init'.pc = "start"
            \/ init'.pc = "done"
         /\ rec'["init"].pc = "off" /\ Release("init")
         /\ \A q \in Recoverers : q # "init" => rec'[q] = rec[q]
<1>1. \/ rec["init"].pc = "ok" /\ init' = [init EXCEPT !.pc = "start"]
      \/ init' = [init EXCEPT !.pc = "done"]
  BY DEF InitGate, Refuse
<1>2. /\ InitOK' /\ init'.by = init.by /\ init'.full = init.full
      /\ \/ rec["init"].pc = "ok" /\ init'.pc = "start"
         \/ init'.pc = "done"
  BY <1>1, InitGoes DEF TypeInv
<1>3. RecOK' /\ rec'["init"].pc = "off"
      /\ \A q \in Recoverers : q # "init" => rec'[q] = rec[q]
  BY Recoveries, NoName DEF TypeInv, InitGate
<1>4. Release("init") /\ HoldersOK'
  BY Releases DEF TypeInv, InitGate
<1> QED
  BY <1>2, <1>3, <1>4, Alike DEF TypeInv, InitGate

LEMMA InitStartTypes ==
  ASSUME TypeInv, InitStart
  PROVE  /\ TypeInv' /\ init'.pc = "done" /\ init'.by = init.by /\ init'.full = init.full
<1>1. InitOK' /\ init'.pc = "done" /\ init'.by = init.by /\ init'.full = init.full
  BY InitGoes DEF TypeInv, InitStart
<1>2. mem.state.active \in BOOLEAN
  BY FileTypes DEF TypeInv, States
<1>3. FlagsOK'
  BY <1>2 DEF TypeInv, FlagsOK, InitStart
<1> QED
  BY <1>1, <1>3, Alike DEF TypeInv, InitStart

LEMMA InitDoneTypes ==
  ASSUME TypeInv, InitDone
  PROVE  /\ TypeInv' /\ init'.pc = "idle" /\ init'.by = "init"
         /\ rpc' = rpc \/ (rpc.pc = "restarting" /\ rpc' = NoCall)
         /\ \/ wk' = wk /\ engineLock' = engineLock
            \/ /\ init.by \in Jobs /\ wk[init.by].pc = "quiescing"
               /\ wk'[init.by].pc = "apply" /\ ~wk'[init.by].syncing
               /\ wk'[init.by].val = wk[init.by].val
               /\ engineLock' = engineLock
               /\ \A i \in Jobs : i # init.by => wk'[i] = wk[i]
            \/ /\ init.by \in Jobs /\ wk[init.by].pc = "resuming"
               /\ wk'[init.by].pc = "gone" /\ ~wk'[init.by].syncing
               /\ engineLock' = Free(engineLock, init.by)
               /\ \A i \in Jobs : i # init.by => wk'[i] = wk[i]
<1> DEFINE j == init.by
<1>1. InitOK' /\ init'.pc = "idle" /\ init'.by = "init"
  BY DEF InitDone, NoInit, InitOK
<1>2. RpcOK' /\ (rpc' = rpc \/ (rpc.pc = "restarting" /\ rpc' = NoCall))
  BY RpcEnds, Alike DEF InitDone, TypeInv
<1>3. \/ UNCHANGED <<wk, engineLock>>
      \/ /\ j \in Jobs /\ wk[j].pc = "quiescing"
         /\ Goto(j, "apply") /\ UNCHANGED engineLock
      \/ /\ j \in Jobs /\ wk[j].pc = "resuming"
         /\ Goto(j, "gone") /\ engineLock' = Free(engineLock, j)
  BY DEF InitDone
<1>4. CASE UNCHANGED <<wk, engineLock>>
  <2>1. WkOK' /\ HoldersOK'
    BY <1>4, Alike DEF TypeInv, InitDone, locks
  <2> QED
    BY <1>1, <1>2, <1>4, <2>1, Alike DEF TypeInv, InitDone
<1>5. CASE /\ j \in Jobs /\ wk[j].pc = "quiescing"
           /\ Goto(j, "apply") /\ UNCHANGED engineLock
  <2>1. "quiescing" \in HasVal /\ "apply" \in WorkPcs
    BY WorkPlaces DEF HasVal, Section
  <2>2. /\ WkOK' /\ wk'[j].pc = "apply" /\ ~wk'[j].syncing /\ wk'[j].val = wk[j].val
        /\ \A i \in Jobs : i # j => wk'[i] = wk[i]
    BY <1>5, <2>1, WorkGoes DEF TypeInv
  <2>3. HoldersOK'
    BY <1>5 DEF TypeInv, InitDone, HoldersOK
  <2> QED
    BY <1>1, <1>2, <1>5, <2>2, <2>3, Alike DEF TypeInv, InitDone
<1>6. CASE /\ j \in Jobs /\ wk[j].pc = "resuming"
           /\ Goto(j, "gone") /\ engineLock' = Free(engineLock, j)
  <2>1. /\ WkOK' /\ wk'[j].pc = "gone" /\ ~wk'[j].syncing
        /\ \A i \in Jobs : i # j => wk'[i] = wk[i]
    BY <1>6, WorkGoes, WorkPlaces DEF TypeInv
  <2>2. HoldersOK'
    BY <1>6, Frees DEF TypeInv, InitDone, HoldersOK
  <2> QED
    BY <1>1, <1>2, <1>6, <2>1, <2>2, Alike DEF TypeInv, InitDone
<1> QED
  BY <1>3, <1>4, <1>5, <1>6

-----------------------------------------------------------------------------
(* Types: rpcd's call                                                        *)

(* A job that is being queued has no worker yet.                             *)
LaunchOK == rpc.pc \in Enqueued => wk[rpc.val.id].pc = "off"

LEMMA RpcPlaces ==
  /\ {"idle", "wait", "intent", "keys", "write", "restart", "restarting", "queue",
      "prepare", "queued", "launch", "recover"} = RpcPcs
  /\ \A pc \in {"idle", "wait", "intent", "keys", "write", "restart", "restarting",
                "queue", "recover"} : pc \notin Enqueued
  BY DEF RpcPcs, Enqueued

LEMMA RpcCallTypes ==
  ASSUME TypeInv, NEW op \in Ops, RpcCall(op)
  PROVE  TypeInv' /\ rpc'.pc \in {"queue", "wait"}
<1>1. PICK seen \in {mem.state.rev} \union
              (IF mem.journal = NoJournal THEN {} ELSE {mem.journal.before.state.rev}) :
        rpc' = Call(op, seen)
  BY DEF RpcCall
<1>2. seen \in Nat
  <2>1. mem.journal # NoJournal => mem.journal.before.state \in States
    BY FileTypes, JournalTypes DEF TypeInv
  <2> QED
    BY <1>1, <2>1, FileTypes DEF TypeInv, States, Revs
<1>3. RpcOK' /\ rpc'.pc \in {"queue", "wait"}
  <2>1. NoJournal \in AnyJournal /\ "queue" \in RpcPcs /\ "wait" \in RpcPcs
    BY RpcPlaces DEF AnyJournal
  <2>2. CASE op = "apply"
    BY <1>1, <1>2, <2>1, <2>2 DEF RpcOK, Call, NoCall, Enqueued
  <2>3. CASE op # "apply"
    BY <1>1, <1>2, <2>1, <2>3 DEF RpcOK, Call, NoCall, Enqueued, Ops
  <2> QED
    BY <2>2, <2>3
<1>4. BudgetOK'
  BY Spends DEF TypeInv, RpcCall, Spent
<1> QED
  BY <1>3, <1>4, Alike DEF TypeInv, RpcCall

LEMMA RpcLockTypes ==
  ASSUME TypeInv, RpcLock
  PROVE  /\ TypeInv' /\ stateLock = "free"
         /\ \/ rpc' = NoCall /\ UNCHANGED stateLock
            \/ /\ stateLock' = "rpc" /\ rpc'.pc \in {"intent", "keys", "write"}
               /\ rpc'.op = rpc.op /\ (rpc.op = "stop" => rpc'.pc = "intent")
<1>1. \/ rpc' = NoCall /\ UNCHANGED stateLock
      \/ /\ stateLock' = "rpc"
         /\ \/ rpc.op = "stop" /\ RpcGoto("intent")
            \/ rpc.op = "keys" /\ RpcGoto("keys")
            \/ rpc.op \in {"revoke", "product"} /\ RpcGoto("write")
  BY DEF RpcLock, RpcAt, TypeInv, RpcOK
<1>2. /\ RpcOK'
      /\ \/ rpc' = NoCall /\ UNCHANGED stateLock
         \/ /\ stateLock' = "rpc" /\ rpc'.pc \in {"intent", "keys", "write"}
            /\ rpc'.op = rpc.op /\ (rpc.op = "stop" => rpc'.pc = "intent")
  BY <1>1, RpcGoes, RpcEnds, RpcPlaces DEF TypeInv
<1>3. HoldersOK'
  BY <1>1 DEF TypeInv, HoldersOK, RpcLock, Holders
<1> QED
  BY <1>2, <1>3, Alike DEF TypeInv, RpcLock

LEMMA RpcIntentTypes ==
  ASSUME TypeInv, RpcIntent
  PROVE  /\ TypeInv' /\ rpc'.pc = "write" /\ rpc'.op = rpc.op
         /\ mem'.intent = mem.intent + 1 /\ mem'.state = mem.state
         /\ mem'.journal = mem.journal
<1>1. FileOK("intent", mem.intent + 1)
  BY FileTypes, Kinds DEF TypeInv
<1>2. /\ FilesOK' /\ mem'.intent = mem.intent + 1
      /\ \A g \in Files : g # "intent" => mem'[g] = mem[g]
  BY <1>1, PutFile DEF TypeInv, RpcIntent, Files
<1>3. RpcOK' /\ rpc'.pc = "write" /\ rpc'.op = rpc.op
  BY RpcGoes, RpcPlaces DEF TypeInv, RpcIntent, RpcAt, RpcOK
<1>4. mem'.state = mem.state /\ mem'.journal = mem.journal
  BY <1>2 DEF Files
<1> QED
  BY <1>2, <1>3, <1>4, Alike DEF TypeInv, RpcIntent

LEMMA RpcKeysTypes ==
  ASSUME TypeInv, RpcKeys
  PROVE  /\ TypeInv' /\ mem'.state = mem.state /\ mem'.journal = mem.journal
         /\ mem'.intent = mem.intent
<1>1. PICK n \in {0, 1} : Put("keys", [rev |-> mem.keys.rev + 1, owner |-> mem.keys.owner + n])
  BY DEF RpcKeys
<1> DEFINE k == [rev |-> mem.keys.rev + 1, owner |-> mem.keys.owner + n]
<1>2. k \in Keys
  BY FileTypes DEF TypeInv, Keys
<1> HIDE DEF k
<1>3. FileOK("keys", k) /\ Put("keys", k)
  BY <1>1, <1>2, Kinds DEF k
<1>4. FilesOK' /\ \A g \in Files : g # "keys" => mem'[g] = mem[g]
  BY <1>3, PutFile DEF TypeInv, Files
<1>5. RpcOK'
  BY RpcEnds DEF TypeInv, RpcKeys
<1>6. HoldersOK'
  BY Frees DEF TypeInv, RpcKeys, HoldersOK
<1>7. mem'.state = mem.state /\ mem'.journal = mem.journal /\ mem'.intent = mem.intent
  BY <1>4 DEF Files
<1> QED
  BY <1>4, <1>5, <1>6, <1>7, Alike DEF TypeInv, RpcKeys

(* What a call makes of state.json is a state; a Stop leaves it inactive, and *)
(* only a product call activates.                                            *)
LEMMA CallsMakeStates ==
  ASSUME NEW s \in States, NEW t \in NewStates(s), rpc.op \in {"stop", "revoke", "product"}
  PROVE  /\ t \in States
         /\ rpc.op = "stop" => ~t.active
         /\ rpc.op = "revoke" => t.active = s.active
<1>0. /\ s.rev \in Nat /\ s.rev + 1 \in Nat /\ s.active \in BOOLEAN /\ s.body \in Bodies
  BY DEF States, Revs
<1>1. s = [rev |-> s.rev, active |-> s.active, body |-> s.body]
  BY DEF States
<1>2. CASE rpc.op = "stop"
  <2>1. t = IF s.active THEN [s EXCEPT !.active = FALSE, !.rev = @ + 1] ELSE s
    BY <1>2 DEF NewStates
  <2>2. s.active => t = [rev |-> s.rev + 1, active |-> FALSE, body |-> s.body]
    BY <1>1, <2>1
  <2> QED
    BY <1>0, <1>2, <2>1, <2>2 DEF States, Revs
<1>3. CASE rpc.op = "revoke"
  <2> DEFINE b == [s.body EXCEPT !.cut = TRUE]
  <2>1. t = [s EXCEPT !.body.cut = TRUE, !.rev = @ + 1]
    BY <1>3 DEF NewStates
  <2>2. t = [rev |-> s.rev + 1, active |-> s.active, body |-> b]
    BY <1>1, <2>1
  <2>3. b \in Bodies
    BY <1>0 DEF Bodies
  <2> HIDE DEF b
  <2> QED
    BY <1>0, <1>3, <2>2, <2>3 DEF States, Revs
<1>4. CASE rpc.op = "product"
  <2> DEFINE b == [s.body EXCEPT !.edits = s.body.edits + 1]
  <2>1. \/ t = [s EXCEPT !.active = TRUE, !.rev = @ + 1]
        \/ t = [s EXCEPT !.body.edits = @ + 1, !.rev = @ + 1]
    BY <1>4 DEF NewStates
  <2>2. \/ t = [rev |-> s.rev + 1, active |-> TRUE, body |-> s.body]
        \/ t = [rev |-> s.rev + 1, active |-> s.active, body |-> b]
    BY <1>1, <2>1
  <2>3. b \in Bodies
    BY <1>0 DEF Bodies
  <2> HIDE DEF b
  <2> QED
    <3>1. /\ [rev |-> s.rev + 1, active |-> TRUE, body |-> s.body] \in States
          /\ [rev |-> s.rev + 1, active |-> s.active, body |-> b] \in States
      BY <1>0, <2>3 DEF States, Revs
    <3> QED BY <1>4, <2>2, <3>1
<1> QED
  BY <1>2, <1>3, <1>4

LEMMA RpcWriteTypes ==
  ASSUME TypeInv, RpcWrite
  PROVE  /\ TypeInv' /\ mem'.journal = mem.journal /\ mem'.intent = mem.intent
         /\ rpc'.pc \in {"idle", "restart"} /\ rpc'.pc # "recover"
         /\ rpc.op = "stop" => stopped' /\ ~mem'.state.active
         /\ rpc.op # "stop" => (stopped' <=> (stopped /\ ~mem'.state.active))
<1>1. /\ rpc.op \in {"stop", "revoke", "product"} /\ mem.state \in States
      /\ stopped \in BOOLEAN /\ meddled \in BOOLEAN
  BY FileTypes DEF TypeInv, RpcWrite, RpcAt, RpcOK, FlagsOK
<1>2. PICK s \in NewStates(mem.state) :
        /\ IF s = mem.state THEN UNCHANGED <<mem, disk>> ELSE Put("state", s)
        /\ stopped' = (IF rpc.op = "stop" THEN TRUE ELSE stopped /\ ~s.active)
  BY DEF RpcWrite
<1>3. s \in States /\ (rpc.op = "stop" => ~s.active)
  BY <1>1, CallsMakeStates
<1>4. /\ FilesOK' /\ mem'.state = s /\ mem'.journal = mem.journal /\ mem'.intent = mem.intent
  <2>1. CASE s = mem.state
    BY <1>2, <2>1, Alike DEF TypeInv
  <2>2. CASE s # mem.state
    <3>1. FileOK("state", s) /\ Put("state", s)
      BY <1>2, <1>3, <2>2, Kinds
    <3>2. FilesOK' /\ mem'.state = s /\ \A g \in Files : g # "state" => mem'[g] = mem[g]
      BY <3>1, PutFile DEF TypeInv, Files
    <3> QED
      BY <3>2 DEF Files
  <2> QED
    BY <2>1, <2>2
<1>5. RpcOK' /\ rpc'.pc \in {"idle", "restart"}
  <2>1. CASE rpc.op = "revoke"
    BY <2>1, RpcEnds DEF TypeInv, RpcWrite
  <2>2. CASE rpc.op # "revoke"
    BY <2>2, RpcGoes, RpcPlaces DEF TypeInv, RpcWrite
  <2> QED BY <2>1, <2>2
<1>6. HoldersOK'
  BY Frees DEF TypeInv, RpcWrite, HoldersOK
<1>7. stopped' \in BOOLEAN /\ meddled' \in BOOLEAN
  <2>1. stopped' \in BOOLEAN
    BY <1>2
  <2>2. meddled' \in BOOLEAN
    BY DEF RpcWrite
  <2> QED BY <2>1, <2>2
<1>8. FlagsOK'
  BY <1>7 DEF TypeInv, FlagsOK, RpcWrite
<1>9. TypeInv'
  BY <1>4, <1>5, <1>6, <1>8, Alike DEF TypeInv, RpcWrite
<1>10. CASE rpc.op = "stop"
  BY <1>2, <1>3, <1>4, <1>5, <1>9, <1>10
<1>11. CASE rpc.op # "stop"
  <2>1. stopped' = (stopped /\ ~s.active)
    BY <1>2, <1>11
  <2> QED
    BY <1>4, <1>5, <1>9, <1>11, <2>1
<1> QED
  BY <1>10, <1>11

LEMMA RpcRestartTypes ==
  ASSUME TypeInv, RpcRestart
  PROVE  /\ TypeInv' /\ rpc'.pc = "restarting"
         /\ init'.pc = "stop" /\ init'.by = "rpc" /\ init'.full
<1>1. RpcOK' /\ rpc'.pc = "restarting"
  BY RpcGoes, RpcPlaces DEF TypeInv, RpcRestart
<1>2. InitOK' /\ init'.pc = "stop" /\ init'.by = "rpc" /\ init'.full
  BY Asks DEF RpcRestart
<1> QED
  BY <1>1, <1>2, Alike DEF TypeInv, RpcRestart

LEMMA NewJournals ==
  ASSUME FilesOK, NEW j \in Jobs
  PROVE  /\ NewJournal(j) \in Journals /\ NewJournal(j).id = j
         /\ NewJournal(j).intent = mem.intent /\ NewJournal(j).phase = "PREPARED"
<1> DEFINE body == [doc |-> j, edits |-> 0, cut |-> FALSE]
           old == [state |-> mem.state, config |-> mem.config, policy |-> mem.policy]
           to == [rev |-> mem.state.rev + 1, active |-> Docs[j].active, body |-> body]
           new == [state |-> to, config |-> Docs[j].panel, policy |-> j]
<1>1. /\ mem.state \in States /\ mem.config \in Panels /\ mem.policy \in Policies
      /\ mem.intent \in Nat /\ mem.keys \in Keys
  BY FileTypes
<1>2. old \in Triples
  BY <1>1 DEF Triples
<1>3. body \in Bodies
  BY DEF Bodies
<1>4. Docs[j].active \in BOOLEAN /\ Docs[j].panel \in Panels /\ j \in Policies
  BY BackupAssumption DEF Document, Panels, Policies
<1>5. mem.state.rev + 1 \in Nat
  BY <1>1 DEF States, Revs
<1> HIDE DEF body
<1>6. to \in States
  BY <1>3, <1>4, <1>5 DEF States, Revs
<1> HIDE DEF to
<1>7. new \in Triples
  BY <1>4, <1>6 DEF Triples
<1>8. mem.keys.owner \in Nat
  BY <1>1 DEF Keys
<1>9. NewJournal(j) = [id |-> j, owner |-> mem.keys.owner, keys |-> mem.keys,
                       intent |-> mem.intent, phase |-> "PREPARED",
                       before |-> old, after |-> new]
  BY DEF NewJournal, body, to
<1> HIDE DEF old, new
<1> QED
  BY <1>1, <1>2, <1>7, <1>8, <1>9 DEF Journals, Phases

LEMMA RpcQueueTypes ==
  ASSUME TypeInv, RpcQueue
  PROVE  /\ TypeInv' /\ rpc'.pc = "prepare" /\ rpc'.val \in Journals
         /\ wk[rpc'.val.id].pc = "off"
         /\ rpc'.val.intent = mem.intent /\ rpc'.val.phase = "PREPARED"
         /\ mem'.journal = NoJournal /\ mem'.state = mem.state /\ mem'.intent = mem.intent
<1>1. PICK j \in Jobs :
        /\ ~Started(j)
        /\ rpc' = [rpc EXCEPT !.pc = "prepare", !.val = NewJournal(j)]
  BY DEF RpcQueue
<1> DEFINE v == NewJournal(j)
<1>2. /\ v \in Journals /\ v.id = j /\ v.intent = mem.intent /\ v.phase = "PREPARED"
      /\ v \in AnyJournal
  BY NewJournals DEF TypeInv, AnyJournal
<1> HIDE DEF v
<1>3. RpcOK' /\ rpc'.pc = "prepare" /\ rpc'.val = v
  <2>1. rpc' = [rpc EXCEPT !.pc = "prepare", !.val = v] /\ "prepare" \in RpcPcs
    BY <1>1, RpcPlaces DEF v
  <2> QED
    BY <1>2, <2>1 DEF TypeInv, RpcOK
<1>4. wk[rpc'.val.id].pc = "off"
  BY <1>1, <1>2, <1>3 DEF Started
<1>5. /\ FilesOK' /\ mem'.journal = NoJournal /\ mem'.state = mem.state
      /\ mem'.intent = mem.intent
  <2>1. CASE mem.journal = NoJournal
    BY <2>1, Alike DEF TypeInv, RpcQueue
  <2>2. CASE mem.journal # NoJournal
    <3>1. /\ mem' = [mem EXCEPT !.journal = NoJournal]
          /\ disk' = [f \in Files |-> {mem'[f]}]
      BY <2>2 DEF RpcQueue
    <3>2. /\ DOMAIN mem' = Files /\ mem'.journal = NoJournal
          /\ \A g \in Files : g # "journal" => mem'[g] = mem[g]
      BY <3>1 DEF TypeInv, FilesOK, Files
    <3>3. FileOK("journal", NoJournal)
      BY Kinds DEF AnyJournal
    <3>4. \A f \in Files : FileOK(f, mem'[f])
      BY <3>2, <3>3 DEF TypeInv, FilesOK
    <3>5. DOMAIN disk' = Files /\ \A f \in Files : disk'[f] = {mem'[f]}
      BY <3>1
    <3>6. FilesOK'
      BY <3>2, <3>4, <3>5 DEF FilesOK, FileOK
    <3> QED
      BY <3>2, <3>6 DEF Files
  <2> QED
    BY <2>1, <2>2
<1>6. HoldersOK'
  BY DEF RpcQueue, HoldersOK, Holders
<1> QED
  BY <1>2, <1>3, <1>4, <1>5, <1>6, Alike DEF TypeInv, RpcQueue

LEMMA RpcRefuseTypes ==
  ASSUME TypeInv, RpcRefuse
  PROVE  TypeInv' /\ rpc'.pc = "idle"
  BY RpcEnds, Alike DEF TypeInv, RpcRefuse

LEMMA RpcPrepareTypes ==
  ASSUME TypeInv, RpcPrepare
  PROVE  /\ TypeInv' /\ mem'.state = mem.state /\ mem'.intent = mem.intent
         /\ \/ /\ rpc'.pc = "queued" /\ rpc'.val = rpc.val
               /\ mem'.journal = rpc.val /\ UNCHANGED locks
            \/ rpc'.pc = "idle" /\ mem' = mem /\ Release("rpc")
<1>1. rpc.val \in Journals /\ FileOK("journal", rpc.val)
  BY Kinds DEF TypeInv, RpcPrepare, RpcAt, RpcOK, Enqueued, AnyJournal
<1>2. CASE mem.config = rpc.val.before.config
  <2>1. Put("journal", rpc.val) /\ RpcGoto("queued") /\ UNCHANGED locks
    BY <1>2 DEF RpcPrepare
  <2>2. /\ FilesOK' /\ mem'.journal = rpc.val
        /\ \A g \in Files : g # "journal" => mem'[g] = mem[g]
    BY <1>1, <2>1, PutFile DEF TypeInv, Files
  <2>3. RpcOK' /\ rpc'.pc = "queued" /\ rpc'.val = rpc.val
    BY <2>1, RpcGoes, RpcPlaces DEF TypeInv, RpcPrepare, RpcAt, Enqueued
  <2>4. mem'.state = mem.state /\ mem'.intent = mem.intent
    BY <2>2 DEF Files
  <2> QED
    BY <2>1, <2>2, <2>3, <2>4, Alike DEF TypeInv, RpcPrepare
<1>3. CASE mem.config # rpc.val.before.config
  <2>1. rpc' = NoCall /\ Release("rpc") /\ UNCHANGED <<mem, disk>>
    BY <1>3 DEF RpcPrepare
  <2> QED
    BY <2>1, RpcEnds, Releases, Alike DEF TypeInv, RpcPrepare
<1> QED
  BY <1>2, <1>3

LEMMA RpcQueuedTypes ==
  ASSUME TypeInv, RpcQueued
  PROVE  TypeInv' /\ mem' = mem /\ rpc'.pc = "launch" /\ rpc'.val = rpc.val /\ stopped' = FALSE
<1>1. FilesOK' /\ mem' = mem
  BY SyncFiles DEF TypeInv, RpcQueued
<1>2. RpcOK' /\ rpc'.pc = "launch" /\ rpc'.val = rpc.val
  BY RpcGoes, RpcPlaces DEF TypeInv, RpcQueued, RpcAt, Enqueued
<1>3. HoldersOK' /\ FlagsOK' /\ stopped' = FALSE
  BY Releases DEF TypeInv, RpcQueued, FlagsOK
<1> QED
  BY <1>1, <1>2, <1>3, Alike DEF TypeInv, RpcQueued

LEMMA RpcLaunchTypes ==
  ASSUME TypeInv, LaunchOK, RpcLaunch
  PROVE  /\ TypeInv' /\ rpc'.pc = "idle" /\ rpc.val \in Journals
         /\ wk'[rpc.val.id].pc = "context" /\ ~wk'[rpc.val.id].syncing
         /\ \A i \in Jobs : i # rpc.val.id => wk'[i] = wk[i]
<1>1. /\ rpc.val \in Journals /\ rpc.val.id \in Jobs /\ wk[rpc.val.id].pc = "off"
  BY JournalTypes DEF TypeInv, RpcLaunch, RpcAt, RpcOK, Enqueued, LaunchOK
<1> DEFINE j == rpc.val.id
<1> HIDE DEF j
<1>2. ~wk[j].syncing
  BY <1>1 DEF TypeInv, WkOK, Section, j
<1>3. wk' = [wk EXCEPT ![j] = [wk[j] EXCEPT !.pc = "context"]]
  BY <1>1 DEF RpcLaunch, TypeInv, WkOK, j
<1>4. /\ WkOK' /\ wk'[j].pc = "context" /\ ~wk'[j].syncing
      /\ \A i \in Jobs : i # j => wk'[i] = wk[i]
  <2>1. j \in Jobs
    BY <1>1 DEF j
  <2> QED
    BY <1>2, <1>3, <2>1, WorkPlaces DEF TypeInv, WkOK
<1> QED
  BY <1>1, <1>4, RpcEnds, Alike DEF TypeInv, RpcLaunch, j

LEMMA RpcRecoveredTypes ==
  ASSUME TypeInv, RpcRecovered
  PROVE  /\ TypeInv' /\ rpc'.pc = "idle" /\ rec'["rpc"].pc = "off" /\ Release("rpc")
         /\ \A q \in Recoverers : q # "rpc" => rec'[q] = rec[q]
<1>1. RecOK' /\ rec'["rpc"].pc = "off"
      /\ \A q \in Recoverers : q # "rpc" => rec'[q] = rec[q]
  BY Recoveries, NoName DEF TypeInv, RpcRecovered
<1> QED
  BY <1>1, RpcEnds, Releases, Alike DEF TypeInv, RpcRecovered

LEMMA RpcFaults ==
  ASSUME TypeInv, RpcFault
  PROVE  /\ RpcOK' /\ RecOK' /\ HoldersOK' /\ Release("rpc")
         /\ \/ rpc'.pc = "recover" /\ rec'["rpc"].pc = "peek"
               /\ \A q \in Recoverers : q # "rpc" => rec'[q] = rec[q]
            \/ rpc'.pc = "idle" /\ rec' = rec
<1>1. Release("rpc") /\ HoldersOK'
  BY Releases DEF TypeInv, RpcFault
<1>2. CASE rpc.pc = "launch"
  BY <1>1, <1>2, RpcGoes, RpcPlaces, Recoveries, NoName DEF TypeInv, RpcFault
<1>3. CASE rpc.pc # "launch"
  BY <1>1, <1>3, RpcEnds, Alike DEF TypeInv, RpcFault
<1> QED
  BY <1>2, <1>3

-----------------------------------------------------------------------------
(* Types: the rest of the router                                             *)

LEMMA TickTypes ==
  ASSUME TypeInv, Tick
  PROVE  /\ TypeInv' /\ mem'.journal = mem.journal /\ mem'.state = mem.state
         /\ mem'.intent = mem.intent
<1>1. CASE TickGuard
  <2>1. BudgetOK'
    BY <1>1, Spends DEF TypeInv, TickGuard, Spent
  <2>2. FlagsOK'
    BY <1>1 DEF TypeInv, FlagsOK, TickGuard
  <2> QED
    BY <1>1, <2>1, <2>2, Alike DEF TypeInv, TickGuard
<1>2. CASE TickLock
  <2>1. HoldersOK' /\ FlagsOK'
    BY <1>2 DEF TypeInv, HoldersOK, FlagsOK, TickLock, Holders
  <2> QED
    BY <1>2, <2>1, Alike DEF TypeInv, TickLock
<1>3. CASE TickWrite
  <2>1. FileOK("policy", Ticks)
    BY BackupAssumption, Kinds DEF TypeInv, BudgetOK, Spent, Ticks, Policies
  <2>2. FilesOK' /\ \A g \in Files : g # "policy" => mem'[g] = mem[g]
    BY <1>3, <2>1, PutFile DEF TypeInv, TickWrite, Files
  <2>3. HoldersOK' /\ FlagsOK'
    BY <1>3 DEF TypeInv, HoldersOK, FlagsOK, TickWrite, Holders
  <2>4. mem'.journal = mem.journal /\ mem'.state = mem.state /\ mem'.intent = mem.intent
    BY <2>2 DEF Files
  <2> QED
    BY <1>3, <2>2, <2>3, <2>4, Alike DEF TypeInv, TickWrite
<1>4. CASE TickDone
  <2>1. FlagsOK'
    BY <1>4 DEF TypeInv, FlagsOK, TickDone
  <2> QED
    BY <1>4, <2>1, Alike DEF TypeInv, TickDone
<1> QED
  BY <1>1, <1>2, <1>3, <1>4 DEF Tick

LEMMA ReloadTypes ==
  ASSUME TypeInv, Reload
  PROVE  TypeInv' /\ init'.pc = "stop" /\ init'.by = "reload" /\ init'.full
<1>1. InitOK' /\ init'.pc = "stop" /\ init'.by = "reload" /\ init'.full
  BY Asks DEF Reload
<1>2. BudgetOK'
  BY Spends DEF TypeInv, Reload, Spent
<1> QED
  BY <1>1, <1>2, Alike DEF TypeInv, Reload

LEMMA EditTypes ==
  ASSUME TypeInv, Edit
  PROVE  /\ TypeInv' /\ mem'.journal = mem.journal /\ mem'.state = mem.state
         /\ mem'.intent = mem.intent
<1>1. FileOK("config", "edited")
  BY Kinds DEF Panels
<1>2. FilesOK' /\ \A g \in Files : g # "config" => mem'[g] = mem[g]
  BY <1>1, PutFile DEF TypeInv, Edit, Files
<1>3. BudgetOK' /\ FlagsOK'
  BY Spends DEF TypeInv, Edit, Spent, FlagsOK
<1>4. mem'.journal = mem.journal /\ mem'.state = mem.state /\ mem'.intent = mem.intent
  BY <1>2 DEF Files
<1> QED
  BY <1>2, <1>3, <1>4, Alike DEF TypeInv, Edit

LEMMA FaultTypes ==
  ASSUME TypeInv, Fault
  PROVE  /\ TypeInv' /\ mem' = mem
         /\ UNCHANGED <<tunnel, init, tick, stopped>>
         /\ (\E p \in Recoverers : RecFault(p)) \/ (\E j \in Jobs : WorkFault(j)) \/ RpcFault
<1>1. BudgetOK'
  BY Spends DEF TypeInv, Fault, Spent
<1>2. ASSUME NEW p \in Recoverers, RecFault(p)
      PROVE  TypeInv' /\ mem' = mem /\ UNCHANGED <<tunnel, init, tick, stopped>>
  <2>1. FlagsOK'
    BY <1>2 DEF TypeInv, FlagsOK, RecFault, Fault
  <2> QED
    BY <1>1, <1>2, <2>1, RecFaults, Alike DEF TypeInv, RecFault
<1>3. ASSUME NEW j \in Jobs, WorkFault(j)
      PROVE  TypeInv' /\ mem' = mem /\ UNCHANGED <<tunnel, init, tick, stopped>>
  <2>1. FlagsOK'
    BY <1>3 DEF TypeInv, FlagsOK, WorkFault, Fault
  <2> QED
    BY <1>1, <1>3, <2>1, WorkFaults, Alike DEF TypeInv, WorkFault
<1>4. ASSUME RpcFault
      PROVE  TypeInv' /\ mem' = mem /\ UNCHANGED <<tunnel, init, tick, stopped>>
  <2>1. FlagsOK'
    BY <1>4 DEF TypeInv, FlagsOK, RpcFault, Fault
  <2> QED
    BY <1>1, <1>4, <2>1, RpcFaults, Alike DEF TypeInv, RpcFault
<1> QED
  BY <1>2, <1>3, <1>4 DEF Fault

LEMMA WorkerDiesTypes ==
  ASSUME TypeInv, NEW j \in Jobs, WorkerDies(j)
  PROVE  /\ TypeInv' /\ wk[j].pc # "off" /\ wk'[j].pc = "gone" /\ ~wk'[j].syncing /\ Release(j)
         /\ \A i \in Jobs : i # j => wk'[i] = wk[i]
         /\ rec'[j].pc = "off" /\ \A q \in Recoverers : q # j => rec'[q] = rec[q]
<1>1. /\ WkOK' /\ wk[j].pc # "off" /\ wk'[j].pc = "gone" /\ ~wk'[j].syncing
      /\ \A i \in Jobs : i # j => wk'[i] = wk[i]
  BY WorkGoes, WorkPlaces DEF TypeInv, WorkerDies
<1>2. RecOK' /\ rec'[j].pc = "off" /\ \A q \in Recoverers : q # j => rec'[q] = rec[q]
  BY Recoveries, NoName DEF TypeInv, WorkerDies
<1>3. HoldersOK' /\ BudgetOK' /\ Release(j)
  BY Releases, Spends DEF TypeInv, WorkerDies, Spent
<1> QED
  BY <1>1, <1>2, <1>3, Alike DEF TypeInv, WorkerDies

LEMMA Reborn ==
  ASSUME RpcOK, rpc' = [NoCall EXCEPT !.pc = "recover"]
  PROVE  RpcOK' /\ rpc'.pc = "recover"
  BY RpcPlaces DEF RpcOK, NoCall, AnyJournal, Enqueued

LEMMA RpcdDiesTypes ==
  ASSUME TypeInv, RpcdDies
  PROVE  /\ TypeInv' /\ rpc'.pc = "recover" /\ rec'["rpc"].pc = "peek" /\ Release("rpc")
         /\ \A q \in Recoverers : q # "rpc" => rec'[q] = rec[q]
<1>1. RecOK' /\ rec'["rpc"].pc = "peek"
      /\ \A q \in Recoverers : q # "rpc" => rec'[q] = rec[q]
  BY Recoveries, NoName DEF TypeInv, RpcdDies
<1>2. HoldersOK' /\ BudgetOK' /\ Release("rpc")
  BY Releases, Spends DEF TypeInv, RpcdDies, Spent
<1> QED
  BY <1>1, <1>2, Reborn, Alike DEF TypeInv, RpcdDies

LEMMA PowerLossTypes ==
  ASSUME TypeInv, PowerLoss
  PROVE  /\ TypeInv' /\ rpc'.pc = "recover" /\ init'.pc = "boot" /\ tunnel' = "none"
         /\ tick' = "idle"
         /\ \A p \in Recoverers : rec'[p].pc = IF p = "rpc" THEN "peek" ELSE "off"
         /\ \A j \in Jobs : wk'[j].pc \in {"off", "gone"}
         /\ stopped' => ~mem'.state.active
<1>1. FilesOK'
  <2>1. PICK st \in disk.state, cf \in disk.config, po \in disk.policy,
             jo \in disk.journal, it \in disk.intent, ke \in disk.keys :
          mem' = [state |-> st, config |-> cf, policy |-> po, journal |-> jo,
                  intent |-> it, keys |-> ke]
    BY DEF PowerLoss
  <2>2. /\ st \in States /\ cf \in Panels /\ po \in Policies
        /\ jo \in AnyJournal /\ it \in Nat /\ ke \in Keys
    BY <2>1, Kinds DEF TypeInv, FilesOK, Files
  <2>3. /\ FileOK("state", mem'.state) /\ FileOK("config", mem'.config)
        /\ FileOK("policy", mem'.policy) /\ FileOK("journal", mem'.journal)
        /\ FileOK("intent", mem'.intent) /\ FileOK("keys", mem'.keys)
        /\ DOMAIN mem' = Files
    BY <2>1, <2>2, Kinds DEF Files
  <2>4. \A f \in Files : FileOK(f, mem'[f])
    BY <2>3 DEF Files
  <2>5. DOMAIN disk' = Files /\ \A f \in Files : disk'[f] = {mem'[f]}
    BY DEF PowerLoss
  <2> QED
    BY <2>3, <2>4, <2>5 DEF FilesOK, FileOK
<1>2. HoldersOK'
  BY DEF PowerLoss, HoldersOK, Holders
<1>3. RpcOK' /\ rpc'.pc = "recover"
  BY Reborn DEF TypeInv, PowerLoss
<1>4. WkOK' /\ \A j \in Jobs : wk'[j].pc \in {"off", "gone"}
  <2>1. wk' = [j \in Jobs |-> IF wk[j].pc = "off" THEN NoWorker
                              ELSE [NoWorker EXCEPT !.pc = "gone"]]
    BY DEF PowerLoss
  <2> DEFINE none == [NoWorker EXCEPT !.pc = "gone"]
             Kind == [pc : WorkPcs, val : AnyJournal, syncing : BOOLEAN]
  <2>2. /\ NoWorker \in Kind /\ NoWorker.pc = "off" /\ ~NoWorker.syncing
        /\ none \in Kind /\ none.pc = "gone" /\ ~none.syncing
    BY WorkPlaces DEF NoWorker, AnyJournal
  <2> HIDE DEF none
  <2>3. \A j \in Jobs : wk'[j] \in {NoWorker, none}
    BY <2>1 DEF none
  <2>4. /\ \A j \in Jobs : wk'[j] \in Kind /\ wk'[j].pc \in {"off", "gone"} /\ ~wk'[j].syncing
        /\ DOMAIN wk' = Jobs
    BY <2>1, <2>2, <2>3
  <2>5. wk' \in [Jobs -> Kind]
    BY <2>1, <2>4
  <2> QED
    BY <2>4, <2>5, WorkPlaces DEF WkOK
<1>5. RecOK' /\ \A p \in Recoverers : rec'[p].pc = IF p = "rpc" THEN "peek" ELSE "off"
  <2> DEFINE peek == [NotRecovering EXCEPT !.pc = "peek"]
             Kind == [pc : RecPcs, val : AnyJournal, stage : {"check", "write", "sync"}]
  <2>1. rec' = [p \in Recoverers |-> IF p = "rpc" THEN peek ELSE NotRecovering]
    BY DEF PowerLoss
  <2>2. /\ NotRecovering \in Kind /\ NotRecovering.pc = "off"
        /\ peek \in Kind /\ peek.pc = "peek"
    BY DEF NotRecovering, AnyJournal, RecPcs
  <2> HIDE DEF peek
  <2>3. /\ \A p \in Recoverers : rec'[p].pc = IF p = "rpc" THEN "peek" ELSE "off"
        /\ rec' \in [Recoverers -> Kind]
    BY <2>1, <2>2
  <2> QED
    BY <2>3, RecTables DEF RecOK
<1>6. InitOK' /\ init'.pc = "boot"
  BY DEF PowerLoss, InitOK
<1>7. FlagsOK' /\ tunnel' = "none" /\ tick' = "idle" /\ (stopped' => ~mem'.state.active)
  BY DEF TypeInv, FlagsOK, PowerLoss
<1>8. BudgetOK'
  BY Spends DEF TypeInv, PowerLoss, Spent
<1> QED
  BY <1>1, <1>2, <1>3, <1>4, <1>5, <1>6, <1>7, <1>8 DEF TypeInv

LEMMA InitTypes ==
  ASSUME Init
  PROVE  TypeInv /\ LaunchOK
<1> DEFINE own == [doc |-> "own", edits |-> 0, cut |-> FALSE]
           first(on) == [rev |-> 0, active |-> on, body |-> own]
<1>1. PICK on \in BOOLEAN :
        /\ mem = [state |-> first(on), config |-> FirstPanel, policy |-> 0,
                  journal |-> NoJournal, intent |-> 0, keys |-> [rev |-> 0, owner |-> 0]]
        /\ tunnel = IF on THEN "up" ELSE "none"
  BY DEF Init
<1>2. own \in Bodies
  BY DEF Bodies
<1> HIDE DEF own
<1>3. first(on) \in States
  BY <1>2 DEF States, Revs
<1> HIDE DEF first
<1>4. /\ FileOK("state", mem.state) /\ FileOK("config", mem.config)
      /\ FileOK("policy", mem.policy) /\ FileOK("journal", mem.journal)
      /\ FileOK("intent", mem.intent) /\ FileOK("keys", mem.keys)
      /\ DOMAIN mem = Files
  BY <1>1, <1>3, Kinds DEF Files, Panels, Policies, AnyJournal, Keys
<1>5. \A f \in Files : FileOK(f, mem[f])
  BY <1>4 DEF Files
<1>6. DOMAIN disk = Files /\ \A f \in Files : disk[f] = {mem[f]}
  BY DEF Init
<1>7. FilesOK
  BY <1>4, <1>5, <1>6 DEF FilesOK
<1>8. HoldersOK
  BY DEF Init, HoldersOK, Holders
<1>9. RpcOK /\ LaunchOK
  BY RpcPlaces DEF Init, RpcOK, LaunchOK, NoCall, AnyJournal, Enqueued
<1>10. WkOK
  BY WorkPlaces DEF Init, WkOK, NoWorker, AnyJournal
<1>11. RecOK
  BY RecTables DEF Init, RecOK, NotRecovering, AnyJournal, RecPcs
<1>12. InitOK
  BY DEF Init, InitOK, NoInit
<1>13. FlagsOK
  BY <1>1 DEF Init, FlagsOK
<1>14. BudgetOK
  BY BackupAssumption DEF Init, BudgetOK, Spent
<1> QED
  BY <1>7, <1>8, <1>9, <1>10, <1>11, <1>12, <1>13, <1>14 DEF TypeInv

LEMMA WorkerTypes ==
  ASSUME TypeInv, NEW j \in Jobs, Worker(j)
  PROVE  /\ TypeInv' /\ rpc' = rpc /\ wk[j].pc # "off"
         /\ \A i \in Jobs : i # j => wk'[i] = wk[i]
<1>1. CASE WorkContext(j)
  BY <1>1, WorkContextTypes DEF WorkContext, At
<1>2. CASE WorkEngine(j)
  BY <1>2, WorkEngineTypes DEF WorkEngine, At
<1>3. CASE WorkFirst(j)
  BY <1>3, WorkFirstTypes DEF WorkFirst, At
<1>4. CASE WorkQuiesce(j)
  BY <1>4, WorkQuiesceTypes DEF WorkQuiesce, At
<1>5. CASE WorkWrite(j)
  <2>1. "off" \notin Section
    BY DEF Section
  <2> QED
    BY <1>5, <2>1, WorkWrites DEF WorkWrite
<1>6. CASE WorkSync(j)
  <2>1. wk[j].pc \in Section /\ "off" \notin Section
    BY <1>6 DEF WorkSync, TypeInv, WkOK, Section
  <2> QED
    BY <1>6, <2>1, WorkSyncTypes DEF WorkSync
<1>7. CASE WorkCatch(j)
  BY <1>7, WorkCatchTypes DEF WorkCatch, At
<1>8. CASE WorkRecovered(j)
  BY <1>8, WorkRecoveredTypes DEF WorkRecovered, At
<1>9. CASE WorkResume(j)
  BY <1>9, WorkResumeTypes DEF WorkResume, At
<1>10. CASE WorkAbort(j)
  BY <1>10, WorkAbortTypes DEF WorkAbort, At
<1>11. CASE WorkAborted(j)
  BY <1>11, WorkAbortedTypes DEF WorkAborted, At
<1> QED
  BY <1>1, <1>2, <1>3, <1>4, <1>5, <1>6, <1>7, <1>8, <1>9, <1>10, <1>11 DEF Worker

LEMMA RecoveryTypes ==
  ASSUME TypeInv, NEW p \in Recoverers, Recovery(p)
  PROVE  TypeInv' /\ UNCHANGED <<rpc, wk, init, tunnel, tick, stopped>>
<1>1. TypeInv'
  BY RecPeekTypes, RecEngineTypes, RecStateTypes, RecReadTypes, RecCheckTypes,
     RecWriteTypes, RecSyncTypes DEF Recovery
<1>2. UNCHANGED <<rpc, wk, init, tunnel, tick, stopped>>
  BY DEF Recovery, RecPeek, RecEngine, RecState, RecRead, RecCheck, RecWrite, RecSync
<1> QED
  BY <1>1, <1>2

LEMMA InitScriptTypes ==
  ASSUME TypeInv, InitScript
  PROVE  /\ TypeInv' /\ (rpc' = rpc \/ rpc'.pc = "idle")
         /\ UNCHANGED <<mem, tick, stopped>>
         /\ \A j \in Jobs : wk[j].pc = "off" => wk'[j].pc = "off"
<1>1. CASE InitDone
  <2>1. TypeInv' /\ (rpc' = rpc \/ rpc'.pc = "idle")
    BY <1>1, InitDoneTypes DEF NoCall
  <2>2. \A j \in Jobs : wk[j].pc = "off" => wk'[j].pc = "off"
    BY <1>1, InitDoneTypes
  <2> QED
    BY <1>1, <2>1, <2>2 DEF InitDone
<1>2. CASE InitStop \/ InitBoot \/ InitGate \/ InitStart
  <2>1. TypeInv'
    BY <1>2, InitStopTypes, InitBootTypes, InitGateTypes, InitStartTypes
  <2>2. UNCHANGED <<rpc, wk, mem, tick, stopped>>
    BY <1>2 DEF InitStop, InitBoot, InitGate, InitStart
  <2> QED
    BY <2>1, <2>2
<1> QED
  BY <1>1, <1>2 DEF InitScript

LEMMA TunnelEndsTypes ==
  ASSUME TypeInv, TunnelEnds
  PROVE  /\ TypeInv' /\ (Down => Down')
         /\ UNCHANGED <<mem, disk, locks, rpc, wk, rec, init, tick, stopped, meddled, budget>>
<1>1. FlagsOK' /\ (Down => Down')
  BY DEF TypeInv, FlagsOK, TunnelEnds, Down
<1> QED
  BY <1>1, Alike DEF TypeInv, TunnelEnds

LEMMA LaunchStep ==
  ASSUME TypeInv, LaunchOK, [Next]_vars
  PROVE  TypeInv' /\ LaunchOK'
<1>0. rpc.pc \in Enqueued => rpc.val.id \in Jobs
  BY JournalTypes DEF TypeInv, RpcOK
<1>1. CASE RpcLock
  BY <1>1, RpcLockTypes, RpcPlaces DEF LaunchOK, NoCall
<1>2. CASE RpcIntent
  BY <1>2, RpcIntentTypes, RpcPlaces DEF LaunchOK
<1>3. CASE RpcKeys
  BY <1>3, RpcKeysTypes, RpcPlaces DEF LaunchOK, NoCall, RpcKeys
<1>4. CASE RpcWrite
  BY <1>4, RpcWriteTypes, RpcPlaces DEF LaunchOK
<1>5. CASE RpcRestart
  BY <1>5, RpcRestartTypes, RpcPlaces DEF LaunchOK
<1>6. CASE RpcQueue
  BY <1>6, RpcQueueTypes DEF LaunchOK, RpcQueue
<1>7. CASE RpcRefuse
  BY <1>7, RpcRefuseTypes, RpcPlaces DEF LaunchOK
<1>8. CASE RpcPrepare
  BY <1>8, RpcPrepareTypes, RpcPlaces DEF LaunchOK, RpcPrepare, RpcAt, Enqueued
<1>9. CASE RpcQueued
  BY <1>9, RpcQueuedTypes DEF LaunchOK, RpcQueued, RpcAt, Enqueued
<1>10. CASE RpcLaunch
  BY <1>10, RpcLaunchTypes, RpcPlaces DEF LaunchOK
<1>11. CASE RpcRecovered
  BY <1>11, RpcRecoveredTypes, RpcPlaces DEF LaunchOK
<1>12. CASE InitScript \/ TunnelEnds
  <2>1. CASE InitScript
    BY <1>0, <2>1, InitScriptTypes, RpcPlaces DEF LaunchOK
  <2>2. CASE TunnelEnds
    BY <2>2, TunnelEndsTypes DEF LaunchOK
  <2> QED
    BY <1>12, <2>1, <2>2
<1>13. CASE Tick
  BY <1>13, TickTypes DEF LaunchOK, Tick, TickGuard, TickLock, TickWrite, TickDone
<1>14. ASSUME NEW j \in Jobs, Worker(j)
       PROVE  TypeInv' /\ LaunchOK'
  BY <1>0, <1>14, WorkerTypes DEF LaunchOK
<1>15. ASSUME NEW p \in Recoverers, Recovery(p)
       PROVE  TypeInv' /\ LaunchOK'
  BY <1>15, RecoveryTypes DEF LaunchOK
<1>16. ASSUME NEW op \in Ops, RpcCall(op)
       PROVE  TypeInv' /\ LaunchOK'
  BY <1>16, RpcCallTypes, RpcPlaces DEF LaunchOK
<1>17. CASE Reload
  BY <1>17, ReloadTypes DEF LaunchOK, Reload
<1>18. CASE Edit
  BY <1>18, EditTypes DEF LaunchOK, Edit
<1>19. CASE Fault
  <2>1. TypeInv'
    BY <1>19, FaultTypes
  <2>2. ASSUME NEW p \in Recoverers, RecFault(p) PROVE LaunchOK'
    BY <2>2 DEF RecFault, LaunchOK
  <2>3. ASSUME NEW j \in Jobs, WorkFault(j) PROVE LaunchOK'
    <3>1. wk[j].pc # "off" /\ rpc' = rpc
      BY <2>3, WorkTables DEF WorkFault, At, Section
    <3> QED
      BY <1>0, <2>3, <3>1, WorkFaults DEF LaunchOK
  <2>4. ASSUME RpcFault PROVE LaunchOK'
    BY <2>4, RpcFaults, RpcPlaces DEF LaunchOK
  <2> QED
    BY <1>19, <2>1, <2>2, <2>3, <2>4, FaultTypes
<1>20. CASE RpcdDies
  BY <1>20, RpcdDiesTypes, RpcPlaces DEF LaunchOK
<1>21. CASE PowerLoss
  BY <1>21, PowerLossTypes, RpcPlaces DEF LaunchOK
<1>22. ASSUME NEW j \in Jobs, WorkerDies(j)
       PROVE  TypeInv' /\ LaunchOK'
  BY <1>0, <1>22, WorkerDiesTypes DEF LaunchOK, WorkerDies
<1>23. CASE UNCHANGED vars
  BY <1>23, Alike DEF vars, TypeInv, LaunchOK
<1> QED
  BY <1>1, <1>2, <1>3, <1>4, <1>5, <1>6, <1>7, <1>8, <1>9, <1>10, <1>11, <1>12, <1>13,
     <1>14, <1>15, <1>16, <1>17, <1>18, <1>19, <1>20, <1>21, <1>22, <1>23
     DEF Next, System, Environment, Rpc

(* TypeOK: every file holds a value of its kind, on the flash too, and every *)
(* process is at a place of its program, whatever is queued, killed or lost. *)
THEOREM BackupTypeCorrect == Spec => []TypeOK
<1>1. Init => TypeInv /\ LaunchOK
  BY InitTypes
<1>2. TypeInv /\ LaunchOK /\ [Next]_vars => (TypeInv /\ LaunchOK)'
  BY LaunchStep
<1>3. TypeInv => TypeOK
  BY DEF TypeInv, TypeOK, FilesOK, HoldersOK, RpcOK, WkOK, RecOK, InitOK, FlagsOK, BudgetOK
<1> QED
  BY <1>1, <1>2, <1>3, PTL DEF Spec

-----------------------------------------------------------------------------
(* Locks: who holds what where                                               *)

Working  == {"first", "quiesce", "quiescing", "catch", "recovering", "resume", "resuming"}
            \cup Section
Deciding == {"read", "config", "policy", "publish", "error"}

RpcLocks ==
  /\ rpc.pc \in {"intent", "keys", "write", "prepare", "queued"} => stateLock = "rpc"
  /\ rpc.pc \in {"prepare", "queued"} => engineLock = "rpc"
TickLocks == tick = "holding" => engineLock = "tick"
WorkHolds(j) ==
  /\ wk[j].pc \in Working => engineLock = j
  /\ wk[j].pc \in {"state", "commit", "recovering"} => stateLock = j
  /\ wk[j].pc \in {"apply", "mark"} /\ wk[j].syncing => stateLock = j
RecHolds(p) ==
  /\ rec[p].pc \in {"state"} \cup Deciding => engineLock = p
  /\ rec[p].pc \in Deciding => stateLock = p

(* A run of recover() belongs to whoever is waiting for it.                  *)
RecOwned ==
  /\ rec["rpc"].pc # "off" => rpc.pc = "recover"
  /\ rec["init"].pc # "off" => init.pc = "gate"
JobOwned(j) ==
  /\ rec[j].pc # "off" => wk[j].pc \in {"recovering", "aborting"}
  /\ wk[j].pc = "recovering" => rec[j].pc \in {"ok", "fail"} \cup Deciding

(* A worker that quiesces the runtime waits for its own run of the script.   *)
Quiet(j) ==
  wk[j].pc = "quiescing" =>
    /\ init.by = j /\ ~init.full /\ init.pc \in {"stop", "done"}
    /\ init.pc = "done" => Down

LockInv ==
  /\ RpcLocks /\ TickLocks /\ RecOwned
  /\ \A j \in Jobs : WorkHolds(j) /\ JobOwned(j) /\ Quiet(j)
  /\ \A p \in Recoverers : RecHolds(p)

(* p's step takes a lock that is free and drops one of its own.              *)
OwnLocks(p) ==
  /\ engineLock' = engineLock \/ engineLock \in {"free", p}
  /\ stateLock' = stateLock \/ stateLock \in {"free", p}

LEMMA OwnRelease ==
  ASSUME NEW p, Release(p)
  PROVE  OwnLocks(p)
  BY DEF Release, OwnLocks, Free

LEMMA OthersKeepLocks ==
  ASSUME LockInv, NEW p, OwnLocks(p)
  PROVE  /\ p # "rpc" /\ rpc' = rpc => RpcLocks'
         /\ p # "tick" /\ tick' = tick => TickLocks'
         /\ \A j \in Jobs : j # p /\ wk'[j] = wk[j] => WorkHolds(j)'
         /\ \A q \in Recoverers : q # p /\ rec'[q] = rec[q] => RecHolds(q)'
<1>1. p # "rpc" /\ rpc' = rpc => RpcLocks'
  BY DEF LockInv, RpcLocks, OwnLocks
<1>2. p # "tick" /\ tick' = tick => TickLocks'
  BY DEF LockInv, TickLocks, OwnLocks
<1>3. ASSUME NEW j \in Jobs, j # p, wk'[j] = wk[j]
      PROVE  WorkHolds(j)'
  BY <1>3, NoName DEF LockInv, WorkHolds, OwnLocks
<1>4. ASSUME NEW q \in Recoverers, q # p, rec'[q] = rec[q]
      PROVE  RecHolds(q)'
  BY <1>4, BackupAssumption DEF LockInv, RecHolds, OwnLocks, Recoverers
<1> QED
  BY <1>1, <1>2, <1>3, <1>4

LEMMA StillKeepLocks ==
  ASSUME LockInv, UNCHANGED locks
  PROVE  /\ rpc' = rpc => RpcLocks'
         /\ tick' = tick => TickLocks'
         /\ \A j \in Jobs : wk'[j] = wk[j] => WorkHolds(j)'
         /\ \A q \in Recoverers : rec'[q] = rec[q] => RecHolds(q)'
  BY DEF LockInv, RpcLocks, TickLocks, WorkHolds, RecHolds, locks

(* What a worker's step has to keep for itself.                              *)
LEMMA WorkerKeepsLocks ==
  ASSUME LockInv, NEW j \in Jobs, OwnLocks(j), UNCHANGED <<rpc, tick>>,
         \A i \in Jobs : i # j => wk'[i] = wk[i],
         \A q \in Recoverers : q # j => rec'[q] = rec[q],
         WorkHolds(j)', JobOwned(j)', Quiet(j)', RecHolds(j)',
         UNCHANGED <<init, tunnel>> \/ (init.pc = "idle" /\ init'.pc = "stop")
  PROVE  LockInv'
<1>1. RpcLocks' /\ TickLocks'
  BY NoName, OthersKeepLocks
<1>2. \A q \in Recoverers : RecHolds(q)'
  BY OthersKeepLocks
<1>3. RecOwned'
  BY NoName DEF LockInv, RecOwned
<1>4. ASSUME NEW i \in Jobs, i # j
      PROVE  WorkHolds(i)' /\ JobOwned(i)' /\ Quiet(i)'
  <2>1. WorkHolds(i)'
    BY <1>4, OthersKeepLocks
  <2>2. i \in Recoverers /\ rec'[i] = rec[i] /\ wk'[i] = wk[i]
    BY <1>4, NoName
  <2>3. JobOwned(i) /\ Quiet(i)
    BY DEF LockInv
  <2>4. JobOwned(i)'
    BY <2>2, <2>3 DEF JobOwned
  <2>5. Quiet(i)'
    BY <2>2, <2>3 DEF Quiet, Down
  <2> QED
    BY <2>1, <2>4, <2>5
<1> QED
  BY <1>1, <1>2, <1>3, <1>4 DEF LockInv

LEMMA Places ==
  /\ Section \subseteq Working /\ Section = {"apply", "config", "policy", "mark", "state", "commit"}
  /\ {"first", "quiesce", "quiescing", "catch", "recovering", "resume", "resuming"} \subseteq Working
  /\ \A pc \in {"off", "context", "engine", "abort", "aborting", "gone"} : pc \notin Working
  /\ Deciding = {"read", "config", "policy", "publish", "error"}
  /\ RecWrites \subseteq Deciding
  /\ \A pc \in {"off", "peek", "engine", "state", "ok", "fail"} : pc \notin Deciding
  BY RecTables DEF Working, Section, Deciding

(* Unless it waits for a recovery a worker has none.                         *)
LEMMA NoRecovery ==
  ASSUME LockInv, NEW j \in Jobs, wk[j].pc \notin {"recovering", "aborting"}
  PROVE  rec[j].pc = "off"
  BY DEF LockInv, JobOwned

LEMMA WorkerStartsLocks ==
  ASSUME TypeInv, LockInv, NEW j \in Jobs,
         WorkContext(j) \/ WorkEngine(j) \/ WorkFirst(j) \/ WorkQuiesce(j) \/ WorkResume(j)
  PROVE  LockInv'
<1>1. /\ \A i \in Jobs : i # j => wk'[i] = wk[i]
      /\ \A q \in Recoverers : rec'[q] = rec[q]
      /\ rec[j].pc = "off" /\ j \in Recoverers
  <2>1. wk[j].pc \notin {"recovering", "aborting"}
    BY DEF WorkContext, WorkEngine, WorkFirst, WorkQuiesce, WorkResume, At
  <2>2. rec' = rec
    BY DEF WorkContext, WorkEngine, WorkFirst, WorkQuiesce, WorkResume
  <2> QED
    BY <2>1, <2>2, NoRecovery, NoName, WorkerTypes DEF Worker
<1>2. RecHolds(j)'
  BY <1>1, Places DEF RecHolds
<1>3. UNCHANGED <<rpc, tick>>
  BY DEF WorkContext, WorkEngine, WorkFirst, WorkQuiesce, WorkResume
<1>4. CASE WorkContext(j)
  <2>1. /\ wk'[j].pc \in {"engine", "gone"} /\ UNCHANGED <<locks, init, tunnel>>
    BY <1>4, WorkContextTypes DEF WorkContext
  <2>2. OwnLocks(j) /\ WorkHolds(j)' /\ JobOwned(j)' /\ Quiet(j)'
    BY <1>1, <2>1, Places DEF OwnLocks, locks, WorkHolds, JobOwned, Quiet
  <2> QED
    BY <1>1, <1>2, <1>3, <2>1, <2>2, WorkerKeepsLocks
<1>5. CASE WorkEngine(j)
  <2>1. /\ \/ wk'[j].pc = "first" /\ engineLock = "free" /\ engineLock' = j
           \/ wk'[j].pc = "abort" /\ engineLock' = engineLock
        /\ UNCHANGED <<init, tunnel, stateLock>>
    BY <1>5, WorkEngineTypes DEF WorkEngine
  <2>2. OwnLocks(j) /\ WorkHolds(j)' /\ JobOwned(j)' /\ Quiet(j)'
    BY <1>1, <2>1, Places DEF OwnLocks, WorkHolds, JobOwned, Quiet
  <2> QED
    BY <1>1, <1>2, <1>3, <2>1, <2>2, WorkerKeepsLocks
<1>6. CASE WorkFirst(j)
  <2>1. /\ \/ wk'[j].pc \in {"abort", "gone"} /\ Release(j)
           \/ wk'[j].pc = "quiesce" /\ UNCHANGED locks
        /\ UNCHANGED <<init, tunnel>>
    BY <1>6, WorkFirstTypes DEF WorkFirst
  <2>2. engineLock = j
    BY <1>6, Places DEF WorkFirst, At, LockInv, WorkHolds
  <2>3. OwnLocks(j) /\ WorkHolds(j)' /\ JobOwned(j)' /\ Quiet(j)'
    BY <1>1, <2>1, <2>2, Places DEF OwnLocks, WorkHolds, JobOwned, Quiet, Release, Free, locks
  <2> QED
    BY <1>1, <1>2, <1>3, <2>1, <2>3, WorkerKeepsLocks
<1>7. CASE WorkQuiesce(j)
  <2>1. /\ wk'[j].pc = "quiescing" /\ init.pc = "idle" /\ init'.pc = "stop" /\ init'.by = j
        /\ ~init'.full /\ UNCHANGED locks
    BY <1>7, WorkQuiesceTypes DEF WorkQuiesce
  <2>2. engineLock = j
    BY <1>7, Places DEF WorkQuiesce, At, LockInv, WorkHolds
  <2>3. OwnLocks(j) /\ WorkHolds(j)' /\ JobOwned(j)' /\ Quiet(j)'
    BY <1>1, <2>1, <2>2, Places DEF OwnLocks, WorkHolds, JobOwned, Quiet, locks
  <2> QED
    BY <1>1, <1>2, <1>3, <2>1, <2>3, WorkerKeepsLocks
<1>8. CASE WorkResume(j)
  <2>1. /\ wk'[j].pc = "resuming" /\ init.pc = "idle" /\ init'.pc = "stop" /\ UNCHANGED locks
    BY <1>8, WorkResumeTypes DEF WorkResume
  <2>2. engineLock = j
    BY <1>8, Places DEF WorkResume, At, LockInv, WorkHolds
  <2>3. OwnLocks(j) /\ WorkHolds(j)' /\ JobOwned(j)' /\ Quiet(j)'
    BY <1>1, <2>1, <2>2, Places DEF OwnLocks, WorkHolds, JobOwned, Quiet, locks
  <2> QED
    BY <1>1, <1>2, <1>3, <2>1, <2>3, WorkerKeepsLocks
<1> QED
  BY <1>4, <1>5, <1>6, <1>7, <1>8

LEMMA WorkerWritesLocks ==
  ASSUME TypeInv, LockInv, NEW j \in Jobs, WorkWrite(j) \/ WorkSync(j)
  PROVE  LockInv'
<1>1. wk[j].pc \in Section
  <2>1. wk[j].syncing => wk[j].pc \in Section
    BY DEF TypeInv, WkOK
  <2> QED
    BY <2>1, WorkTables DEF WorkWrite, WorkSync
<1>2. /\ \A i \in Jobs : i # j => wk'[i] = wk[i]
      /\ \A q \in Recoverers : rec'[q] = rec[q]
      /\ rec[j].pc = "off" /\ j \in Recoverers /\ engineLock = j
      /\ UNCHANGED <<rpc, tick, init, tunnel, engineLock>>
  <2>1. wk[j].pc \notin {"recovering", "aborting"}
    BY <1>1, Places
  <2>2. UNCHANGED <<rpc, tick, init, tunnel, engineLock, rec>>
    BY DEF WorkWrite, WorkSync
  <2>3. engineLock = j
    BY <1>1, Places DEF LockInv, WorkHolds
  <2> QED
    BY <2>1, <2>2, <2>3, NoRecovery, NoName, WorkerTypes DEF Worker
<1>3. RecHolds(j)'
  BY <1>2, Places DEF RecHolds
<1>4. CASE WorkWrite(j)
  <2>1. \/ wk'[j].pc = "catch" /\ stateLock' = stateLock
        \/ /\ wk'[j].pc = wk[j].pc
           /\ wk[j].pc \in {"apply", "mark"} => stateLock = "free" /\ stateLock' = j
           /\ wk[j].pc \notin {"apply", "mark"} => stateLock' = stateLock
    BY <1>4, WorkWrites
  <2>2. WorkHolds(j)
    BY DEF LockInv
  <2>3. OwnLocks(j) /\ WorkHolds(j)' /\ JobOwned(j)' /\ Quiet(j)'
    BY <1>1, <1>2, <2>1, <2>2, Places DEF OwnLocks, WorkHolds, JobOwned, Quiet
  <2> QED
    BY <1>2, <1>3, <2>3, WorkerKeepsLocks
<1>5. CASE WorkSync(j)
  <2>1. /\ ~wk'[j].syncing
        /\ \/ wk'[j].pc \in {"catch", "config", "resume"} /\ stateLock' = Free(stateLock, j)
           \/ wk'[j].pc \in {"policy", "mark"} /\ stateLock' = stateLock
           \/ wk[j].pc = "mark" /\ wk'[j].pc = "state" /\ stateLock' = stateLock
           \/ wk[j].pc = "state" /\ wk'[j].pc = "commit" /\ stateLock' = stateLock
    BY <1>5, WorkSyncTypes
  <2>2. WorkHolds(j) /\ wk[j].syncing
    BY <1>5 DEF LockInv, WorkSync
  <2>3. OwnLocks(j) /\ WorkHolds(j)' /\ JobOwned(j)' /\ Quiet(j)'
    BY <1>1, <1>2, <2>1, <2>2, Places DEF OwnLocks, WorkHolds, JobOwned, Quiet, Free
  <2> QED
    BY <1>2, <1>3, <2>3, WorkerKeepsLocks
<1> QED
  BY <1>4, <1>5

LEMMA WorkerEndsLocks ==
  ASSUME TypeInv, LockInv, NEW j \in Jobs,
         WorkFault(j) \/ WorkCatch(j) \/ WorkRecovered(j) \/ WorkAbort(j) \/ WorkAborted(j)
           \/ WorkerDies(j)
  PROVE  LockInv'
<1>1. UNCHANGED <<rpc, tick, init, tunnel>> /\ j \in Recoverers
  BY NoName DEF WorkFault, WorkCatch, WorkRecovered, WorkAbort, WorkAborted, WorkerDies
<1>2. WorkHolds(j) /\ JobOwned(j) /\ RecHolds(j)
  BY <1>1 DEF LockInv
<1>3. CASE WorkFault(j)
  <2>1. /\ wk'[j].pc = "catch" /\ \A i \in Jobs : i # j => wk'[i] = wk[i]
        /\ rec' = rec /\ stateLock' = Free(stateLock, j) /\ engineLock' = engineLock
    BY <1>3, WorkFaults DEF WorkFault
  <2>2. wk[j].pc \in Section \cup {"quiesce"}
    BY <1>3, WorkTables DEF WorkFault, At
  <2>3. engineLock = j /\ rec[j].pc = "off"
    BY <1>2, <2>2, Places, NoRecovery DEF WorkHolds
  <2>4. OwnLocks(j) /\ WorkHolds(j)' /\ JobOwned(j)' /\ Quiet(j)' /\ RecHolds(j)'
    BY <2>1, <2>3, Places DEF OwnLocks, WorkHolds, JobOwned, Quiet, RecHolds, Free
  <2> QED
    BY <1>1, <2>1, <2>4, WorkerKeepsLocks
<1>4. CASE WorkCatch(j)
  <2>1. /\ \A i \in Jobs : i # j => wk'[i] = wk[i]
        /\ \A q \in Recoverers : q # j => rec'[q] = rec[q]
        /\ \/ /\ wk'[j].pc = "recovering" /\ stateLock = "free" /\ stateLock' = j
              /\ engineLock' = engineLock /\ rec'[j].pc = "read"
           \/ wk'[j].pc = "abort" /\ Release(j) /\ rec' = rec
    BY <1>4, WorkCatchTypes
  <2>2. engineLock = j /\ rec[j].pc = "off"
    BY <1>2, <1>4, Places, NoRecovery DEF WorkHolds, WorkCatch, At
  <2>3. OwnLocks(j) /\ WorkHolds(j)' /\ JobOwned(j)' /\ Quiet(j)' /\ RecHolds(j)'
    BY <2>1, <2>2, Places
       DEF OwnLocks, WorkHolds, JobOwned, Quiet, RecHolds, Release, Free
  <2> QED
    BY <1>1, <2>1, <2>3, WorkerKeepsLocks
<1>5. CASE WorkRecovered(j)
  <2>1. /\ \A i \in Jobs : i # j => wk'[i] = wk[i]
        /\ rec'[j].pc = "off" /\ \A q \in Recoverers : q # j => rec'[q] = rec[q]
        /\ \/ wk'[j].pc = "resume" /\ stateLock' = "free" /\ engineLock' = engineLock
           \/ wk'[j].pc = "abort" /\ Release(j)
    BY <1>5, WorkRecoveredTypes
  <2>2. engineLock = j /\ stateLock = j
    BY <1>2, <1>5, Places DEF WorkHolds, WorkRecovered, At
  <2>3. OwnLocks(j) /\ WorkHolds(j)' /\ JobOwned(j)' /\ Quiet(j)' /\ RecHolds(j)'
    BY <2>1, <2>2, Places
       DEF OwnLocks, WorkHolds, JobOwned, Quiet, RecHolds, Release, Free
  <2> QED
    BY <1>1, <2>1, <2>3, WorkerKeepsLocks
<1>6. CASE WorkAbort(j)
  <2>1. /\ \A i \in Jobs : i # j => wk'[i] = wk[i]
        /\ \A q \in Recoverers : q # j => rec'[q] = rec[q]
        /\ \/ wk'[j].pc = "aborting" /\ rec'[j].pc = "peek"
           \/ wk'[j].pc = "gone" /\ rec' = rec
        /\ UNCHANGED locks
    BY <1>6, WorkAbortTypes DEF WorkAbort
  <2>2. rec[j].pc = "off"
    BY <1>6, NoRecovery DEF WorkAbort, At
  <2>3. OwnLocks(j) /\ WorkHolds(j)' /\ JobOwned(j)' /\ Quiet(j)' /\ RecHolds(j)'
    BY <2>1, <2>2, Places DEF OwnLocks, WorkHolds, JobOwned, Quiet, RecHolds, locks
  <2> QED
    BY <1>1, <2>1, <2>3, WorkerKeepsLocks
<1>7. CASE WorkAborted(j) \/ WorkerDies(j)
  <2>1. /\ \A i \in Jobs : i # j => wk'[i] = wk[i]
        /\ rec'[j].pc = "off" /\ \A q \in Recoverers : q # j => rec'[q] = rec[q]
        /\ wk'[j].pc = "gone" /\ Release(j)
    BY <1>7, WorkAbortedTypes, WorkerDiesTypes
  <2>2. OwnLocks(j) /\ WorkHolds(j)' /\ JobOwned(j)' /\ Quiet(j)' /\ RecHolds(j)'
    BY <2>1, OwnRelease, Places DEF WorkHolds, JobOwned, Quiet, RecHolds
  <2> QED
    BY <1>1, <2>1, <2>2, WorkerKeepsLocks
<1> QED
  BY <1>3, <1>4, <1>5, <1>6, <1>7

LEMMA RecovererKeepsLocks ==
  ASSUME LockInv, NEW p \in Recoverers, OwnLocks(p), rec[p].pc # "off",
         UNCHANGED <<rpc, wk, init, tunnel, tick>>,
         \A q \in Recoverers : q # p => rec'[q] = rec[q],
         RecHolds(p)',
         rec[p].pc \in {"ok", "fail"} \cup Deciding =>
           UNCHANGED locks /\ rec'[p].pc \in {"ok", "fail"} \cup Deciding
  PROVE  LockInv'
<1>1. RpcLocks'
  <2>1. CASE p = "rpc"
    BY <2>1 DEF LockInv, RecOwned, RpcLocks
  <2>2. CASE p # "rpc"
    BY <2>2, OthersKeepLocks
  <2> QED BY <2>1, <2>2
<1>2. TickLocks'
  BY BackupAssumption, OthersKeepLocks DEF Recoverers
<1>3. \A q \in Recoverers : RecHolds(q)'
  BY OthersKeepLocks
<1>4. RecOwned'
  <2>1. rec'["rpc"].pc # "off" => rpc'.pc = "recover"
    BY NoName DEF LockInv, RecOwned
  <2>2. rec'["init"].pc # "off" => init'.pc = "gate"
    BY NoName DEF LockInv, RecOwned
  <2> QED BY <2>1, <2>2 DEF RecOwned
<1>5. ASSUME NEW j \in Jobs
      PROVE  WorkHolds(j)' /\ JobOwned(j)' /\ Quiet(j)'
  <2>1. WorkHolds(j) /\ JobOwned(j) /\ Quiet(j) /\ wk'[j] = wk[j] /\ j \in Recoverers
    BY NoName DEF LockInv
  <2>2. Quiet(j)'
    BY <2>1 DEF Quiet, Down
  <2>3. CASE j # p
    BY <2>1, <2>2, <2>3, OthersKeepLocks DEF JobOwned
  <2>4. CASE j = p
    <3>1. wk[j].pc \in {"recovering", "aborting"}
      BY <2>1, <2>4 DEF JobOwned
    <3>2. CASE wk[j].pc = "aborting"
      BY <2>1, <2>2, <2>4, <3>2, Places DEF WorkHolds, JobOwned
    <3>3. CASE wk[j].pc = "recovering"
      <4>1. UNCHANGED locks /\ rec'[p].pc \in {"ok", "fail"} \cup Deciding
        BY <2>1, <2>4, <3>3 DEF JobOwned
      <4> QED
        BY <2>1, <2>2, <2>4, <3>3, <4>1 DEF WorkHolds, JobOwned, locks
    <3> QED
      BY <3>1, <3>2, <3>3
  <2> QED
    BY <2>3, <2>4
<1> QED
  BY <1>1, <1>2, <1>3, <1>4, <1>5 DEF LockInv

LEMMA RecoveryLocks ==
  ASSUME TypeInv, LockInv, NEW p \in Recoverers, Recovery(p) \/ RecFault(p)
  PROVE  LockInv'
<1>1. UNCHANGED <<rpc, wk, init, tunnel, tick>>
  BY RecoveryTypes DEF RecFault
<1>2. RecHolds(p)
  BY DEF LockInv
<1>3. CASE RecPeek(p)
  <2>1. RecGoto(p, "engine", "check") \/ RecGoto(p, "ok", "check")
    BY <1>3 DEF RecPeek
  <2>2. /\ rec'[p].pc \in {"engine", "ok"} /\ rec[p].pc = "peek" /\ UNCHANGED locks
        /\ \A q \in Recoverers : q # p => rec'[q] = rec[q]
    BY <1>3, <2>1, RecGoes, RecTables DEF TypeInv, RecPcs, RecPeek
  <2>3. OwnLocks(p) /\ RecHolds(p)'
    BY <2>2, Places DEF OwnLocks, RecHolds, locks
  <2> QED
    BY <1>1, <2>2, <2>3, Places, RecovererKeepsLocks
<1>4. CASE RecEngine(p)
  <2>1. \/ engineLock = "free" /\ engineLock' = p /\ RecGoto(p, "state", "check")
        \/ engineLock' = engineLock /\ RecGoto(p, "fail", "check")
    BY <1>4 DEF RecEngine
  <2>2. /\ \/ engineLock = "free" /\ engineLock' = p /\ rec'[p].pc = "state"
           \/ engineLock' = engineLock /\ rec'[p].pc = "fail"
        /\ rec[p].pc = "engine" /\ UNCHANGED stateLock
        /\ \A q \in Recoverers : q # p => rec'[q] = rec[q]
    BY <1>4, <2>1, RecGoes, RecTables DEF TypeInv, RecPcs, RecEngine
  <2>3. OwnLocks(p) /\ RecHolds(p)'
    BY <2>2, Places DEF OwnLocks, RecHolds
  <2> QED
    BY <1>1, <2>2, <2>3, Places, RecovererKeepsLocks
<1>5. CASE RecState(p)
  <2>1. \/ /\ stateLock = "free" /\ stateLock' = p /\ UNCHANGED engineLock
           /\ RecGoto(p, "read", "check")
        \/ Release(p) /\ RecGoto(p, "fail", "check")
    BY <1>5 DEF RecState
  <2>2. /\ \/ /\ stateLock = "free" /\ stateLock' = p /\ UNCHANGED engineLock
              /\ rec'[p].pc = "read"
           \/ Release(p) /\ rec'[p].pc = "fail"
        /\ rec[p].pc = "state"
        /\ \A q \in Recoverers : q # p => rec'[q] = rec[q]
    BY <1>5, <2>1, RecGoes, RecTables DEF TypeInv, RecPcs, RecState
  <2>3. OwnLocks(p) /\ RecHolds(p)'
    BY <1>2, <2>2, Places, OwnRelease DEF OwnLocks, RecHolds
  <2> QED
    BY <1>1, <2>2, <2>3, Places, RecovererKeepsLocks
<1>6. CASE RecRead(p) \/ RecCheck(p) \/ RecWrite(p) \/ RecSync(p) \/ RecFault(p)
  <2>1. UNCHANGED locks
    BY <1>6 DEF RecRead, RecCheck, RecWrite, RecSync, RecFault
  <2>2. rec[p].pc \in Deciding
    BY <1>6, Places DEF RecRead, RecCheck, RecWrite, RecSync, RecFault, RecAt
  <2>3. /\ rec'[p].pc \in {"ok", "fail"} \cup Deciding
        /\ \A q \in Recoverers : q # p => rec'[q] = rec[q]
    <3>1. CASE RecRead(p)
      BY <3>1, RecReads, Places
    <3>2. CASE RecCheck(p)
      BY <2>2, <3>2, RecChecks, Places
    <3>3. CASE RecWrite(p)
      BY <2>2, <3>3, RecWriteTypes
    <3>4. CASE RecSync(p)
      BY <3>4, RecSyncs, Places
    <3>5. CASE RecFault(p)
      BY <3>5, RecFaults, Places
    <3> QED
      BY <1>6, <3>1, <3>2, <3>3, <3>4, <3>5
  <2>4. engineLock = p /\ stateLock = p
    BY <1>2, <2>2 DEF RecHolds
  <2>5. OwnLocks(p) /\ RecHolds(p)'
    BY <2>1, <2>3, <2>4 DEF OwnLocks, RecHolds, locks
  <2> QED
    BY <1>1, <2>1, <2>2, <2>3, <2>5, Places, RecovererKeepsLocks
<1> QED
  BY <1>3, <1>4, <1>5, <1>6 DEF Recovery

LEMMA RpcKeepsLocks ==
  ASSUME LockInv, OwnLocks("rpc"), RpcLocks', UNCHANGED <<wk, tick>>,
         \A q \in Recoverers : q # "rpc" => rec'[q] = rec[q],
         rec'["rpc"].pc \in {"off", "peek"},
         rec'["rpc"].pc # "off" => rpc'.pc = "recover",
         UNCHANGED <<init, tunnel>> \/ (init.pc = "idle" /\ init'.pc = "stop")
  PROVE  LockInv'
<1>1. TickLocks'
  BY OthersKeepLocks
<1>2. ASSUME NEW q \in Recoverers PROVE RecHolds(q)'
  <2>1. CASE q = "rpc"
    BY <2>1, Places DEF RecHolds
  <2>2. CASE q # "rpc"
    BY <2>2, OthersKeepLocks
  <2> QED BY <2>1, <2>2
<1>3. RecOwned'
  BY NoName DEF LockInv, RecOwned
<1>4. ASSUME NEW i \in Jobs
      PROVE  WorkHolds(i)' /\ JobOwned(i)' /\ Quiet(i)'
  <2>1. WorkHolds(i)'
    BY NoName, OthersKeepLocks
  <2>2. rec'[i] = rec[i] /\ wk'[i] = wk[i]
    BY NoName
  <2>3. JobOwned(i) /\ Quiet(i)
    BY DEF LockInv
  <2>4. JobOwned(i)'
    BY <2>2, <2>3 DEF JobOwned
  <2>5. Quiet(i)'
    BY <2>2, <2>3 DEF Quiet, Down
  <2> QED
    BY <2>1, <2>4, <2>5
<1> QED
  BY <1>1, <1>2, <1>3, <1>4 DEF LockInv

LEMMA RpcLaunchLocks ==
  ASSUME TypeInv, LaunchOK, LockInv, RpcLaunch
  PROVE  LockInv'
<1>1. /\ rpc'.pc = "idle" /\ wk'[rpc.val.id].pc = "context"
      /\ \A i \in Jobs : i # rpc.val.id => wk'[i] = wk[i]
      /\ wk[rpc.val.id].pc = "off"
      /\ UNCHANGED <<locks, rec, init, tunnel, tick>> /\ rec["rpc"].pc = "off"
  BY RpcLaunchTypes DEF RpcLaunch, LaunchOK, RpcAt, Enqueued, LockInv, RecOwned
<1>2. RpcLocks' /\ TickLocks' /\ RecOwned' /\ \A p \in Recoverers : RecHolds(p)'
  BY <1>1, StillKeepLocks DEF LockInv, RpcLocks, RecOwned
<1>3. ASSUME NEW i \in Jobs
      PROVE  WorkHolds(i)' /\ JobOwned(i)' /\ Quiet(i)'
  <2>1. JobOwned(i) /\ Quiet(i)
    BY DEF LockInv
  <2>2. CASE i # rpc.val.id
    BY <1>1, <2>1, <2>2, StillKeepLocks DEF JobOwned, Quiet, Down
  <2>3. CASE i = rpc.val.id
    BY <1>1, <2>1, <2>3, Places DEF WorkHolds, JobOwned, Quiet
  <2> QED BY <2>2, <2>3
<1> QED
  BY <1>2, <1>3 DEF LockInv

LEMMA RpcStepsLocks ==
  ASSUME TypeInv, LaunchOK, LockInv, Rpc
  PROVE  LockInv'
<1>1. ASSUME UNCHANGED rec, rpc.pc # "recover"
      PROVE  /\ \A q \in Recoverers : q # "rpc" => rec'[q] = rec[q]
             /\ rec'["rpc"].pc = "off"
  BY <1>1 DEF LockInv, RecOwned
<1>2. RpcLocks
  BY DEF LockInv
<1>3. CASE RpcLock
  <2>1. OwnLocks("rpc") /\ RpcLocks'
    <3>1. /\ stateLock = "free"
          /\ \/ rpc'.pc = "idle" /\ UNCHANGED stateLock
             \/ stateLock' = "rpc" /\ rpc'.pc \in {"intent", "keys", "write"}
          /\ UNCHANGED engineLock
      BY <1>3, RpcLockTypes DEF RpcLock, NoCall
    <3> QED
      BY <3>1 DEF OwnLocks, RpcLocks
  <2>2. UNCHANGED <<wk, tick, init, tunnel, rec>> /\ rpc.pc = "wait"
    BY <1>3 DEF RpcLock, RpcAt
  <2> QED
    BY <1>1, <2>1, <2>2, RpcKeepsLocks
<1>4. CASE RpcIntent
  <2>1. OwnLocks("rpc") /\ RpcLocks'
    BY <1>2, <1>4, RpcIntentTypes DEF RpcIntent, RpcAt, OwnLocks, RpcLocks, locks
  <2>2. UNCHANGED <<wk, tick, init, tunnel, rec>> /\ rpc.pc = "intent"
    BY <1>4 DEF RpcIntent, RpcAt
  <2> QED
    BY <1>1, <2>1, <2>2, RpcKeepsLocks
<1>5. CASE RpcKeys
  <2>1. OwnLocks("rpc") /\ RpcLocks'
    BY <1>2, <1>5 DEF RpcKeys, RpcAt, OwnLocks, RpcLocks, NoCall, Free
  <2>2. UNCHANGED <<wk, tick, init, tunnel, rec>> /\ rpc.pc = "keys"
    BY <1>5 DEF RpcKeys, RpcAt
  <2> QED
    BY <1>1, <2>1, <2>2, RpcKeepsLocks
<1>6. CASE RpcWrite
  <2>1. OwnLocks("rpc") /\ RpcLocks'
    BY <1>2, <1>6, RpcWriteTypes DEF RpcWrite, RpcAt, OwnLocks, RpcLocks, Free
  <2>2. UNCHANGED <<wk, tick, init, tunnel, rec>> /\ rpc.pc = "write"
    BY <1>6 DEF RpcWrite, RpcAt
  <2> QED
    BY <1>1, <2>1, <2>2, RpcKeepsLocks
<1>7. CASE RpcRestart
  <2>1. OwnLocks("rpc") /\ RpcLocks'
    BY <1>7, RpcRestartTypes DEF RpcRestart, OwnLocks, RpcLocks, locks
  <2>2. /\ UNCHANGED <<wk, tick, rec>> /\ rpc.pc = "restart"
        /\ init.pc = "idle" /\ init'.pc = "stop"
    BY <1>7, RpcRestartTypes DEF RpcRestart, RpcAt
  <2> QED
    BY <1>1, <2>1, <2>2, RpcKeepsLocks
<1>8. CASE RpcQueue
  <2>1. OwnLocks("rpc") /\ RpcLocks'
    BY <1>8 DEF RpcQueue, OwnLocks, RpcLocks
  <2>2. UNCHANGED <<wk, tick, init, tunnel, rec>> /\ rpc.pc = "queue"
    BY <1>8 DEF RpcQueue, RpcAt
  <2> QED
    BY <1>1, <2>1, <2>2, RpcKeepsLocks
<1>9. CASE RpcRefuse
  <2>1. OwnLocks("rpc") /\ RpcLocks'
    BY <1>9, RpcRefuseTypes DEF RpcRefuse, OwnLocks, RpcLocks, locks
  <2>2. UNCHANGED <<wk, tick, init, tunnel, rec>> /\ rpc.pc = "queue"
    BY <1>9 DEF RpcRefuse, RpcAt
  <2> QED
    BY <1>1, <2>1, <2>2, RpcKeepsLocks
<1>10. CASE RpcPrepare
  <2>1. engineLock = "rpc" /\ stateLock = "rpc"
    BY <1>2, <1>10 DEF RpcPrepare, RpcAt, RpcLocks
  <2>2. \/ rpc'.pc = "queued" /\ UNCHANGED locks
        \/ rpc'.pc = "idle" /\ Release("rpc")
    BY <1>10, RpcPrepareTypes
  <2>3. OwnLocks("rpc") /\ RpcLocks'
    BY <2>1, <2>2, OwnRelease DEF OwnLocks, RpcLocks, locks
  <2>4. UNCHANGED <<wk, tick, init, tunnel, rec>> /\ rpc.pc = "prepare"
    BY <1>10 DEF RpcPrepare, RpcAt
  <2> QED
    BY <1>1, <2>3, <2>4, RpcKeepsLocks
<1>11. CASE RpcQueued
  <2>1. OwnLocks("rpc") /\ RpcLocks'
    BY <1>11, OwnRelease, RpcQueuedTypes DEF RpcQueued, RpcLocks
  <2>2. UNCHANGED <<wk, tick, init, tunnel, rec>> /\ rpc.pc = "queued"
    BY <1>11 DEF RpcQueued, RpcAt
  <2> QED
    BY <1>1, <2>1, <2>2, RpcKeepsLocks
<1>12. CASE RpcLaunch
  BY <1>12, RpcLaunchLocks
<1>13. CASE RpcRecovered
  <2>1. /\ rpc'.pc = "idle" /\ rec'["rpc"].pc = "off" /\ Release("rpc")
        /\ \A q \in Recoverers : q # "rpc" => rec'[q] = rec[q]
    BY <1>13, RpcRecoveredTypes
  <2>2. OwnLocks("rpc") /\ RpcLocks'
    BY <2>1, OwnRelease DEF RpcLocks
  <2>3. UNCHANGED <<wk, tick, init, tunnel>>
    BY <1>13 DEF RpcRecovered
  <2> QED
    BY <2>1, <2>2, <2>3, RpcKeepsLocks
<1> QED
  BY <1>3, <1>4, <1>5, <1>6, <1>7, <1>8, <1>9, <1>10, <1>11, <1>12, <1>13 DEF Rpc

LEMMA RpcOtherLocks ==
  ASSUME TypeInv, LockInv, RpcFault \/ RpcdDies \/ \E op \in Ops : RpcCall(op)
  PROVE  LockInv'
<1>1. CASE RpcFault
  <2>1. /\ Release("rpc")
        /\ \/ rpc'.pc = "recover" /\ rec'["rpc"].pc = "peek"
              /\ \A q \in Recoverers : q # "rpc" => rec'[q] = rec[q]
           \/ rpc'.pc = "idle" /\ rec' = rec
    BY <1>1, RpcFaults
  <2>2. UNCHANGED <<wk, tick, init, tunnel>> /\ rec["rpc"].pc = "off"
    BY <1>1 DEF RpcFault, LockInv, RecOwned
  <2>3. OwnLocks("rpc") /\ RpcLocks'
    BY <2>1, OwnRelease DEF RpcLocks
  <2> QED
    BY <2>1, <2>2, <2>3, RpcKeepsLocks
<1>2. CASE RpcdDies
  <2>1. /\ rpc'.pc = "recover" /\ rec'["rpc"].pc = "peek" /\ Release("rpc")
        /\ \A q \in Recoverers : q # "rpc" => rec'[q] = rec[q]
        /\ UNCHANGED <<wk, tick, init, tunnel>>
    BY <1>2, RpcdDiesTypes DEF RpcdDies
  <2>2. OwnLocks("rpc") /\ RpcLocks'
    BY <2>1, OwnRelease DEF RpcLocks
  <2> QED
    BY <2>1, <2>2, RpcKeepsLocks
<1>3. ASSUME NEW op \in Ops, RpcCall(op)
      PROVE  LockInv'
  <2>1. /\ rpc.pc = "idle" /\ rpc'.pc \in {"queue", "wait"}
        /\ UNCHANGED <<locks, wk, tick, init, tunnel, rec>>
    BY <1>3, RpcCallTypes DEF RpcCall, RpcAt
  <2>2. OwnLocks("rpc") /\ RpcLocks' /\ rec["rpc"].pc = "off"
    BY <2>1 DEF OwnLocks, RpcLocks, locks, LockInv, RecOwned
  <2> QED
    BY <2>1, <2>2, RpcKeepsLocks
<1> QED
  BY <1>1, <1>2, <1>3

LEMMA InitScriptLocks ==
  ASSUME TypeInv, LockInv, InitScript
  PROVE  LockInv'
<1>1. UNCHANGED tick /\ "init" \in Recoverers
  BY InitScriptTypes, NoName
<1>2. CASE InitStop \/ InitBoot \/ InitGate \/ InitStart
  <2>1. /\ UNCHANGED <<rpc, wk>> /\ init'.by = init.by /\ init'.full = init.full
        /\ \A q \in Recoverers : q # "init" => rec'[q] = rec[q]
        /\ init'.pc # "done" => init'.pc \in {"gate", "start"}
    BY <1>2, InitStopTypes, InitBootTypes, InitGateTypes, InitStartTypes
       DEF InitStop, InitBoot, InitGate, InitStart
  <2>2. OwnLocks("init")
    BY <1>2, OwnRelease DEF InitStop, InitBoot, InitGate, InitStart, OwnLocks, locks
  <2>3. RecHolds("init")' /\ (rec'["init"].pc # "off" => init'.pc = "gate")
    <3>1. /\ init.pc # "gate" => rec["init"].pc = "off"
      BY DEF LockInv, RecOwned
    <3>2. \/ rec'["init"].pc = "off"
          \/ rec'["init"].pc = "peek" /\ init'.pc = "gate"
      BY <1>2, <3>1, InitStopTypes, InitBootTypes, InitGateTypes DEF InitStop, InitStart
    <3> QED
      BY <3>2, Places DEF RecHolds
  <2>4. RpcLocks' /\ TickLocks' /\ \A q \in Recoverers : RecHolds(q)'
    BY <1>1, <2>1, <2>2, <2>3, OthersKeepLocks
  <2>5. RecOwned'
    BY <2>1, <2>3, NoName DEF LockInv, RecOwned
  <2>6. ASSUME NEW i \in Jobs
        PROVE  WorkHolds(i)' /\ JobOwned(i)' /\ Quiet(i)'
    <3>1. JobOwned(i) /\ Quiet(i) /\ i # "init" /\ i \in Recoverers /\ wk'[i] = wk[i]
      BY <2>1, NoName DEF LockInv
    <3>2. WorkHolds(i)' /\ JobOwned(i)'
      BY <2>1, <2>2, <3>1, OthersKeepLocks DEF JobOwned
    <3>3. Quiet(i)'
      <4>1. ASSUME wk[i].pc = "quiescing"
            PROVE  init'.pc = "done" /\ Down'
        <5>1. init.pc = "stop" /\ ~init.full
          BY <1>2, <3>1, <4>1 DEF Quiet, InitStop, InitBoot, InitGate, InitStart
        <5>2. InitStop
          BY <1>2, <5>1 DEF InitBoot, InitGate, InitStart
        <5> QED
          BY <5>1, <5>2, InitStopTypes
      <4> QED
        BY <2>1, <3>1, <4>1 DEF Quiet
    <3> QED
      BY <3>2, <3>3
  <2> QED
    BY <2>4, <2>5, <2>6 DEF LockInv
<1>3. CASE InitDone
  <2>1. /\ UNCHANGED <<stateLock, rec, tunnel>> /\ init.pc = "done" /\ rec["init"].pc = "off"
        /\ rpc' = rpc \/ (rpc.pc = "restarting" /\ rpc'.pc = "idle")
    BY <1>3, InitDoneTypes DEF InitDone, LockInv, RecOwned, NoCall
  <2>2. ASSUME NEW i \in Jobs, i # init.by
        PROVE  wk[i].pc # "quiescing" /\ wk'[i] = wk[i]
    BY <1>3, <2>2, InitDoneTypes DEF LockInv, Quiet
  <2>3. engineLock' = engineLock \/ (init.by \in Jobs /\ engineLock' = Free(engineLock, init.by))
    BY <1>3, InitDoneTypes
  <2>4. OwnLocks(init.by) /\ (engineLock' # engineLock => init.by \in Jobs)
    BY <2>1, <2>3 DEF OwnLocks, Free
  <2>5. RpcLocks' /\ TickLocks'
    BY <1>1, <2>1, <2>4, NoName DEF LockInv, RpcLocks, TickLocks, OwnLocks
  <2>6. RecOwned'
    BY <1>3, <2>1 DEF LockInv, RecOwned
  <2>7. ASSUME NEW i \in Jobs
        PROVE  WorkHolds(i)' /\ JobOwned(i)' /\ Quiet(i)'
    <3>1. WorkHolds(i) /\ JobOwned(i) /\ Quiet(i) /\ rec'[i] = rec[i]
      BY <2>1 DEF LockInv
    <3>2. CASE i # init.by
      BY <2>2, <2>4, <3>1, <3>2, OthersKeepLocks DEF JobOwned, Quiet
    <3>3. CASE i = init.by
      <4>1. \/ wk' = wk /\ engineLock' = engineLock /\ wk[i].pc # "quiescing"
            \/ /\ wk[i].pc = "quiescing" /\ wk'[i].pc = "apply" /\ ~wk'[i].syncing
               /\ engineLock' = engineLock
            \/ wk[i].pc = "resuming" /\ wk'[i].pc = "gone"
        <5>1. wk' = wk /\ engineLock' = engineLock =>
                 wk[i].pc # "quiescing" \/ wk'[i].pc = "apply"
          BY <1>3, <3>3 DEF InitDone, Goto, TypeInv, WkOK
        <5> QED
          BY <1>3, <3>3, <5>1, InitDoneTypes
      <4> QED
        BY <2>1, <3>1, <4>1, Places DEF WorkHolds, JobOwned, Quiet
    <3> QED BY <3>2, <3>3
  <2>8. \A q \in Recoverers : RecHolds(q)'
    <3>1. ASSUME NEW q \in Recoverers PROVE RecHolds(q)'
      <4>1. CASE q # init.by
        BY <2>1, <2>4, <4>1, OthersKeepLocks
      <4>2. CASE q = init.by /\ engineLock' = engineLock
        BY <2>1, <4>2 DEF LockInv, RecHolds
      <4>3. CASE q = init.by /\ engineLock' # engineLock
        <5>1. wk[q].pc = "resuming" /\ q \in Jobs
          BY <1>3, <2>4, <4>3, InitDoneTypes
        <5> QED
          BY <2>1, <5>1, NoRecovery, Places DEF RecHolds
      <4> QED BY <4>1, <4>2, <4>3
    <3> QED BY <3>1
  <2> QED
    BY <2>5, <2>6, <2>7, <2>8 DEF LockInv
<1> QED
  BY <1>2, <1>3 DEF InitScript

LEMMA InitLocks ==
  ASSUME Init
  PROVE  LockInv
<1>1. /\ rpc.pc = "idle" /\ tick = "idle" /\ \A p \in Recoverers : rec[p].pc = "off"
      /\ \A j \in Jobs : wk[j].pc = "off"
  BY DEF Init, NoCall, NotRecovering, NoWorker
<1> QED
  BY <1>1, NoName, Places
     DEF LockInv, RpcLocks, TickLocks, RecOwned, WorkHolds, JobOwned, Quiet, RecHolds

(* Steps that leave every process where it is.                               *)
LEMMA AsideLocks ==
  ASSUME LockInv, OwnLocks("tick"), TickLocks', UNCHANGED <<rpc, wk, rec>>,
         (UNCHANGED init /\ (Down => Down')) \/ (init.pc = "idle" /\ init'.pc = "stop")
  PROVE  LockInv'
<1>1. RpcLocks' /\ \A j \in Jobs : WorkHolds(j)'
  BY NoName, OthersKeepLocks
<1>2. \A q \in Recoverers : RecHolds(q)'
  BY BackupAssumption, OthersKeepLocks DEF Recoverers
<1>3. RecOwned' /\ \A j \in Jobs : JobOwned(j)' /\ Quiet(j)'
  BY DEF LockInv, RecOwned, JobOwned, Quiet
<1> QED
  BY <1>1, <1>2, <1>3 DEF LockInv

LEMMA LockStep ==
  ASSUME TypeInv, LaunchOK, LockInv, [Next]_vars
  PROVE  LockInv'
<1>1. CASE Rpc
  BY <1>1, RpcStepsLocks
<1>2. CASE InitScript
  BY <1>2, InitScriptLocks
<1>3. CASE Tick \/ TunnelEnds
  <2>1. OwnLocks("tick") /\ TickLocks'
    BY <1>3 DEF Tick, TickGuard, TickLock, TickWrite, TickDone, TunnelEnds, OwnLocks, TickLocks,
       LockInv, locks
  <2>2. UNCHANGED <<rpc, wk, rec, init>> /\ (Down => Down')
    BY <1>3, TunnelEndsTypes DEF Tick, TickGuard, TickLock, TickWrite, TickDone, Down
  <2> QED
    BY <2>1, <2>2, AsideLocks
<1>4. ASSUME NEW j \in Jobs, Worker(j) PROVE LockInv'
  BY <1>4, WorkerStartsLocks, WorkerWritesLocks, WorkerEndsLocks DEF Worker
<1>5. ASSUME NEW p \in Recoverers, Recovery(p) PROVE LockInv'
  BY <1>5, RecoveryLocks
<1>6. CASE RpcdDies \/ \E op \in Ops : RpcCall(op)
  BY <1>6, RpcOtherLocks
<1>7. CASE Reload \/ Edit
  <2>1. /\ UNCHANGED <<rpc, wk, rec, tick, locks>>
        /\ (UNCHANGED init /\ (Down => Down')) \/ (init.pc = "idle" /\ init'.pc = "stop")
    BY <1>7, ReloadTypes DEF Reload, Edit, Down
  <2>2. OwnLocks("tick") /\ TickLocks'
    BY <2>1 DEF OwnLocks, TickLocks, LockInv, locks
  <2> QED
    BY <2>1, <2>2, AsideLocks
<1>8. CASE Fault
  <2>1. ASSUME NEW p \in Recoverers, RecFault(p) PROVE LockInv'
    BY <2>1, RecoveryLocks
  <2>2. ASSUME NEW j \in Jobs, WorkFault(j) PROVE LockInv'
    BY <2>2, WorkerEndsLocks
  <2>3. ASSUME RpcFault PROVE LockInv'
    BY <2>3, RpcOtherLocks
  <2> QED
    BY <1>8, <2>1, <2>2, <2>3 DEF Fault
<1>9. ASSUME NEW j \in Jobs, WorkerDies(j) PROVE LockInv'
  BY <1>9, WorkerEndsLocks
<1>10. CASE PowerLoss
  <2>1. /\ rpc'.pc = "recover" /\ tick' = "idle" /\ init'.pc = "boot"
        /\ \A p \in Recoverers : rec'[p].pc = IF p = "rpc" THEN "peek" ELSE "off"
        /\ \A j \in Jobs : wk'[j].pc \in {"off", "gone"}
    BY <1>10, PowerLossTypes
  <2>2. /\ \A p \in Recoverers : rec'[p].pc \in {"peek", "off"}
        /\ rec'["init"].pc = "off" /\ \A j \in Jobs : rec'[j].pc = "off"
    BY <2>1, NoName
  <2>3. RpcLocks' /\ TickLocks' /\ RecOwned'
    BY <2>1, <2>2 DEF RpcLocks, TickLocks, RecOwned
  <2>4. \A j \in Jobs : WorkHolds(j)' /\ JobOwned(j)' /\ Quiet(j)'
    BY <2>1, <2>2, Places DEF WorkHolds, JobOwned, Quiet
  <2>5. \A p \in Recoverers : RecHolds(p)'
    BY <2>2, Places DEF RecHolds
  <2> QED
    BY <2>3, <2>4, <2>5 DEF LockInv
<1>11. CASE UNCHANGED vars
  BY <1>11 DEF vars, locks, LockInv, RpcLocks, TickLocks, RecOwned, WorkHolds, JobOwned,
     Quiet, Down, RecHolds
<1> QED
  BY <1>1, <1>2, <1>3, <1>4, <1>5, <1>6, <1>7, <1>8, <1>9, <1>10, <1>11
     DEF Next, System, Environment

-----------------------------------------------------------------------------
(* No tunnel over half replaced files                                        *)

Closed == Down /\ init.pc # "start" /\ rec["init"].pc # "ok"
Late   == {"apply", "config", "policy", "mark"}
Early  == {"quiesce", "quiescing"} \cup Late

PendingWork(j) ==
  /\ wk[j].pc \in Early => Pending(mem.journal)
  /\ wk[j].pc \in Late => Closed
Queueing == rpc.pc \in Enqueued => rpc.val.phase = "PREPARED"
Decided(p) ==
  /\ rec[p].pc \in {"config", "policy", "publish"} =>
       rec[p].val.phase \in {"CANCELLED", "COMMITTED"}
  /\ rec[p].pc \in {"publish", "error"} => rec[p].stage \in {"write", "sync"}
  /\ rec[p].pc = "publish" /\ rec[p].stage = "sync" => mem.journal = rec[p].val
ClosedHalfway == Halfway(mem.journal) => Closed

HalfInv ==
  /\ Queueing /\ ClosedHalfway
  /\ \A j \in Jobs : PendingWork(j)
  /\ \A p \in Recoverers : Decided(p)

LEMMA HalfwayIsPending ==
  \A v : Halfway(v) => Pending(v)
  BY DEF Halfway, Pending, Terminal

LEMMA EarlyWorks ==
  /\ Late \subseteq Early /\ Early \subseteq Working
  /\ Early = {"quiesce", "quiescing", "apply", "config", "policy", "mark"}
  BY DEF Early, Late, Working, Section

(* A step that leaves the journal alone starts no tunnel over a pending one. *)
LEMMA HalfKeeps ==
  ASSUME HalfInv, mem'.journal = mem.journal, Pending(mem.journal) /\ Closed => Closed',
         \A j \in Jobs :
           /\ wk'[j].pc \in Early => wk[j].pc \in Early \/ Pending(mem.journal)
           /\ wk'[j].pc \in Late => wk[j].pc \in Late \/ (Pending(mem.journal) /\ Closed'),
         \A p \in Recoverers : rec'[p] = rec[p] \/ Decided(p)',
         Queueing'
  PROVE  HalfInv'
<1>1. ClosedHalfway'
  <2>1. Halfway(mem'.journal) => Pending(mem.journal) /\ Halfway(mem.journal)
    BY HalfwayIsPending
  <2> QED BY <2>1 DEF HalfInv, ClosedHalfway
<1>2. ASSUME NEW j \in Jobs PROVE PendingWork(j)'
  <2>1. PendingWork(j)
    BY DEF HalfInv
  <2>2. wk'[j].pc \in Early => Pending(mem'.journal)
    BY <2>1 DEF PendingWork
  <2>3. wk[j].pc \in Late => Pending(mem.journal) /\ Closed
    BY <2>1, EarlyWorks DEF PendingWork
  <2>4. wk'[j].pc \in Late => Closed'
    BY <2>3
  <2> QED BY <2>2, <2>4 DEF PendingWork
<1>3. ASSUME NEW p \in Recoverers PROVE Decided(p)'
  BY DEF HalfInv, Decided
<1> QED
  BY <1>1, <1>2, <1>3 DEF HalfInv

LEMMA InitHalf ==
  ASSUME Init
  PROVE  HalfInv
<1>1. /\ rpc.pc = "idle" /\ \A p \in Recoverers : rec[p].pc = "off"
      /\ \A j \in Jobs : wk[j].pc = "off"
      /\ mem.journal = NoJournal
  BY DEF Init, NoCall, NotRecovering, NoWorker
<1> QED
  BY <1>1, EarlyWorks
     DEF HalfInv, Queueing, Enqueued, ClosedHalfway, Halfway, PendingWork, Decided, Late

(* Whoever is about to write from what it decided is alone.                  *)
LEMMA WorkerAlone ==
  ASSUME LockInv, NEW j \in Jobs, engineLock = j
  PROVE  /\ \A i \in Jobs : i # j => wk[i].pc \notin Working
         /\ \A p \in Recoverers : p # j => rec[p].pc \notin Deciding
  BY DEF LockInv, WorkHolds, RecHolds

LEMMA WorkerHalf ==
  ASSUME TypeInv, LockInv, HalfInv, NEW j \in Jobs, Worker(j) \/ WorkFault(j) \/ WorkerDies(j)
  PROVE  HalfInv'
<1>1. /\ UNCHANGED <<rpc, tunnel>> /\ "init" \in Recoverers /\ "init" # j /\ j \in Recoverers
      /\ \A i \in Jobs : i # j => wk'[i] = wk[i]
  <2>1. UNCHANGED <<rpc, tunnel>>
    BY DEF Worker, WorkContext, WorkEngine, WorkFirst, WorkQuiesce, WorkWrite, WorkSync,
       WorkCatch, WorkRecovered, WorkResume, WorkAbort, WorkAborted, WorkFault, WorkerDies
  <2> QED
    BY <2>1, WorkerTypes, WorkFaults, WorkerDiesTypes, NoName
<1>2. Queueing'
  BY <1>1 DEF HalfInv, Queueing
<1>3. rec'["init"] = rec["init"] /\ (init' = init \/ init'.pc = "stop")
  <2>1. rec' = rec \/ \E pc : Recover(j, pc)
    BY DEF Worker, WorkContext, WorkEngine, WorkFirst, WorkQuiesce, WorkWrite, WorkSync,
       WorkCatch, WorkRecovered, WorkResume, WorkAbort, WorkAborted, WorkFault, WorkerDies
  <2>2. rec'["init"] = rec["init"]
    BY <1>1, <2>1 DEF Recover, TypeInv, RecOK
  <2>3. init' = init \/ init'.pc = "stop"
    BY DEF Worker, WorkContext, WorkEngine, WorkFirst, WorkQuiesce, WorkWrite, WorkSync,
       WorkCatch, WorkRecovered, WorkResume, WorkAbort, WorkAborted, WorkFault, WorkerDies, Ask
  <2> QED BY <2>2, <2>3
<1>4. Closed => Closed'
  BY <1>1, <1>3 DEF Closed, Down
<1>5. CASE ~WorkWrite(j)
  <2>1. mem'.journal = mem.journal
    <3>1. UNCHANGED mem \/ WorkSync(j)
      BY <1>5 DEF Worker, WorkContext, WorkEngine, WorkFirst, WorkQuiesce,
         WorkCatch, WorkRecovered, WorkResume, WorkAbort, WorkAborted, WorkFault, WorkerDies
    <3> QED BY <3>1, WorkSyncTypes
  <2>2. /\ wk'[j].pc \in Early => wk[j].pc \in Early \/ Pending(mem.journal)
        /\ wk'[j].pc \in Late => wk[j].pc \in Late
    <3>1. CASE WorkFirst(j)
      BY <3>1, WorkFirstTypes, EarlyWorks DEF Late
    <3>2. CASE WorkQuiesce(j)
      BY <3>2, WorkQuiesceTypes, EarlyWorks DEF Late, WorkQuiesce, At
    <3>3. CASE WorkSync(j)
      BY <3>3, WorkSyncTypes, EarlyWorks DEF Late
    <3>4. CASE ~(WorkFirst(j) \/ WorkQuiesce(j) \/ WorkSync(j))
      <4>1. wk'[j].pc \notin Early
        BY <1>5, <3>4, EarlyWorks, WorkContextTypes, WorkEngineTypes, WorkCatchTypes,
           WorkRecoveredTypes, WorkResumeTypes, WorkAbortTypes, WorkAbortedTypes,
           WorkFaults, WorkerDiesTypes DEF Worker
      <4> QED BY <4>1, EarlyWorks
    <3> QED BY <3>1, <3>2, <3>3, <3>4
  <2>3. ASSUME NEW p \in Recoverers PROVE rec'[p] = rec[p] \/ Decided(p)'
    <3>1. rec' = rec \/ \E pc \in {"off", "read", "peek"} : Recover(j, pc)
      BY <1>5 DEF Worker, WorkContext, WorkEngine, WorkFirst, WorkQuiesce, WorkSync,
         WorkCatch, WorkRecovered, WorkResume, WorkAbort, WorkAborted, WorkFault, WorkerDies
    <3>2. rec' = rec \/ (rec'[j].pc \in {"off", "read", "peek"}
                         /\ \A q \in Recoverers : q # j => rec'[q] = rec[q])
      BY <1>1, <3>1, Recoveries DEF TypeInv
    <3> QED BY <3>2 DEF Decided
  <2> QED
    BY <1>1, <1>2, <1>4, <2>1, <2>2, <2>3, HalfKeeps
<1>6. CASE WorkWrite(j)
  <2>1. wk[j].pc \in Section
    BY <1>6, WorkWrites
  <2>2. rec' = rec /\ rec[j].pc = "off" /\ engineLock = j
    BY <1>6, <2>1, Places, NoRecovery DEF WorkWrite, LockInv, WorkHolds
  <2>3. \/ wk'[j].pc = "catch" /\ mem'.journal = mem.journal
        \/ wk'[j].pc = wk[j].pc /\ mem'.journal = mem.journal
        \/ /\ wk'[j].pc = wk[j].pc
           /\ wk[j].pc = "commit" /\ mem'.journal.phase = "COMMITTED"
        \/ /\ wk'[j].pc = wk[j].pc
           /\ wk[j].pc \in {"apply", "mark"} /\ Halfway(mem'.journal)
    BY <1>6, WorkWrites DEF Section
  <2>4. CASE mem'.journal = mem.journal
    <3>1. wk'[j].pc = "catch" \/ wk'[j].pc = wk[j].pc
      BY <2>3
    <3> QED
      BY <1>1, <1>2, <1>4, <2>2, <2>4, <3>1, HalfKeeps, EarlyWorks
  <2>5. CASE mem'.journal # mem.journal
    <3>1. \A p \in Recoverers : Decided(p)'
      <4>1. ASSUME NEW p \in Recoverers PROVE Decided(p)'
        <5>1. rec'[p] = rec[p] /\ rec[p].pc \notin Deciding
          BY <2>2, WorkerAlone, Places
        <5> QED BY <5>1, Places DEF Decided
      <4> QED BY <4>1
    <3>2. \A i \in Jobs : i # j => PendingWork(i)'
      BY <1>1, <2>2, WorkerAlone, EarlyWorks DEF PendingWork
    <3>3. PendingWork(j)' /\ ClosedHalfway'
      <4>1. CASE wk[j].pc = "commit"
        BY <2>3, <2>5, <4>1, EarlyWorks
           DEF PendingWork, ClosedHalfway, Halfway, Late
      <4>2. CASE wk[j].pc \in {"apply", "mark"} /\ Halfway(mem'.journal)
        <5>1. Closed
          BY <4>2 DEF HalfInv, PendingWork, Late
        <5> QED
          BY <1>4, <4>2, <5>1, HalfwayIsPending DEF PendingWork, ClosedHalfway
      <4> QED BY <2>3, <2>5, <4>1, <4>2
    <3> QED
      BY <1>2, <3>1, <3>2, <3>3 DEF HalfInv
  <2> QED BY <2>4, <2>5
<1> QED
  BY <1>5, <1>6

LEMMA RecovererAlone ==
  ASSUME LockInv, NEW p \in Recoverers, rec[p].pc \in Deciding
  PROVE  /\ \A i \in Jobs : wk[i].pc \notin Early
         /\ \A q \in Recoverers : q # p => rec[q].pc \notin Deciding
         /\ rpc.pc \notin {"prepare", "queued", "intent", "keys", "write"}
<1>1. engineLock = p /\ stateLock = p
  BY DEF LockInv, RecHolds
<1>2. ASSUME NEW i \in Jobs PROVE wk[i].pc \notin Early
  <2>1. CASE i = p
    BY <2>1, EarlyWorks, Places DEF LockInv, JobOwned
  <2>2. CASE i # p
    BY <1>1, <2>2, EarlyWorks DEF LockInv, WorkHolds
  <2> QED BY <2>1, <2>2
<1>3. \A q \in Recoverers : q # p => rec[q].pc \notin Deciding
  BY <1>1 DEF LockInv, RecHolds
<1>4. rpc.pc \notin {"prepare", "queued", "intent", "keys", "write"}
  BY <1>1, Places DEF LockInv, RpcLocks, RecOwned
<1> QED
  BY <1>2, <1>3, <1>4

LEMMA RecoveryDecides ==
  ASSUME TypeInv, HalfInv, NEW p \in Recoverers, Recovery(p) \/ RecFault(p)
  PROVE  /\ Decided(p)'
         /\ \A q \in Recoverers : q # p => rec'[q] = rec[q]
         /\ rec'[p].pc = "ok" => ~Pending(mem.journal) \/ rec[p].pc = "ok"
         /\ RecWrite(p) \/ mem'.journal = mem.journal
<1>1. Decided(p)
  BY DEF HalfInv
<1>2. CASE RecPeek(p) \/ RecEngine(p) \/ RecState(p)
  <2>1. \E pc \in {"ok", "engine", "state", "read", "fail"} : RecGoto(p, pc, "check")
    BY <1>2 DEF RecPeek, RecEngine, RecState
  <2>2. /\ rec'[p].pc \in {"ok", "engine", "state", "read", "fail"}
        /\ \A q \in Recoverers : q # p => rec'[q] = rec[q]
    BY <2>1, RecGoes, RecTables DEF TypeInv, RecPcs
  <2>3. rec'[p].pc = "ok" => ~Pending(mem.journal)
    <3>1. ASSUME Pending(mem.journal) PROVE rec'[p].pc # "ok"
      <4>1. \E pc \in {"engine", "state", "read", "fail"} : RecGoto(p, pc, "check")
        BY <1>2, <3>1 DEF RecPeek, RecEngine, RecState
      <4> QED BY <4>1, RecGoes, RecTables DEF TypeInv, RecPcs
    <3> QED BY <3>1
  <2>4. mem' = mem
    BY <1>2 DEF RecPeek, RecEngine, RecState
  <2> QED
    BY <2>2, <2>3, <2>4 DEF Decided
<1>3. CASE RecRead(p)
  <2>1. mem' = mem
    BY <1>3 DEF RecRead
  <2> QED
    BY <1>3, <2>1, RecReads DEF Decided
<1>4. CASE RecCheck(p)
  <2>1. mem' = mem /\ rec[p].stage = "check" /\ rec[p].pc \in {"config", "policy"}
    BY <1>1, <1>4, RecTables DEF RecCheck, RecAt, Decided
  <2> QED
    BY <1>1, <1>4, <2>1, RecChecks DEF Decided
<1>5. CASE RecWrite(p)
  BY <1>1, <1>5, RecWriteTypes, RecWritesFile DEF Decided, RecWrite, RecAt
<1>6. CASE RecSync(p)
  <2>1. /\ rec[p].stage = "sync" /\ mem' = mem
    BY <1>6, RecSyncs DEF RecSync, RecAt
  <2>2. rec'[p].pc = "ok" => ~Pending(mem.journal)
    <3>1. rec'[p].pc = "ok" => rec[p].pc = "publish"
      BY <1>6, RecSyncs
    <3> QED BY <1>1, <2>1, <3>1 DEF Decided, Pending, Terminal
  <2> QED
    BY <1>1, <1>6, <2>1, <2>2, RecSyncs DEF Decided, Products
<1>7. CASE RecFault(p)
  <2>1. mem' = mem
    BY <1>7 DEF RecFault
  <2> QED
    BY <1>7, <2>1, RecFaults DEF Decided
<1> QED
  BY <1>2, <1>3, <1>4, <1>5, <1>6, <1>7 DEF Recovery

LEMMA RecoveryHalf ==
  ASSUME TypeInv, LockInv, HalfInv, NEW p \in Recoverers, Recovery(p) \/ RecFault(p)
  PROVE  HalfInv'
<1>1. UNCHANGED <<rpc, wk, init, tunnel>>
  BY RecoveryTypes DEF RecFault
<1>2. Queueing'
  BY <1>1 DEF HalfInv, Queueing
<1>3. Pending(mem.journal) /\ Closed => Closed'
  BY <1>1, NoName, RecoveryDecides DEF Closed, Down
<1>4. \A q \in Recoverers : rec'[q] = rec[q] \/ Decided(q)'
  BY RecoveryDecides
<1>5. CASE mem'.journal = mem.journal
  BY <1>1, <1>2, <1>3, <1>4, <1>5, HalfKeeps
<1>6. CASE mem'.journal # mem.journal
  <2>1. RecWrite(p)
    BY <1>6, RecoveryDecides
  <2>2. rec[p].pc \in Deciding
    BY <2>1, Places DEF RecWrite, RecAt
  <2>3. \A i \in Jobs : PendingWork(i)'
    BY <1>1, <2>2, RecovererAlone, EarlyWorks DEF PendingWork
  <2>4. ASSUME NEW q \in Recoverers PROVE Decided(q)'
    <3>1. CASE q = p
      BY <3>1, RecoveryDecides
    <3>2. CASE q # p
      <4>1. rec'[q] = rec[q] /\ rec[q].pc \notin Deciding
        BY <2>2, <3>2, RecovererAlone, RecoveryDecides
      <4> QED BY <4>1, Places DEF Decided
    <3> QED BY <3>1, <3>2
  <2>5. ~Halfway(mem'.journal)
    <3>1. Decided(p)
      BY DEF HalfInv
    <3> QED
      BY <1>6, <2>1, <3>1, RecWritesFile DEF Halfway, Decided, Products
  <2> QED
    BY <1>2, <2>3, <2>4, <2>5 DEF HalfInv, ClosedHalfway
<1> QED
  BY <1>5, <1>6

LEMMA InitScriptHalf ==
  ASSUME TypeInv, LockInv, HalfInv, InitScript
  PROVE  HalfInv'
<1>1. UNCHANGED mem /\ (rpc' = rpc \/ rpc'.pc = "idle")
  BY InitScriptTypes
<1>2. Queueing'
  BY <1>1, RpcPlaces DEF HalfInv, Queueing
<1>3. CASE InitStop \/ InitBoot \/ InitGate \/ InitStart
  <2>1. UNCHANGED wk
    BY <1>3 DEF InitStop, InitBoot, InitGate, InitStart
  <2>2. Closed => Closed'
    <3>1. CASE InitStop
      BY <3>1, InitStopTypes DEF Closed
    <3>2. CASE InitBoot
      BY <3>2, InitBootTypes DEF Closed, Down, InitBoot
    <3>3. CASE InitGate
      BY <3>3, InitGateTypes DEF Closed, Down, InitGate
    <3>4. CASE InitStart
      BY <3>4 DEF Closed, InitStart
    <3> QED BY <1>3, <3>1, <3>2, <3>3, <3>4
  <2>3. ASSUME NEW q \in Recoverers PROVE rec'[q] = rec[q] \/ Decided(q)'
    <3>1. rec'[q] = rec[q] \/ rec'[q].pc \in {"off", "peek"}
      BY <1>3, InitStopTypes, InitBootTypes, InitGateTypes DEF InitStart
    <3> QED BY <3>1 DEF Decided
  <2> QED
    BY <1>1, <1>2, <2>1, <2>2, <2>3, HalfKeeps
<1>4. CASE InitDone
  <2>1. UNCHANGED <<rec, tunnel>> /\ init.pc = "done" /\ init'.pc = "idle"
    BY <1>4, InitDoneTypes DEF InitDone
  <2>2. Closed => Closed'
    BY <2>1 DEF Closed, Down
  <2>3. ASSUME NEW j \in Jobs
        PROVE  /\ wk'[j].pc \in Early => wk[j].pc \in Early \/ Pending(mem.journal)
               /\ wk'[j].pc \in Late => wk[j].pc \in Late \/ (Pending(mem.journal) /\ Closed')
    <3>1. wk'[j] = wk[j] \/ wk'[j].pc = "gone" \/ (wk[j].pc = "quiescing" /\ wk'[j].pc = "apply")
      BY <1>4, InitDoneTypes
    <3>2. ASSUME wk[j].pc = "quiescing"
          PROVE  Pending(mem.journal) /\ Closed'
      <4>1. Down
        BY <2>1, <3>2 DEF LockInv, Quiet
      <4>2. rec["init"].pc = "off"
        BY <2>1 DEF LockInv, RecOwned
      <4>3. Pending(mem.journal)
        BY <3>2, EarlyWorks DEF HalfInv, PendingWork
      <4> QED BY <2>1, <4>1, <4>2, <4>3 DEF Closed, Down
    <3> QED BY <3>1, <3>2, EarlyWorks DEF Late
  <2> QED
    BY <1>1, <1>2, <2>1, <2>2, <2>3, HalfKeeps
<1> QED
  BY <1>3, <1>4 DEF InitScript

LEMMA RpcHalf ==
  ASSUME TypeInv, LaunchOK, LockInv, HalfInv, Rpc \/ RpcFault \/ RpcdDies \/ (\E op \in Ops : RpcCall(op))
  PROVE  HalfInv'
<1>1. UNCHANGED tunnel /\ (UNCHANGED init \/ init'.pc = "stop")
  <2>1. CASE RpcRestart
    BY <2>1, RpcRestartTypes DEF RpcRestart
  <2>2. CASE ~RpcRestart
    BY <2>2 DEF Rpc, RpcLock, RpcIntent, RpcKeys, RpcWrite, RpcQueue, RpcRefuse, RpcPrepare,
       RpcQueued, RpcLaunch, RpcRecovered, RpcFault, RpcdDies, RpcCall
  <2> QED BY <2>1, <2>2
<1>2. /\ \A q \in Recoverers : rec'[q] = rec[q] \/ rec'[q].pc \in {"off", "peek"}
      /\ rec'["init"] = rec["init"]
  <2>1. CASE RpcRecovered
    BY <2>1, RpcRecoveredTypes, NoName
  <2>2. CASE RpcFault
    BY <2>2, RpcFaults, NoName
  <2>3. CASE RpcdDies
    BY <2>3, RpcdDiesTypes, NoName
  <2>4. CASE ~(RpcRecovered \/ RpcFault \/ RpcdDies)
    BY <2>4 DEF Rpc, RpcLock, RpcIntent, RpcKeys, RpcWrite, RpcRestart, RpcQueue, RpcRefuse,
       RpcPrepare, RpcQueued, RpcLaunch, RpcCall
  <2> QED BY <2>1, <2>2, <2>3, <2>4
<1>3. Closed => Closed'
  BY <1>1, <1>2 DEF Closed, Down
<1>4. \A q \in Recoverers : rec'[q] = rec[q] \/ Decided(q)'
  BY <1>2 DEF Decided
<1>5. \A j \in Jobs : wk'[j] = wk[j] \/ wk'[j].pc = "context"
  <2>1. CASE RpcLaunch
    BY <2>1, RpcLaunchTypes
  <2>2. CASE ~RpcLaunch
    BY <2>2 DEF Rpc, RpcLock, RpcIntent, RpcKeys, RpcWrite, RpcRestart, RpcQueue, RpcRefuse,
       RpcPrepare, RpcQueued, RpcFault, RpcdDies, RpcRecovered, RpcCall
  <2> QED BY <2>1, <2>2
<1>6. Queueing'
  <2>1. rpc'.pc \in Enqueued =>
          \/ RpcQueue
          \/ rpc.pc \in Enqueued /\ rpc'.val = rpc.val
    <3>1. CASE RpcPrepare \/ RpcQueued
      BY <3>1, RpcPlaces, RpcPrepareTypes, RpcQueuedTypes
         DEF RpcPrepare, RpcQueued, RpcAt, Enqueued
    <3>2. CASE RpcLock \/ RpcIntent \/ RpcKeys \/ RpcWrite
      BY <3>2, RpcPlaces, RpcLockTypes, RpcIntentTypes, RpcWriteTypes DEF RpcKeys, NoCall
    <3>3. CASE RpcRestart \/ RpcRefuse \/ RpcLaunch \/ RpcRecovered
      BY <3>3, RpcPlaces, RpcRestartTypes, RpcRefuseTypes, RpcLaunchTypes, RpcRecoveredTypes
    <3>4. CASE RpcFault \/ RpcdDies \/ \E op \in Ops : RpcCall(op)
      BY <3>4, RpcPlaces, RpcFaults, RpcdDiesTypes, RpcCallTypes
    <3> QED
      BY <3>1, <3>2, <3>3, <3>4 DEF Rpc
  <2> QED
    BY <2>1, RpcQueueTypes DEF HalfInv, Queueing
<1>7. CASE RpcQueue \/ RpcPrepare
  <2>1. engineLock \in {"free", "rpc"}
    BY <1>7 DEF RpcQueue, RpcPrepare, RpcAt, LockInv, RpcLocks
  <2>2. UNCHANGED <<wk, rec>>
    BY <1>7 DEF RpcQueue, RpcPrepare
  <2>3. \A j \in Jobs : PendingWork(j)'
    BY <2>1, <2>2, NoName, EarlyWorks DEF LockInv, WorkHolds, PendingWork
  <2>4. ASSUME NEW q \in Recoverers PROVE Decided(q)'
    <3>1. rec[q].pc \notin Deciding
      <4>1. CASE q = "rpc"
        BY <1>7, <4>1, Places DEF LockInv, RecOwned, RpcQueue, RpcPrepare, RpcAt
      <4>2. CASE q # "rpc"
        BY <2>1, <4>2, BackupAssumption DEF LockInv, RecHolds, Recoverers
      <4> QED BY <4>1, <4>2
    <3> QED BY <2>2, <3>1, Places DEF Decided
  <2>5. ClosedHalfway'
    <3>1. Halfway(mem'.journal) => Halfway(mem.journal)
      <4>1. CASE RpcQueue
        BY <4>1, RpcQueueTypes DEF Halfway
      <4>2. CASE RpcPrepare
        <5>1. rpc.val.phase = "PREPARED"
          BY <4>2 DEF RpcPrepare, RpcAt, HalfInv, Queueing, Enqueued
        <5> QED BY <4>2, <5>1, RpcPrepareTypes DEF Halfway
      <4> QED BY <1>7, <4>1, <4>2
    <3> QED BY <1>3, <3>1 DEF HalfInv, ClosedHalfway
  <2> QED
    BY <1>6, <2>3, <2>4, <2>5 DEF HalfInv
<1>8. CASE ~(RpcQueue \/ RpcPrepare)
  <2>1. mem'.journal = mem.journal
    <3>1. CASE RpcIntent
      BY <3>1, RpcIntentTypes
    <3>2. CASE RpcKeys
      BY <3>2, RpcKeysTypes
    <3>3. CASE RpcWrite
      BY <3>3, RpcWriteTypes
    <3>4. CASE RpcQueued
      BY <3>4, RpcQueuedTypes
    <3>5. CASE ~(RpcIntent \/ RpcKeys \/ RpcWrite \/ RpcQueued)
      BY <1>8, <3>5 DEF Rpc, RpcLock, RpcRestart, RpcRefuse, RpcLaunch, RpcFault, RpcdDies,
         RpcRecovered, RpcCall
    <3> QED BY <3>1, <3>2, <3>3, <3>4, <3>5
  <2>2. ASSUME NEW j \in Jobs
        PROVE  /\ wk'[j].pc \in Early => wk[j].pc \in Early
               /\ wk'[j].pc \in Late => wk[j].pc \in Late
    BY <1>5, EarlyWorks DEF Late
  <2> QED
    BY <1>3, <1>4, <1>6, <2>1, <2>2, HalfKeeps
<1> QED
  BY <1>7, <1>8

LEMMA HalfStep ==
  ASSUME TypeInv, LaunchOK, LockInv, HalfInv, [Next]_vars
  PROVE  HalfInv'
<1>1. CASE Rpc \/ RpcdDies \/ \E op \in Ops : RpcCall(op)
  BY <1>1, RpcHalf
<1>2. CASE InitScript
  BY <1>2, InitScriptHalf
<1>3. CASE TunnelEnds \/ Tick \/ Reload \/ Edit \/ UNCHANGED vars
  <2>1. /\ UNCHANGED <<rpc, wk, rec>> /\ (Down => Down')
        /\ init' = init \/ init'.pc = "stop"
    BY <1>3, ReloadTypes, TunnelEndsTypes
       DEF Tick, TickGuard, TickLock, TickWrite, TickDone, Reload, Edit, vars, Down
  <2>2. mem'.journal = mem.journal
    BY <1>3, TickTypes, EditTypes, TunnelEndsTypes DEF Reload, vars
  <2>3. Queueing' /\ (Closed => Closed')
    BY <2>1 DEF HalfInv, Queueing, Closed
  <2> QED
    BY <2>1, <2>2, <2>3, HalfKeeps
<1>4. ASSUME NEW j \in Jobs, Worker(j) \/ WorkerDies(j) PROVE HalfInv'
  BY <1>4, WorkerHalf
<1>5. ASSUME NEW p \in Recoverers, Recovery(p) PROVE HalfInv'
  BY <1>5, RecoveryHalf
<1>6. CASE Fault
  <2>1. ASSUME NEW p \in Recoverers, RecFault(p) PROVE HalfInv'
    BY <2>1, RecoveryHalf
  <2>2. ASSUME NEW j \in Jobs, WorkFault(j) PROVE HalfInv'
    BY <2>2, WorkerHalf
  <2>3. ASSUME RpcFault PROVE HalfInv'
    BY <2>3, RpcHalf
  <2> QED
    BY <1>6, <2>1, <2>2, <2>3 DEF Fault
<1>7. CASE PowerLoss
  <2>1. /\ rpc'.pc = "recover" /\ init'.pc = "boot" /\ tunnel' = "none"
        /\ \A p \in Recoverers : rec'[p].pc = IF p = "rpc" THEN "peek" ELSE "off"
        /\ \A j \in Jobs : wk'[j].pc \in {"off", "gone"}
    BY <1>7, PowerLossTypes
  <2>2. Closed'
    BY <2>1, NoName DEF Closed, Down
  <2>3. \A p \in Recoverers : Decided(p)'
    BY <2>1 DEF Decided
  <2>4. \A j \in Jobs : PendingWork(j)'
    BY <2>1, EarlyWorks DEF PendingWork
  <2> QED
    BY <2>1, <2>2, <2>3, <2>4, RpcPlaces DEF HalfInv, Queueing, ClosedHalfway
<1> QED
  BY <1>1, <1>2, <1>3, <1>4, <1>5, <1>6, <1>7 DEF Next, System, Environment

(* NoTunnelHalfway: from the worker's APPLYING until the job is decided the  *)
(* only tunnel there is is one that procd has been told to end (quiesce does *)
(* not wait for it), and none starts: the gate of start_service holds,       *)
(* although it reads the journal under no lock and starts the runtime later. *)
THEOREM HalfRestoredIsDown == Spec => []NoTunnelHalfway
<1>1. Init => TypeInv /\ LaunchOK /\ LockInv /\ HalfInv
  BY InitTypes, InitLocks, InitHalf
<1>2. TypeInv /\ LaunchOK /\ LockInv /\ HalfInv /\ [Next]_vars
        => (TypeInv /\ LaunchOK /\ LockInv /\ HalfInv)'
  BY LaunchStep, LockStep, HalfStep
<1>3. HalfInv => NoTunnelHalfway
  BY DEF HalfInv, ClosedHalfway, NoTunnelHalfway, Halfway, Closed
<1> QED
  BY <1>1, <1>2, <1>3, PTL DEF Spec

-----------------------------------------------------------------------------
(* A Stop is never undone                                                    *)

\* A Stop has been counted in stop_intent and not been followed by a request.
Stopping == stopped \/ (rpc.pc = "write" /\ rpc.op = "stop")

\* A job queued before a Stop has an older intent than the router.
Ahead(intent, stop, n) == intent >= n /\ (stop => intent > n)
Bound(v) == Ahead(mem.intent, Stopping, v.intent)
Bounded(j) ==
  /\ wk[j].pc \notin {"off", "gone"} /\ mem.journal # NoJournal /\ mem.journal.id = j
       => Bound(mem.journal)
  /\ wk[j].pc \in HasVal => Bound(wk[j].val) /\ wk[j].val.id = j
  /\ wk[j].pc = "state" \/ (wk[j].pc = "mark" /\ wk[j].syncing)
       => wk[j].val.intent = mem.intent
Launching ==
  /\ rpc.pc \in Enqueued => rpc.val.intent <= mem.intent
  /\ rpc.pc \in {"queued", "launch"} /\ mem.journal # NoJournal
       => mem.journal.intent <= mem.intent
  /\ rpc.pc = "launch" => ~stopped
SameJob(p) ==
  rec[p].pc \in RecWrites =>
    /\ mem.journal # NoJournal
    /\ mem.journal.id = rec[p].val.id /\ mem.journal.intent = rec[p].val.intent

StopInv ==
  /\ Launching /\ StopWins
  /\ \A j \in Jobs : Bounded(j)
  /\ \A p \in Recoverers : SameJob(p)

SameTask ==
  \/ mem'.journal = mem.journal
  \/ /\ mem.journal # NoJournal /\ mem'.journal # NoJournal
     /\ mem'.journal.id = mem.journal.id /\ mem'.journal.intent = mem.journal.intent

LEMMA StopKeeps ==
  ASSUME StopInv, mem'.intent = mem.intent, Stopping' => Stopping, SameTask,
         StopWins', Launching',
         \A j \in Jobs : wk'[j] = wk[j] \/ Bounded(j)',
         \A p \in Recoverers : rec'[p] = rec[p] \/ SameJob(p)'
  PROVE  StopInv'
<1>1. ASSUME NEW j \in Jobs PROVE Bounded(j)'
  <2>1. CASE wk'[j] = wk[j]
    <3>1. Bounded(j)
      BY DEF StopInv
    <3> QED
      BY <2>1, <3>1 DEF Bounded, Bound, Ahead, SameTask
  <2> QED BY <2>1
<1>2. ASSUME NEW p \in Recoverers PROVE SameJob(p)'
  <2>1. CASE rec'[p] = rec[p]
    BY <2>1 DEF StopInv, SameJob, SameTask
  <2> QED BY <2>1
<1> QED
  BY <1>1, <1>2 DEF StopInv

LEMMA InitStopped ==
  ASSUME Init
  PROVE  StopInv
<1>1. /\ rpc.pc = "idle" /\ \A p \in Recoverers : rec[p].pc = "off"
      /\ \A j \in Jobs : wk[j].pc = "off"
      /\ ~stopped
  BY DEF Init, NoCall, NotRecovering, NoWorker
<1> QED
  BY <1>1, WorkPlaces, RecTables, RpcPlaces
     DEF StopInv, Launching, StopWins, Bounded, SameJob

LEMMA RecoveryStopped ==
  ASSUME TypeInv, LockInv, HalfInv, StopInv, NEW p \in Recoverers, Recovery(p) \/ RecFault(p)
  PROVE  StopInv'
<1>1. UNCHANGED <<rpc, wk, stopped>>
  BY RecoveryTypes DEF RecFault
<1>2. SameJob(p)
  BY DEF StopInv
<1>3. /\ \A q \in Recoverers : q # p => rec'[q] = rec[q]
      /\ RecWrite(p) \/ mem'.journal = mem.journal
  BY RecoveryDecides
<1>4. mem'.intent = mem.intent /\ mem'.state = mem.state
  <2>1. CASE RecWrite(p)
    BY <2>1, RecWritesFile DEF Files
  <2>2. CASE ~RecWrite(p)
    BY <2>2, RecSyncs DEF Recovery, RecPeek, RecEngine, RecState, RecRead, RecCheck, RecFault
  <2> QED BY <2>1, <2>2
<1>5. SameTask /\ SameJob(p)'
  <2>1. CASE RecWrite(p)
    <3>1. /\ rec'[p].pc = rec[p].pc /\ rec'[p].val = rec[p].val
          /\ rec[p].pc \in RecWrites /\ rec[p].val \in Journals
      BY <2>1, RecWriteTypes DEF RecWrite, RecAt, TypeInv, RecOK
    <3>2. \/ mem'.journal = mem.journal
          \/ /\ mem'.journal \in Journals /\ mem'.journal.id = rec[p].val.id
             /\ mem'.journal.intent = rec[p].val.intent
      BY <2>1, <3>1, RecWritesFile DEF Products
    <3> QED
      BY <1>2, <3>1, <3>2, AbsentAssumption DEF SameTask, SameJob
  <2>2. CASE ~RecWrite(p)
    <3>1. mem'.journal = mem.journal
      BY <1>3, <2>2
    <3>2. SameJob(p)'
      <4>1. CASE RecPeek(p) \/ RecEngine(p) \/ RecState(p)
        <5>1. \E pc \in {"ok", "engine", "state", "read", "fail"} : RecGoto(p, pc, "check")
          BY <4>1 DEF RecPeek, RecEngine, RecState
        <5>2. rec'[p].pc \in {"ok", "engine", "state", "read", "fail"}
          BY <5>1, RecGoes, RecTables DEF TypeInv, RecPcs
        <5> QED BY <5>2, RecTables DEF SameJob
      <4>2. CASE RecRead(p)
        BY <3>1, <4>2, RecReads, RecTables DEF SameJob, Pending
      <4>3. CASE RecCheck(p)
        BY <1>2, <3>1, <4>3, RecChecks, RecTables DEF SameJob, RecCheck, RecAt
      <4>4. CASE RecSync(p)
        BY <1>2, <3>1, <4>4, RecSyncs, RecTables DEF SameJob, RecSync, RecAt
      <4>5. CASE RecFault(p)
        BY <1>2, <3>1, <4>5, RecFaults, RecTables DEF SameJob, RecFault
      <4> QED BY <2>2, <4>1, <4>2, <4>3, <4>4, <4>5 DEF Recovery
    <3> QED BY <3>1, <3>2 DEF SameTask
  <2> QED BY <2>1, <2>2
<1>6. (Stopping' => Stopping) /\ StopWins'
  BY <1>1, <1>4 DEF Stopping, StopWins, StopInv
<1>7. Launching'
  BY <1>1, <1>4, <1>5 DEF Launching, StopInv, SameTask
<1> QED
  BY <1>1, <1>3, <1>4, <1>5, <1>6, <1>7, StopKeeps

LEMMA InitScriptStopped ==
  ASSUME TypeInv, LockInv, StopInv, InitScript
  PROVE  StopInv'
<1>1. UNCHANGED <<mem, stopped>> /\ (rpc' = rpc \/ rpc'.pc = "idle")
  BY InitScriptTypes
<1>2. (Stopping' => Stopping) /\ StopWins' /\ Launching'
  BY <1>1, RpcPlaces DEF Stopping, StopWins, StopInv, Launching
<1>3. ASSUME NEW j \in Jobs PROVE wk'[j] = wk[j] \/ Bounded(j)'
  <2>1. CASE InitDone
    <3>1. \/ wk'[j] = wk[j]
          \/ wk'[j].pc = "gone"
          \/ /\ wk[j].pc = "quiescing" /\ wk'[j].pc = "apply" /\ wk'[j].val = wk[j].val
             /\ ~wk'[j].syncing
      BY <2>1, InitDoneTypes
    <3>2. CASE wk'[j].pc = "gone"
      BY <3>2, WorkPlaces DEF Bounded
    <3>3. CASE wk[j].pc = "quiescing" /\ wk'[j].pc = "apply" /\ wk'[j].val = wk[j].val
      <4>1. Bounded(j) /\ wk[j].pc \in HasVal
        BY <3>3 DEF StopInv, HasVal
      <4> QED
        BY <1>1, <1>2, <3>3, <4>1 DEF Bounded, Bound, Ahead
    <3> QED BY <3>1, <3>2, <3>3
  <2>2. CASE ~InitDone
    BY <2>2 DEF InitScript, InitStop, InitBoot, InitGate, InitStart
  <2> QED BY <2>1, <2>2
<1>4. ASSUME NEW p \in Recoverers PROVE rec'[p] = rec[p] \/ SameJob(p)'
  <2>1. rec'[p] = rec[p] \/ rec'[p].pc \in {"off", "peek"}
    BY InitStopTypes, InitBootTypes, InitGateTypes DEF InitScript, InitStart, InitDone
  <2> QED BY <2>1, RecTables DEF SameJob
<1> QED
  BY <1>1, <1>2, <1>3, <1>4, StopKeeps DEF SameTask

(* A worker that enters a section keeps its job, or takes it from the journal. *)
LEMMA WorkerStopped ==
  ASSUME TypeInv, LockInv, StopInv, NEW j \in Jobs, Worker(j) \/ WorkFault(j) \/ WorkerDies(j),
         ~WorkWrite(j)
  PROVE  StopInv'
<1>1. UNCHANGED <<rpc, stopped>> /\ mem' = mem
  <2>1. UNCHANGED <<rpc, stopped>>
    BY DEF Worker, WorkContext, WorkEngine, WorkFirst, WorkQuiesce, WorkSync,
       WorkCatch, WorkRecovered, WorkResume, WorkAbort, WorkAborted, WorkFault, WorkerDies
  <2>2. UNCHANGED mem \/ WorkSync(j)
    BY DEF Worker, WorkContext, WorkEngine, WorkFirst, WorkQuiesce,
       WorkCatch, WorkRecovered, WorkResume, WorkAbort, WorkAborted, WorkFault, WorkerDies
  <2> QED BY <2>1, <2>2, WorkSyncTypes
<1>2. \A i \in Jobs : i # j => wk'[i] = wk[i]
  BY WorkerTypes, WorkFaults, WorkerDiesTypes
<1>3. (Stopping' => Stopping) /\ StopWins' /\ Launching'
  BY <1>1 DEF Stopping, StopWins, StopInv, Launching
<1>4. ASSUME NEW p \in Recoverers PROVE rec'[p] = rec[p] \/ SameJob(p)'
  <2>1. rec' = rec \/ \E pc \in {"off", "read", "peek"} : Recover(j, pc)
    BY DEF Worker, WorkContext, WorkEngine, WorkFirst, WorkQuiesce, WorkSync,
       WorkCatch, WorkRecovered, WorkResume, WorkAbort, WorkAborted, WorkFault, WorkerDies
  <2>2. rec' = rec \/ (rec'[j].pc \in {"off", "read", "peek"}
                       /\ \A q \in Recoverers : q # j => rec'[q] = rec[q])
    BY <2>1, NoName, Recoveries DEF TypeInv
  <2> QED BY <2>2, RecTables DEF SameJob
<1>5. Bounded(j) /\ wk[j].pc # "gone" /\ wk[j].pc # "off"
  <2>1. wk[j].pc \in Section => wk[j].pc # "gone" /\ wk[j].pc # "off"
    BY Places
  <2>2. wk[j].syncing => wk[j].pc \in Section
    BY DEF TypeInv, WkOK
  <2>3. wk[j].pc # "gone" /\ wk[j].pc # "off"
    BY <2>1, <2>2, WorkTables DEF Worker, WorkContext, WorkEngine, WorkFirst, WorkQuiesce, WorkSync,
       WorkCatch, WorkRecovered, WorkResume, WorkAbort, WorkAborted, WorkFault, WorkerDies, At
  <2> QED BY <2>3 DEF StopInv
<1>6. Bounded(j)'
  <2>1. ASSUME wk'[j].pc \in HasVal =>
                 \/ wk[j].pc \in HasVal /\ wk'[j].val = wk[j].val
                 \/ /\ wk'[j].val = mem.journal /\ mem.journal \in Journals
                    /\ mem.journal.id = j,
               wk'[j].pc = "state" => wk[j].pc = "mark" /\ wk[j].syncing,
               ~wk'[j].syncing
        PROVE  Bounded(j)'
    <3>1. mem.journal \in Journals => mem.journal # NoJournal
      BY AbsentAssumption
    <3>2. "mark" \in HasVal /\ "state" \in HasVal
      BY DEF HasVal, Section
    <3>3. wk'[j].pc \in HasVal =>
            Ahead(mem'.intent, Stopping', wk'[j].val.intent) /\ wk'[j].val.id = j
      BY <1>1, <1>3, <1>5, <2>1, <3>1 DEF Bounded, Bound, Ahead
    <3>4. wk'[j].pc \notin {"off", "gone"} /\ mem'.journal # NoJournal /\ mem'.journal.id = j
            => Ahead(mem'.intent, Stopping', mem'.journal.intent)
      BY <1>1, <1>3, <1>5 DEF Bounded, Bound, Ahead
    <3>5. wk'[j].pc = "state" => wk'[j].val.intent = mem'.intent
      <4>1. ASSUME wk'[j].pc = "state"
            PROVE  wk'[j].val.intent = mem'.intent
        <5>1. wk[j].val.intent = mem.intent /\ Bound(wk[j].val)
          BY <1>5, <2>1, <3>2, <4>1 DEF Bounded
        <5>2. mem.journal \in Journals /\ mem.journal.id = j => Bound(mem.journal)
          BY <1>5, <3>1 DEF Bounded
        <5>3. wk'[j].val = wk[j].val \/ ~WorkSync(j)
          BY WorkSyncTypes
        <5>4. WorkSync(j)
          BY <2>1, <3>2, <4>1, WorkContextTypes, WorkEngineTypes, WorkFirstTypes, WorkQuiesceTypes,
             WorkCatchTypes, WorkRecoveredTypes, WorkResumeTypes, WorkAbortTypes, WorkAbortedTypes,
             WorkFaults, WorkerDiesTypes DEF Worker
        <5> QED BY <1>1, <5>1, <5>3, <5>4
      <4> QED BY <4>1
    <3> QED BY <2>1, <3>3, <3>4, <3>5 DEF Bounded, Bound
  <2>2. CASE WorkContext(j)
    BY <2>1, <2>2, WorkContextTypes, WorkPlaces
  <2>3. CASE WorkEngine(j)
    BY <2>1, <2>3, WorkEngineTypes, WorkPlaces DEF WorkEngine, At, HasVal
  <2>4. CASE WorkFirst(j)
    BY <2>1, <2>4, WorkFirstTypes, WorkPlaces
  <2>5. CASE WorkQuiesce(j)
    BY <2>1, <2>5, WorkQuiesceTypes DEF WorkQuiesce, At, HasVal
  <2>6. CASE WorkSync(j)
    <3>1. wk[j].pc \in HasVal /\ wk[j].syncing
      BY <2>6, WorkPlaces DEF TypeInv, WkOK, WorkSync
    <3> QED BY <2>1, <2>6, <3>1, WorkSyncTypes
  <2>7. CASE WorkCatch(j) \/ WorkRecovered(j) \/ WorkResume(j) \/ WorkAbort(j) \/ WorkAborted(j)
               \/ WorkFault(j) \/ WorkerDies(j)
    <3>1. wk'[j].pc \in {"recovering", "abort", "resume", "resuming", "aborting", "gone", "catch"}
          /\ ~wk'[j].syncing
      BY <2>7, WorkCatchTypes, WorkRecoveredTypes, WorkResumeTypes, WorkAbortTypes,
         WorkAbortedTypes, WorkFaults, WorkerDiesTypes
    <3> QED BY <2>1, <3>1, WorkPlaces
  <2> QED
    BY <2>2, <2>3, <2>4, <2>5, <2>6, <2>7 DEF Worker
<1> QED
  BY <1>1, <1>2, <1>3, <1>4, <1>6, StopKeeps DEF SameTask

LEMMA WorkerWritesStopped ==
  ASSUME TypeInv, LockInv, StopInv, NEW j \in Jobs, WorkWrite(j)
  PROVE  StopInv'
<1> DEFINE v == wk[j].val
<1>1. /\ wk[j].pc \in Section /\ v \in Journals /\ wk'[j].val = v
      /\ \A i \in Jobs : i # j => wk'[i] = wk[i]
      /\ UNCHANGED <<rpc, stopped, rec>> /\ mem'.intent = mem.intent
  BY WorkWrites DEF WorkWrite
<1>2. /\ Bounded(j) /\ Bound(v) /\ v.id = j /\ engineLock = j /\ rec[j].pc = "off"
      /\ wk[j].pc # "off"
  BY <1>1, WorkPlaces, Places, NoRecovery DEF StopInv, Bounded, LockInv, WorkHolds
<1>3. Stopping' => Stopping
  BY <1>1 DEF Stopping
<1>4. \/ mem'.journal = mem.journal
      \/ mem'.journal \in Journals /\ mem'.journal.id = j /\ mem'.journal.intent = v.intent
  BY <1>2, WorkWrites DEF Section
<1>5. StopWins'
  <2>1. CASE mem'.state = mem.state
    BY <1>1, <2>1 DEF StopInv, StopWins
  <2>2. CASE mem'.state # mem.state
    <3>1. wk[j].pc = "state"
      BY <2>2, WorkWrites DEF Section
    <3>2. v.intent = mem.intent /\ mem.intent \in Nat
      BY <1>2, <3>1, FileTypes DEF Bounded, TypeInv
    <3>3. ~Stopping
      BY <1>2, <3>2 DEF Bound, Ahead
    <3> QED BY <1>1, <3>3 DEF Stopping, StopWins
  <2> QED BY <2>1, <2>2
<1>6. Launching'
  BY <1>1, <1>2, <1>4, AbsentAssumption DEF StopInv, Launching, Bound, Ahead
<1>7. Ahead(mem'.intent, Stopping', v.intent)
  BY <1>1, <1>2, <1>3 DEF Bound, Ahead
<1>8. Bounded(j)'
  <2>1. mem'.journal # NoJournal /\ mem'.journal.id = j
          => Ahead(mem'.intent, Stopping', mem'.journal.intent)
    <3>1. wk[j].pc # "gone"
      BY <1>1, Places
    <3> QED BY <1>1, <1>2, <1>3, <1>4, <1>7, <3>1 DEF Bounded, Bound, Ahead
  <2>2. mem'.intent = mem.intent /\ (wk'[j].pc = "state" \/ (wk'[j].pc = "mark" /\ wk'[j].syncing) => v.intent = mem.intent)
    <3>1. wk'[j].pc = "catch" \/ wk'[j].pc = wk[j].pc
      BY WorkWrites
    <3>2. wk'[j].pc = "mark" /\ wk'[j].syncing => Fresh(v)
      BY WorkWrites
    <3>3. wk[j].pc = "state" => v.intent = mem.intent
      BY <1>2 DEF Bounded
    <3> QED BY <1>1, <3>1, <3>2, <3>3 DEF Fresh
  <2> HIDE DEF v
  <2>3. /\ wk'[j].val = v /\ v.id = j
    BY <1>1, <1>2
  <2> QED BY <1>1, <1>7, <2>1, <2>2, <2>3 DEF Bounded, Bound
<1>9. ASSUME NEW i \in Jobs, i # j PROVE Bounded(i)'
  <2>1. Bounded(i) /\ wk'[i] = wk[i]
    BY <1>1, <1>9 DEF StopInv
  <2> QED
    BY <1>1, <1>3, <1>4, <1>9, <2>1 DEF Bounded, Bound, Ahead
<1>10. ASSUME NEW p \in Recoverers PROVE SameJob(p)'
  <2>1. rec[p].pc \notin Deciding
    BY <1>2, WorkerAlone, Places
  <2> QED BY <1>1, <2>1, Places DEF SameJob
<1> QED
  BY <1>5, <1>6, <1>8, <1>9, <1>10 DEF StopInv

(* rpcd's steps but the one that counts a Stop and the one that queues a job. *)
LEMMA RpcKeepsStopped ==
  ASSUME TypeInv, StopInv, mem'.intent = mem.intent, Stopping' => Stopping, StopWins',
         mem'.journal = mem.journal, UNCHANGED wk,
         \A q \in Recoverers : rec'[q] = rec[q] \/ rec'[q].pc \in {"off", "peek"},
         \/ rpc'.pc \notin Enqueued
         \/ rpc.pc = "queued" /\ rpc'.pc = "launch" /\ rpc'.val = rpc.val /\ ~stopped'
  PROVE  StopInv'
<1>1. Launching'
  BY DEF StopInv, Launching, Enqueued
<1>2. \A q \in Recoverers : rec'[q] = rec[q] \/ SameJob(q)'
  BY RecTables DEF SameJob
<1> QED
  BY <1>1, <1>2, StopKeeps DEF SameTask

LEMMA RpcIntentStopped ==
  ASSUME TypeInv, LockInv, StopInv, RpcIntent
  PROVE  StopInv'
<1>1. /\ rpc'.pc = "write" /\ mem'.intent = mem.intent + 1 /\ mem'.state = mem.state
      /\ mem'.journal = mem.journal /\ UNCHANGED <<wk, rec, stopped>>
      /\ mem.intent \in Nat
  BY RpcIntentTypes, FileTypes DEF RpcIntent, TypeInv
<1>2. stateLock = "rpc"
  BY DEF RpcIntent, RpcAt, LockInv, RpcLocks
<1>3. ASSUME NEW j \in Jobs PROVE Bounded(j)'
  <2>1. Bounded(j) /\ wk'[j] = wk[j]
    BY <1>1 DEF StopInv
  <2>2. ~(wk[j].pc = "state" \/ (wk[j].pc = "mark" /\ wk[j].syncing))
    BY <1>2, NoName DEF LockInv, WorkHolds
  <2>3. mem.journal # NoJournal => mem.journal.intent \in Nat
    BY FileTypes, JournalTypes DEF TypeInv
  <2>4. wk[j].pc \in HasVal => wk[j].val.intent \in Nat
    BY JournalTypes DEF TypeInv, WkOK
  <2>5. /\ wk[j].pc \in HasVal =>
             Ahead(mem'.intent, Stopping', wk[j].val.intent) /\ wk[j].val.id = j
        /\ wk[j].pc \notin {"off", "gone"} /\ mem.journal # NoJournal /\ mem.journal.id = j
             => Ahead(mem'.intent, Stopping', mem.journal.intent)
    BY <1>1, <2>1, <2>3, <2>4 DEF Bounded, Bound, Ahead
  <2> QED
    BY <1>1, <2>1, <2>2, <2>5 DEF Bounded, Bound
<1>4. Launching'
  BY <1>1, RpcPlaces DEF Launching
<1>5. StopWins' /\ \A p \in Recoverers : SameJob(p)'
  BY <1>1 DEF StopInv, StopWins, SameJob
<1> QED
  BY <1>3, <1>4, <1>5 DEF StopInv

LEMMA RpcQueueStopped ==
  ASSUME TypeInv, LaunchOK, LockInv, StopInv, RpcQueue \/ RpcPrepare
  PROVE  StopInv'
<1>1. /\ UNCHANGED <<wk, rec, stopped>> /\ mem'.intent = mem.intent /\ mem'.state = mem.state
      /\ rpc'.pc # "write" /\ rpc.pc # "recover"
  BY RpcQueueTypes, RpcPrepareTypes DEF RpcQueue, RpcPrepare, RpcAt
<1>2. (Stopping' => Stopping) /\ StopWins'
  BY <1>1 DEF Stopping, StopInv, StopWins
<1>3. /\ mem.intent \in Nat /\ rpc'.pc # "launch"
      /\ rpc'.pc \in Enqueued => rpc'.val.intent <= mem.intent
      /\ mem'.journal # NoJournal /\ mem'.journal # mem.journal =>
           /\ mem'.journal.intent <= mem.intent
           /\ mem'.journal.id = rpc.val.id /\ wk[rpc.val.id].pc = "off"
      /\ rpc'.pc \in {"queued", "launch"} => mem'.journal = rpc.val /\ rpc.val.intent <= mem.intent
  <2>1. mem.intent \in Nat
    BY FileTypes DEF TypeInv
  <2>2. CASE RpcQueue
    BY <2>1, <2>2, RpcQueueTypes
  <2>3. CASE RpcPrepare
    <3>1. rpc.val.intent <= mem.intent /\ wk[rpc.val.id].pc = "off"
      BY <2>3 DEF RpcPrepare, RpcAt, StopInv, Launching, LaunchOK, Enqueued
    <3> QED BY <2>1, <2>3, <3>1, RpcPrepareTypes DEF Enqueued
  <2> QED BY <2>2, <2>3
<1>4. Launching'
  BY <1>1, <1>3 DEF Launching
<1>5. ASSUME NEW j \in Jobs PROVE Bounded(j)'
  <2>1. Bounded(j) /\ wk'[j] = wk[j]
    BY <1>1 DEF StopInv
  <2>2. wk[j].pc \in HasVal =>
          Ahead(mem'.intent, Stopping', wk[j].val.intent) /\ wk[j].val.id = j
    BY <1>1, <1>2, <2>1 DEF Bounded, Bound, Ahead
  <2>3. wk[j].pc \notin {"off", "gone"} /\ mem'.journal # NoJournal /\ mem'.journal.id = j
          => Ahead(mem'.intent, Stopping', mem'.journal.intent)
    <3>1. CASE mem'.journal = mem.journal
      BY <1>1, <1>2, <2>1, <3>1 DEF Bounded, Bound, Ahead
    <3>2. CASE mem'.journal # mem.journal
      BY <1>3, <3>2
    <3> QED BY <3>1, <3>2
  <2> QED
    BY <1>1, <2>1, <2>2, <2>3 DEF Bounded, Bound
<1>6. ASSUME NEW p \in Recoverers PROVE SameJob(p)'
  <2>1. engineLock \in {"free", "rpc"}
    BY DEF RpcQueue, RpcPrepare, RpcAt, LockInv, RpcLocks
  <2>2. rec[p].pc \notin Deciding
    <3>1. CASE p = "rpc"
      BY <1>1, <3>1, Places DEF LockInv, RecOwned
    <3>2. CASE p # "rpc"
      BY <2>1, <3>2, BackupAssumption DEF LockInv, RecHolds, Recoverers
    <3> QED BY <3>1, <3>2
  <2> QED BY <1>1, <2>2, Places DEF SameJob
<1> QED
  BY <1>2, <1>4, <1>5, <1>6 DEF StopInv

LEMMA RpcLaunchStopped ==
  ASSUME TypeInv, LaunchOK, StopInv, RpcLaunch
  PROVE  StopInv'
<1>1. /\ rpc'.pc = "idle" /\ rpc.pc = "launch" /\ UNCHANGED <<mem, rec, stopped>>
      /\ wk'[rpc.val.id].pc = "context"
      /\ \A i \in Jobs : i # rpc.val.id => wk'[i] = wk[i]
  BY RpcLaunchTypes DEF RpcLaunch, RpcAt
<1>2. ~stopped /\ (mem.journal # NoJournal => mem.journal.intent <= mem.intent)
  BY <1>1 DEF StopInv, Launching
<1>3. ~Stopping' /\ StopWins' /\ Launching'
  BY <1>1, <1>2, RpcPlaces DEF Stopping, StopWins, Launching
<1>4. ASSUME NEW i \in Jobs PROVE wk'[i] = wk[i] \/ Bounded(i)'
  <2>1. CASE i = rpc.val.id
    <3>1. wk'[i].pc = "context" /\ "context" \notin HasVal
      BY <1>1, <2>1, WorkPlaces
    <3>2. mem'.journal # NoJournal => mem'.journal.intent \in Nat /\ mem'.intent \in Nat
      BY <1>1, FileTypes, JournalTypes DEF TypeInv
    <3> QED BY <1>1, <1>2, <1>3, <3>1, <3>2 DEF Bounded, Bound, Ahead
  <2> QED BY <1>1, <2>1
<1> QED
  BY <1>1, <1>3, <1>4, StopKeeps DEF SameTask

LEMMA RpcStopped ==
  ASSUME TypeInv, LaunchOK, LockInv, StopInv,
         Rpc \/ RpcFault \/ RpcdDies \/ (\E op \in Ops : RpcCall(op))
  PROVE  StopInv'
<1>0. StopWins
  BY DEF StopInv
<1>1. CASE RpcLock
  <2>1. /\ rpc'.pc \in {"idle", "intent", "keys", "write"}
        /\ rpc'.pc = "write" => rpc'.op # "stop"
    BY <1>1, RpcLockTypes DEF NoCall
  <2>2. UNCHANGED <<mem, wk, rec, stopped>>
    BY <1>1 DEF RpcLock
  <2> QED
    BY <1>0, <2>1, <2>2, RpcPlaces, RpcKeepsStopped DEF Stopping, StopWins
<1>2. CASE RpcIntent
  BY <1>2, RpcIntentStopped
<1>3. CASE RpcKeys
  <2>1. /\ rpc'.pc = "idle" /\ UNCHANGED <<wk, rec, stopped>>
    BY <1>3 DEF RpcKeys, NoCall
  <2> QED
    BY <1>0, <1>3, <2>1, RpcKeysTypes, RpcPlaces, RpcKeepsStopped DEF Stopping, StopWins
<1>4. CASE RpcWrite
  <2>1. /\ rpc'.pc \in {"idle", "restart"} /\ UNCHANGED <<wk, rec>> /\ rpc.pc = "write"
        /\ mem'.journal = mem.journal /\ mem'.intent = mem.intent
    BY <1>4, RpcWriteTypes DEF RpcWrite, RpcAt
  <2>2. (Stopping' => Stopping) /\ StopWins'
    <3>1. CASE rpc.op = "stop"
      BY <1>4, <2>1, <3>1, RpcWriteTypes DEF Stopping, StopWins
    <3>2. CASE rpc.op # "stop"
      <4>1. stopped' => stopped /\ ~mem'.state.active
        BY <1>4, <3>2, RpcWriteTypes
      <4> QED BY <2>1, <4>1 DEF Stopping, StopWins
    <3> QED BY <3>1, <3>2
  <2> QED
    BY <2>1, <2>2, RpcPlaces, RpcKeepsStopped
<1>5. CASE RpcRestart \/ RpcRefuse
  <2>1. /\ rpc'.pc \in {"restarting", "idle"} /\ UNCHANGED <<mem, wk, rec, stopped>>
    BY <1>5, RpcRestartTypes, RpcRefuseTypes DEF RpcRestart, RpcRefuse
  <2> QED
    BY <1>0, <2>1, RpcPlaces, RpcKeepsStopped DEF Stopping, StopWins
<1>6. CASE RpcQueue \/ RpcPrepare
  BY <1>6, RpcQueueStopped
<1>7. CASE RpcQueued
  <2>1. /\ mem' = mem /\ rpc.pc = "queued" /\ rpc'.pc = "launch" /\ rpc'.val = rpc.val
        /\ stopped' = FALSE /\ UNCHANGED <<wk, rec>>
    BY <1>7, RpcQueuedTypes DEF RpcQueued, RpcAt
  <2> QED
    BY <2>1, RpcKeepsStopped DEF Stopping, StopWins
<1>8. CASE RpcLaunch
  BY <1>8, RpcLaunchStopped
<1>9. CASE RpcRecovered \/ RpcFault \/ RpcdDies
  <2>1. /\ rpc'.pc \in {"idle", "recover"} /\ UNCHANGED <<mem, wk, stopped>>
    BY <1>9, RpcRecoveredTypes, RpcFaults, RpcdDiesTypes DEF RpcRecovered, RpcFault, RpcdDies
  <2>2. \A q \in Recoverers : rec'[q] = rec[q] \/ rec'[q].pc \in {"off", "peek"}
    BY <1>9, RpcRecoveredTypes, RpcFaults, RpcdDiesTypes
  <2> QED
    BY <1>0, <2>1, <2>2, RpcPlaces, RpcKeepsStopped DEF Stopping, StopWins
<1>10. ASSUME NEW op \in Ops, RpcCall(op) PROVE StopInv'
  <2>1. rpc'.pc \in {"queue", "wait"} /\ UNCHANGED <<mem, wk, rec, stopped>>
    BY <1>10, RpcCallTypes DEF RpcCall
  <2> QED
    BY <1>0, <2>1, RpcPlaces, RpcKeepsStopped DEF Stopping, StopWins
<1> QED
  BY <1>1, <1>2, <1>3, <1>4, <1>5, <1>6, <1>7, <1>8, <1>9, <1>10 DEF Rpc

LEMMA StopStep ==
  ASSUME TypeInv, LaunchOK, LockInv, HalfInv, StopInv, [Next]_vars
  PROVE  StopInv'
<1>1. CASE Rpc \/ RpcdDies \/ \E op \in Ops : RpcCall(op)
  BY <1>1, RpcStopped
<1>2. CASE InitScript
  BY <1>2, InitScriptStopped
<1>3. CASE TunnelEnds \/ Tick \/ Reload \/ Edit \/ UNCHANGED vars
  <2>1. UNCHANGED <<rpc, wk, rec, stopped>>
    BY <1>3 DEF TunnelEnds, Tick, TickGuard, TickLock, TickWrite, TickDone, Reload, Edit, vars
  <2>2. mem'.journal = mem.journal /\ mem'.state = mem.state /\ mem'.intent = mem.intent
    BY <1>3, TickTypes, EditTypes, TunnelEndsTypes DEF Reload, vars
  <2>3. (Stopping' => Stopping) /\ StopWins' /\ Launching'
    BY <2>1, <2>2 DEF StopInv, Stopping, StopWins, Launching
  <2> QED
    BY <2>1, <2>2, <2>3, StopKeeps DEF SameTask
<1>4. ASSUME NEW j \in Jobs, Worker(j) \/ WorkerDies(j) PROVE StopInv'
  BY <1>4, WorkerStopped, WorkerWritesStopped
<1>5. ASSUME NEW p \in Recoverers, Recovery(p) PROVE StopInv'
  BY <1>5, RecoveryStopped
<1>6. CASE Fault
  <2>1. ASSUME NEW p \in Recoverers, RecFault(p) PROVE StopInv'
    BY <2>1, RecoveryStopped
  <2>2. ASSUME NEW j \in Jobs, WorkFault(j) PROVE StopInv'
    BY <2>2, WorkerStopped, WorkerWritesStopped
  <2>3. ASSUME RpcFault PROVE StopInv'
    BY <2>3, RpcStopped
  <2> QED
    BY <1>6, <2>1, <2>2, <2>3 DEF Fault
<1>7. CASE PowerLoss
  <2>1. /\ rpc'.pc = "recover" /\ (stopped' => ~mem'.state.active)
        /\ \A p \in Recoverers : rec'[p].pc = IF p = "rpc" THEN "peek" ELSE "off"
        /\ \A j \in Jobs : wk'[j].pc \in {"off", "gone"}
    BY <1>7, PowerLossTypes
  <2>2. \A p \in Recoverers : SameJob(p)'
    BY <2>1, RecTables DEF SameJob
  <2>3. \A j \in Jobs : Bounded(j)'
    BY <2>1, WorkPlaces DEF Bounded
  <2> QED
    BY <2>1, <2>2, <2>3, RpcPlaces DEF StopInv, StopWins, Launching
<1> QED
  BY <1>1, <1>2, <1>3, <1>4, <1>5, <1>6, <1>7 DEF Next, System, Environment

(* StopWins: stop_server against backup-service.uc.  An accepted Stop is     *)
(* undone by no worker, recovery or restart, whenever they run, die or lose  *)
(* power: stop_intent makes every job queued before it stale.                *)
(* A power loss that brings an unsynced state.json back ends `stopped`.      *)
THEOREM StopIsFinal == Spec => []StopWins
<1>1. Init => TypeInv /\ LaunchOK /\ LockInv /\ HalfInv /\ StopInv
  BY InitTypes, InitLocks, InitHalf, InitStopped
<1>2. TypeInv /\ LaunchOK /\ LockInv /\ HalfInv /\ StopInv /\ [Next]_vars
        => (TypeInv /\ LaunchOK /\ LockInv /\ HalfInv /\ StopInv)'
  BY LaunchStep, LockStep, HalfStep, StopStep
<1>3. StopInv => StopWins
  BY DEF StopInv
<1> QED
  BY <1>1, <1>2, <1>3, PTL DEF Spec

=============================================================================
