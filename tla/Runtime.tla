------------------------------- MODULE Runtime -------------------------------
(***************************************************************************)
(* The tunnel runtime of one router: the desired state in state.json, the  *)
(* init script that procd drives, the supervisor shell script, the         *)
(* controller commands it (and the init script, and a phone's poll) runs,  *)
(* the tunnel process, and the kernel policy they all write.               *)
(*                                                                         *)
(* A controller command is a separate process that reads state.json once   *)
(* and then works through a list of steps, each of which may fail; up to   *)
(* four of them run at the same time.  None of them takes a lock on the    *)
(* kernel policy, on the files of /tmp/foxhole or on the status file.      *)
(***************************************************************************)
EXTENDS Naturals, Sequences, FiniteSets

CONSTANTS
  Servers,        \* server ids a profile can have
  CoreServers,    \* those whose engine is "core"; the others run Hysteria
  NoServer,       \* activeServerId = null
  Desired,        \* the contents state.json takes, see DesiredRecord
  NoConfig,       \* an absent credential file
  RecoveryCodes,  \* exit codes of foxhole-backup-recover --allow-stopped
  MaxEdits,       \* changes of state.json in a behaviour
  MaxReloads,     \* network/firewall/dhcp reload triggers
  MaxCrashes,     \* deaths of the tunnel process nobody asked for
  MaxFailures,    \* failing controller steps
  MaxOrphans,     \* supervisor deaths that leave its command running
  MaxPolls,       \* phone polls that start a background probe
  MaxReboots,     \* power cycles
  Respawns        \* procd's respawn retry count (5 in the init script)

DesiredRecord(s) ==
  /\ DOMAIN s = {"active", "config", "rules", "kill"}
  /\ s.active \in Servers \union {NoServer}
  /\ s.kill \in BOOLEAN
  /\ s.active = NoServer <=> s.config = NoConfig

ASSUME RuntimeAssumption ==
  /\ CoreServers \subseteq Servers
  /\ NoServer \notin Servers
  /\ Desired # {}
  /\ \A s \in Desired : DesiredRecord(s)
  /\ RecoveryCodes \subseteq {0, 1, 10}
  /\ {MaxEdits, MaxReloads, MaxCrashes, MaxFailures, MaxOrphans, MaxPolls,
      MaxReboots, Respawns} \subseteq Nat

VARIABLES
  \* /etc/foxhole/state.json, what the owner asked for
  desired,
  \* kernel: table inet foxhole, table 201 with its rule, table 202
  nft, route, proofRoute,
  \* files of /tmp/foxhole: engine configuration, proof and policy receipt
  \* (sets of at most one record: empty when there is no file), status;
  \* probeLock is the holder of core-probe.lock
  confFile, proof, receipt, status, probeLock,
  \* processes: controller commands, supervisor, tunnel, init script, procd
  ctl, sup, child, init, procd,
  \* restarts asked of the init script and not begun yet
  pending,
  \* what disturbances are left
  budget,
  \* history: configuration each tunnel generation was started with, and
  \* whether the fail-closed promises below are in force
  launched, armed, sealed

kernel == <<nft, route, proofRoute>>
files  == <<confFile, proof, receipt, status, probeLock>>
procs  == <<ctl, sup, child, init, procd>>
ghosts == <<launched, armed, sealed>>
vars   == <<desired, kernel, files, procs, pending, budget, ghosts>>

------------------------------------------------------------------------------
(* Values *)

Configs == {s.config : s \in Desired}
Rules   == {s.rules : s \in Desired}
Owners  == {"sup", "init", "orphan", "phone"}

Native(s)  == s.active \in CoreServers
Active(s)  == s.active # NoServer
Engine(s)  == IF Native(s) THEN "core" ELSE "hysteria"
Mode(s)    == IF Active(s) THEN "tunnel" ELSE IF s.kill THEN "block" ELSE "off"

NoTable == [mode |-> "none", rules |-> NoConfig]
NoFiles == [core |-> NoConfig, hysteria |-> NoConfig]
Status(phase, enforced, server) ==
  [phase |-> phase, enforced |-> enforced, server |-> server]

\* A controller process.  steps is what it has still to do, st the state.json
\* it read, pst the one its probe read, gen and fp what apply connected keeps.
AnyState  == CHOOSE s \in Desired : TRUE
NoCommand ==
  [cmd |-> "none", steps |-> <<>>, st |-> AnyState, pst |-> AnyState,
   gen |-> 0, fp |-> NoTable, reason |-> "none", ok |-> TRUE]
Command(name, why) ==
  [NoCommand EXCEPT !.cmd = name, !.reason = why,
     !.steps = IF name = "probe" THEN <<"check", "prove">>
               ELSE IF name = "proofroutes" THEN <<"proofroutes">>
               ELSE <<"read">>]

Busy(c)     == ctl[c].cmd # "none" /\ ctl[c].steps # <<>>
Finished(c) == ctl[c].cmd # "none" /\ ctl[c].steps = <<>>
Idle(c)     == ctl[c].cmd = "none"
At(c, step) == Busy(c) /\ Head(ctl[c].steps) = step
Settled     == pending = 0 /\ init = "idle"

\* A live core generation that owns foxhole0.
Owned == child.alive /\ child.tun /\ child.engine = "core"

------------------------------------------------------------------------------
(* Controller commands *)

\* Mutants (see "mutants" of PROJECT.json) stand before what they replace.
CoreLoss_KillOnly(k) == Native(k.st) /\ k.reason # "runtime_stopped" /\ k.st.kill
Deletes_NoKill(k) ==
  \/ k.cmd = "cleanup"
  \/ k.cmd = "down" /\ ~(Native(k.st) /\ k.reason # "runtime_stopped")
Publish_StatusFirst == <<"status", "receipt">>

\* down() reached with a failure reason while a core profile is selected.
CoreLoss(k)  == Native(k.st) /\ k.reason # "runtime_stopped"
Deletes(k)   == \/ k.cmd = "cleanup"
                \/ k.cmd = "down" /\ ~CoreLoss(k) /\ ~k.st.kill
Emergency(k) == k.cmd \in {"prepare", "down", "handler"}

\* apply connected writes the receipt before the status.
Publish == <<"receipt", "status">>

\* The steps a command takes once it has read state.json.
Plan(k) ==
  CASE k.cmd = "prepare" ->
         IF Native(k.st) \/ k.st.kill THEN <<"nft", "routes", "files", "status">>
                                      ELSE <<"files", "status">>
    [] k.cmd = "connect" ->
         IF Native(k.st)
         THEN <<"nft", "routes", "verify", "check", "prove", "final">> \o Publish
         ELSE <<"nft", "routes", "status">>
    [] k.cmd = "block" -> <<"nft", "routes", "status">>
    [] k.cmd = "cleanup" -> <<"nft", "routes", "files", "status">>
    [] k.cmd = "down" ->
         IF CoreLoss(k) THEN <<"nft", "routes", "files", "status">>
         ELSE IF k.st.kill THEN <<"files", "mark", "nft", "routes", "status">>
         ELSE <<"files", "nft", "routes", "status">>
    [] k.cmd = "handler" ->
         IF Native(k.st) THEN <<"nft", "routes", "status">> ELSE <<"status">>

ProofValid_AnyConfig(s) ==
  Owned /\ \E p \in proof : p.gen = child.gen /\ p.fresh

ProofValid(s) ==
  /\ Owned
  /\ \E p \in proof : /\ p.gen = child.gen
                       /\ p.server = s.active
                       /\ p.config = s.config
                       /\ p.fresh

\* Refusals right after the read: no active server, or no valid proof.
Admitted(k) ==
  /\ k.cmd \in {"prepare", "connect"} => Active(k.st)
  /\ k.cmd = "connect" /\ Native(k.st) => ProofValid(k.st)

\* The catch block: a command other than probe turns into the handler, which
\* reads state.json again; a failing handler or probe just exits.
Raise(k) ==
  IF k.cmd \in {"probe", "handler"}
  THEN [k EXCEPT !.steps = <<>>, !.ok = FALSE]
  ELSE [k EXCEPT !.cmd = "handler", !.steps = <<"read">>, !.ok = FALSE]

Pop(k) == [k EXCEPT !.steps = Tail(k.steps)]
Advance(c, k) == ctl' = [ctl EXCEPT ![c] = k]
Release(c) == probeLock' = IF probeLock = c THEN "free" ELSE probeLock

Read(c) ==
  /\ At(c, "read")
  /\ LET k == [ctl[c] EXCEPT !.st = desired]
         g == IF k.cmd = "connect" /\ Native(k.st) THEN child.gen ELSE 0
     IN  IF Admitted(k)
         THEN Advance(c, [k EXCEPT !.steps = Plan(k), !.gen = g])
         ELSE Advance(c, Raise(k))
  /\ UNCHANGED <<desired, kernel, files, sup, child, init, procd, pending,
                 budget, ghosts>>

\* Writing the table is one nft transaction.  connected requires the TUN.
TableOf(k) ==
  IF Deletes(k) THEN NoTable
  ELSE [mode |-> IF Emergency(k) THEN "bootstrap" ELSE "normal",
        rules |-> k.st.rules]

PolicyTable(c) ==
  /\ At(c, "nft")
  /\ LET k == ctl[c] IN
     IF k.cmd = "connect" /\ ~child.tun
     THEN Advance(c, Raise(k)) /\ UNCHANGED <<nft, armed, sealed>>
     ELSE /\ nft' = TableOf(k)
          /\ armed' = \/ armed
                      \/ /\ c = "sup" /\ k.cmd = "prepare" /\ Native(k.st)
                         /\ k.st = desired /\ Settled /\ ~sup.term
          /\ sealed' = \/ sealed
                       \/ /\ ~Deletes(k) /\ k.st = desired /\ desired.kill
                          /\ Settled /\ ~sup.term /\ c = "sup"
          /\ Advance(c, Pop(k))
  /\ UNCHANGED <<desired, route, proofRoute, files, sup, child, init, procd,
                 pending, budget, launched>>

\* The old rule is deleted, the route of table 201 replaced, the rule added;
\* a route through foxhole0 needs the device.
RouteOf(k) ==
  IF Deletes(k) THEN "none" ELSE IF k.cmd = "connect" THEN "tun" ELSE "prohibit"

PolicyRoutes(c) ==
  /\ At(c, "routes")
  /\ LET k == ctl[c] IN
     IF k.cmd = "connect" /\ ~child.tun
     THEN Advance(c, Raise(k)) /\ route' = "none" /\ UNCHANGED proofRoute
     ELSE /\ route' = RouteOf(k)
          /\ proofRoute' = (proofRoute /\ ~Deletes(k))
          /\ Advance(c, Pop(k))
  /\ UNCHANGED <<desired, nft, files, sup, child, init, procd, pending, budget,
                 ghosts>>

ProofRoutes(c) ==
  /\ At(c, "proofroutes")
  /\ IF child.tun THEN proofRoute' = TRUE /\ Advance(c, Pop(ctl[c]))
                  ELSE proofRoute' = FALSE /\ Advance(c, Raise(ctl[c]))
  /\ UNCHANGED <<desired, nft, route, files, sup, child, init, procd, pending,
                 budget, ghosts>>

CleanupSecret_KeepsCore ==
  /\ confFile' = [confFile EXCEPT !["hysteria"] = NoConfig]
  /\ proof' = {} /\ receipt' = {}

CleanupSecret == confFile' = NoFiles /\ proof' = {} /\ receipt' = {}

\* prepare writes the engine's configuration (and drops the old proof of a
\* core one); down and cleanup remove every secret and receipt.
Files(c) ==
  /\ At(c, "files")
  /\ LET k == ctl[c] IN
     IF k.cmd = "prepare"
     THEN /\ confFile' = [confFile EXCEPT ![Engine(k.st)] = k.st.config]
          /\ proof' = IF Native(k.st) THEN {} ELSE proof
          /\ UNCHANGED receipt
     ELSE CleanupSecret
  /\ Advance(c, Pop(ctl[c]))
  /\ UNCHANGED <<desired, kernel, status, probeLock, sup, child, init, procd,
                 pending, budget, ghosts>>

\* The first status of a kill-switch down(), written before its policy.
Mark(c) ==
  /\ At(c, "mark")
  /\ status' = Status("blocked", status.enforced, NoServer)
  /\ Advance(c, Pop(ctl[c]))
  /\ UNCHANGED <<desired, kernel, confFile, proof, receipt, probeLock, sup,
                 child, init, procd, pending, budget, ghosts>>

(* probe(): reads state.json on its own, takes the non-blocking lock and
   compares the configuration file; then the engine is asked, up to 43 s later. *)
ConfigMatches(s) == confFile["core"] = s.config

Check(c) ==
  /\ At(c, "check")
  /\ LET k == [ctl[c] EXCEPT !.pst = desired] IN
     IF ~Native(desired)
     THEN Advance(c, Pop(k)) /\ UNCHANGED probeLock
     ELSE IF probeLock = "free" /\ ConfigMatches(desired)
          THEN Advance(c, Pop(k)) /\ probeLock' = c
          ELSE Advance(c, Raise(k)) /\ UNCHANGED probeLock
  /\ UNCHANGED <<desired, kernel, confFile, proof, receipt, status, sup, child,
                 init, procd, pending, budget, ghosts>>

Prove(c) ==
  /\ At(c, "prove")
  /\ LET k == ctl[c] IN
     IF ~Native(k.pst)
     THEN /\ Advance(c, IF child.alive THEN Pop(k) ELSE Raise(k))
          /\ UNCHANGED proof
     ELSE IF Owned
          THEN /\ proof' = {[gen |-> child.gen, server |-> k.pst.active,
                             config |-> k.pst.config, fresh |-> TRUE]}
               /\ Advance(c, Pop(k))
          ELSE Advance(c, Raise(k)) /\ UNCHANGED proof
  /\ Release(c)
  /\ UNCHANGED <<desired, kernel, confFile, receipt, status, sup, child, init,
                 procd, pending, budget, ghosts>>

\* kernel_policy(): the fingerprint of the installed chains, provided there are
\* any and marked traffic is routed into foxhole0.
PolicyVisible == nft.mode # "none" /\ route = "tun" /\ child.tun

Verify(c) ==
  /\ At(c, "verify")
  /\ LET k == ctl[c] IN
     Advance(c, IF Owned /\ child.gen = k.gen /\ PolicyVisible
                THEN [Pop(k) EXCEPT !.fp = nft] ELSE Raise(k))
  /\ UNCHANGED <<desired, kernel, files, sup, child, init, procd, pending,
                 budget, ghosts>>

\* The last fence of apply connected: same owner, same state, same policy, a
\* configuration file and a proof that match the profile about to be published.
FinalFence(k) ==
  /\ Owned /\ child.gen = k.gen
  /\ desired = k.st
  /\ PolicyVisible /\ nft = k.fp
  /\ \E p \in proof : confFile["core"] = p.config
  /\ ProofValid(k.st)

Final(c) ==
  /\ At(c, "final")
  /\ Advance(c, IF FinalFence(ctl[c]) THEN Pop(ctl[c]) ELSE Raise(ctl[c]))
  /\ UNCHANGED <<desired, kernel, files, sup, child, init, procd, pending,
                 budget, ghosts>>

Receipt(c) ==
  /\ At(c, "receipt")
  /\ receipt' = {[gen |-> ctl[c].gen, ident |-> ctl[c].st, fp |-> ctl[c].fp]}
  /\ Advance(c, Pop(ctl[c]))
  /\ UNCHANGED <<desired, kernel, confFile, proof, status, probeLock, sup,
                 child, init, procd, pending, budget, ghosts>>

Unexpected(k) == Active(k.st) /\ k.reason # "runtime_stopped"

StatusOf(k) ==
  CASE k.cmd = "prepare" ->
         Status("connecting", Native(k.st) \/ k.st.kill, NoServer)
    [] k.cmd = "connect" -> Status("connected", TRUE, k.st.active)
    [] k.cmd = "block"   -> Status("blocked", TRUE, NoServer)
    [] k.cmd = "cleanup" -> Status("disconnected", FALSE, NoServer)
    [] k.cmd = "handler" -> Status("error", FALSE, NoServer)
    [] k.cmd = "down" ->
         IF CoreLoss(k) THEN Status("error", TRUE, NoServer)
         ELSE IF k.st.kill
         THEN Status(IF Unexpected(k) THEN "error" ELSE "blocked", TRUE, NoServer)
         ELSE Status(IF Unexpected(k) THEN "error" ELSE "disconnected", FALSE,
                     NoServer)

WriteStatus(c) ==
  /\ At(c, "status")
  /\ status' = StatusOf(ctl[c])
  /\ Advance(c, Pop(ctl[c]))
  /\ UNCHANGED <<desired, kernel, confFile, proof, receipt, probeLock, sup,
                 child, init, procd, pending, budget, ghosts>>

\* A step that fails.  Where the route step fails, the rule may be gone already,
\* or all of it be done and only the dnsmasq helper after it have failed.
Fallible(k) ==
  \/ Head(k.steps) \in {"routes", "proofroutes", "verify", "prove", "receipt",
                        "status"}
  \/ Head(k.steps) = "nft" /\ ~Deletes(k)
  \/ Head(k.steps) = "files" /\ k.cmd = "prepare"

Fail(c) ==
  /\ budget.failures > 0
  /\ Busy(c) /\ Fallible(ctl[c])
  /\ budget' = [budget EXCEPT !.failures = @ - 1]
  /\ route' \in IF At(c, "routes")
                THEN {route, "none"} \union
                     IF ctl[c].cmd = "connect" /\ ~child.tun THEN {}
                     ELSE {RouteOf(ctl[c])}
                ELSE {route}
  /\ Advance(c, Raise(ctl[c]))
  /\ Release(c)
  /\ UNCHANGED <<desired, nft, proofRoute, confFile, proof, receipt, status,
                 sup, child, init, procd, pending, ghosts>>

\* Nobody waits for an orphan or for a phone's background probe.
Collect(c) ==
  /\ c \in {"orphan", "phone"} /\ Finished(c)
  /\ Advance(c, NoCommand)
  /\ UNCHANGED <<desired, kernel, files, sup, child, init, procd, pending,
                 budget, ghosts>>

Controller(c) ==
  \/ Read(c) \/ PolicyTable(c) \/ PolicyRoutes(c) \/ ProofRoutes(c)
  \/ Files(c) \/ Mark(c) \/ Check(c) \/ Prove(c) \/ Verify(c) \/ Final(c)
  \/ Receipt(c) \/ WriteStatus(c) \/ Collect(c)

------------------------------------------------------------------------------
(* The tunnel process *)

NoChild == [alive |-> FALSE, tun |-> FALSE, gen |-> 0, config |-> NoConfig,
            engine |-> "hysteria"]

\* Its device goes with it, and the routes through the device.
Dead(ch) == [ch EXCEPT !.alive = FALSE, !.tun = FALSE]
LoseDevice ==
  /\ route' = IF child.tun /\ route = "tun" THEN "none" ELSE route
  /\ proofRoute' = (proofRoute /\ ~child.tun)

ChildUp ==
  /\ child.alive /\ ~child.tun
  /\ child' = [child EXCEPT !.tun = TRUE]
  /\ UNCHANGED <<desired, kernel, files, ctl, sup, init, procd, pending, budget,
                 ghosts>>

ChildDies ==
  /\ budget.crashes > 0
  /\ child.alive
  /\ budget' = [budget EXCEPT !.crashes = @ - 1]
  /\ child' = Dead(child)
  /\ LoseDevice
  /\ UNCHANGED <<desired, nft, files, ctl, sup, init, procd, pending, ghosts>>

------------------------------------------------------------------------------
(* The supervisor script *)

KillChild_Never == UNCHANGED <<child, route, proofRoute>>
TrapDue_BeforeRun == /\ sup.term /\ ~sup.stopping
                     /\ sup.pc \notin {"mode", "off", "reap", "down", "run"}

\* kill "$child": only a process this shell started.
KillChild ==
  IF sup.mine THEN child' = Dead(child) /\ LoseDevice
              ELSE UNCHANGED <<child, route, proofRoute>>

NoSup == [pc |-> "absent", reason |-> "tunnel_start_failed", stopping |-> FALSE,
          term |-> FALSE, engine |-> "hysteria", mine |-> FALSE]

\* Where TERM still (or again) has its default effect: before the traps are
\* installed and once finish_runtime has removed them.
Untrapped == {"mode", "off", "reap", "down"}

\* The trap runs as soon as the foreground command has returned.
TrapDue == sup.term /\ ~sup.stopping /\ sup.pc \notin Untrapped
Dying   == sup.term /\ ~sup.stopping /\ sup.pc \in Untrapped

Sup(pc) == [sup EXCEPT !.pc = pc]
Exit(why) == [sup EXCEPT !.pc = "exit", !.reason = why]
Start(name, why) == ctl' = [ctl EXCEPT !["sup"] = Command(name, why)]
Returned(pc) == sup.pc = pc /\ Finished("sup") /\ ~TrapDue
Here(pc)     == sup.pc = pc /\ Idle("sup") /\ ~TrapDue
ReadsOnly    == UNCHANGED <<desired, kernel, files, child, init, procd, pending,
                            budget, ghosts>>

Trap ==
  /\ TrapDue /\ sup.pc # "absent" /\ ~Busy("sup")
  /\ sup' = [sup EXCEPT !.stopping = TRUE, !.reason = "runtime_stopped"]
  /\ KillChild
  /\ UNCHANGED <<desired, nft, files, ctl, init, procd, pending, budget, ghosts>>

SupMode ==
  /\ Here("mode") /\ ~Dying
  /\ CASE Mode(desired) = "off" -> sup' = Sup("off") /\ Start("cleanup", "none")
       [] Mode(desired) = "block" -> sup' = Sup("block") /\ Start("block", "none")
       [] Mode(desired) = "tunnel" ->
            sup' = Sup("prepare") /\ Start("prepare", "none")
  /\ ReadsOnly

SupOff ==
  /\ Returned("off")
  /\ sup' = NoSup /\ Advance("sup", NoCommand)
  /\ ReadsOnly

SupBlock ==
  /\ Returned("block")
  /\ sup' = Sup(IF ctl["sup"].ok THEN "waitblock" ELSE "exit")
  /\ Advance("sup", NoCommand)
  /\ ReadsOnly

SupWaitBlock ==
  /\ Here("waitblock") /\ sup.stopping
  /\ sup' = Sup("exit")
  /\ UNCHANGED ctl /\ ReadsOnly

SupPrepare ==
  /\ Returned("prepare")
  /\ sup' = Sup(IF ctl["sup"].ok /\ ~sup.stopping THEN "engine" ELSE "exit")
  /\ Advance("sup", NoCommand)
  /\ ReadsOnly

\* engine and binary each read state.json again.
SupEngine ==
  /\ Here("engine")
  /\ sup' = [sup EXCEPT !.engine = Engine(desired),
                        !.pc = IF Native(desired) THEN "binary" ELSE "launch"]
  /\ UNCHANGED ctl /\ ReadsOnly

SupBinary ==
  /\ Here("binary")
  /\ sup' = Sup(IF Active(desired) THEN "launch" ELSE "exit")
  /\ UNCHANGED ctl /\ ReadsOnly

\* A second process cannot have foxhole0 while an orphaned one holds it.
SupLaunch ==
  /\ Here("launch")
  /\ sup' = [sup EXCEPT !.pc = "waittun", !.mine = ~child.alive]
  /\ IF child.alive THEN UNCHANGED <<child, launched>>
     ELSE /\ child' = [alive |-> confFile[sup.engine] # NoConfig, tun |-> FALSE,
                       gen |-> Len(launched) + 1,
                       config |-> confFile[sup.engine], engine |-> sup.engine]
          /\ launched' = Append(launched, confFile[sup.engine])
  /\ UNCHANGED <<desired, kernel, files, ctl, init, procd, pending, budget,
                 armed, sealed>>

ChildGone == ~sup.mine \/ ~child.alive

SupWaitTun ==
  /\ Here("waittun")
  /\ \/ /\ sup.stopping
        /\ sup' = Sup("exit") /\ UNCHANGED <<ctl, budget>>
     \/ /\ ~sup.stopping /\ ChildGone
        /\ sup' = Exit("tunnel_start_failed") /\ UNCHANGED <<ctl, budget>>
     \/ /\ ~sup.stopping /\ ~ChildGone /\ child.tun
        /\ IF sup.engine = "core"
           THEN sup' = Sup("proofroutes") /\ Start("proofroutes", "none")
           ELSE sup' = Sup("probing") /\ UNCHANGED ctl
        /\ UNCHANGED budget
     \/ /\ ~sup.stopping /\ ~ChildGone /\ budget.failures > 0
        /\ budget' = [budget EXCEPT !.failures = @ - 1]
        /\ sup' = Exit("tunnel_start_failed") /\ UNCHANGED ctl
  /\ UNCHANGED <<desired, kernel, files, child, init, procd, pending, ghosts>>

SupProofRoutes ==
  /\ Returned("proofroutes")
  /\ sup' = Sup(IF ctl["sup"].ok THEN "probing" ELSE "exit")
  /\ Advance("sup", NoCommand)
  /\ ReadsOnly

SupProbing ==
  /\ Here("probing")
  /\ IF sup.stopping THEN sup' = Sup("exit") /\ UNCHANGED ctl
     ELSE IF ChildGone THEN sup' = Exit("tunnel_start_failed") /\ UNCHANGED ctl
     ELSE sup' = Sup("probe") /\ Start("probe", "none")
  /\ ReadsOnly

\* A core probe is tried once, a Hysteria one up to ten times.
SupProbe ==
  /\ Returned("probe")
  /\ \/ /\ ctl["sup"].ok
        /\ sup' = Sup("connect") /\ Start("connect", "none")
     \/ /\ ~ctl["sup"].ok
        /\ sup' = Exit("tunnel_start_failed") /\ Advance("sup", NoCommand)
     \/ /\ ~ctl["sup"].ok /\ sup.engine # "core"
        /\ sup' = Sup("probing") /\ Advance("sup", NoCommand)
  /\ ReadsOnly

SupConnect ==
  /\ Returned("connect")
  /\ sup' = IF ~ctl["sup"].ok THEN Exit("policy_apply_failed")
            ELSE Sup(IF sup.engine = "core" THEN "bridge" ELSE "run")
  /\ Advance("sup", NoCommand)
  /\ ReadsOnly

\* The bridge is looked at once, a second after it was started.
SupBridge ==
  /\ Here("bridge")
  /\ \/ sup' = Sup("run") /\ UNCHANGED budget
     \/ /\ budget.failures > 0
        /\ budget' = [budget EXCEPT !.failures = @ - 1]
        /\ sup' = Exit("tunnel_start_failed")
  /\ UNCHANGED <<desired, kernel, files, ctl, child, init, procd, pending,
                 ghosts>>

SupRun ==
  /\ Here("run")
  /\ \/ sup.stopping /\ sup' = Sup("exit")
     \/ ~sup.stopping /\ ChildGone /\ sup' = Exit("tunnel_exited")
  /\ UNCHANGED ctl /\ ReadsOnly

\* finish_runtime: the traps go first, then the children, then down.
SupExit ==
  /\ Here("exit")
  /\ sup' = Sup("reap")
  /\ KillChild
  /\ UNCHANGED <<desired, nft, files, ctl, init, procd, pending, budget, ghosts>>

SupReap ==
  /\ Here("reap") /\ ~Dying
  /\ sup' = Sup("down") /\ Start("down", sup.reason)
  /\ ReadsOnly

\* A TERM handled by stop_runtime does not reach the shell a second time.
SupDown ==
  /\ Returned("down")
  /\ sup' = NoSup /\ Advance("sup", NoCommand)
  /\ ReadsOnly

\* TERM without a trap kills the shell; the command it waits for lives on.
SupDies ==
  /\ Dying
  /\ sup' = NoSup
  /\ IF Busy("sup")
     THEN /\ budget.orphans > 0 /\ Idle("orphan")
          /\ budget' = [budget EXCEPT !.orphans = @ - 1]
          /\ ctl' = [ctl EXCEPT !["orphan"] = ctl["sup"], !["sup"] = NoCommand]
     ELSE ctl' = [ctl EXCEPT !["sup"] = NoCommand] /\ UNCHANGED budget
  /\ UNCHANGED <<desired, kernel, files, child, init, procd, pending, ghosts>>

Supervisor ==
  \/ Trap \/ SupMode \/ SupOff \/ SupBlock \/ SupWaitBlock \/ SupPrepare
  \/ SupEngine \/ SupBinary \/ SupLaunch \/ SupWaitTun \/ SupProofRoutes
  \/ SupProbing \/ SupProbe \/ SupConnect \/ SupBridge \/ SupRun \/ SupExit
  \/ SupReap \/ SupDown \/ SupDies

------------------------------------------------------------------------------
(* procd: one instance; a start asked for while the old one is being stopped
   waits for its exit; SIGKILL follows TERM after term_timeout. *)

Fresh == [NoSup EXCEPT !.pc = "mode"]

ProcdKill ==
  /\ budget.orphans > 0 /\ Idle("orphan")
  /\ sup.term /\ sup.pc # "absent"
  /\ budget' = [budget EXCEPT !.orphans = @ - 1]
  /\ sup' = NoSup
  /\ ctl' = [ctl EXCEPT !["orphan"] = IF Busy("sup") THEN ctl["sup"] ELSE @,
                        !["sup"] = NoCommand]
  /\ probeLock' = IF probeLock = "sup" THEN "orphan" ELSE probeLock
  /\ UNCHANGED <<desired, kernel, confFile, proof, receipt, status, child, init,
                 procd, pending, ghosts>>

RespawnLeft_Endless == TRUE
RespawnLeft == procd.left > 0

ProcdExit ==
  /\ sup.pc = "absent"
  /\ \/ /\ procd.state = "halting" /\ procd.again
        /\ procd' = [state |-> "running", again |-> FALSE, left |-> Respawns]
        /\ sup' = Fresh
     \/ /\ procd.state = "halting" /\ ~procd.again
        /\ procd' = [procd EXCEPT !.state = "idle"] /\ UNCHANGED sup
     \/ /\ procd.state = "running"
        /\ procd' = [procd EXCEPT
             !.state = IF RespawnLeft THEN "respawn" ELSE "gaveup"]
        /\ UNCHANGED sup
     \/ /\ procd.state = "respawn"
        /\ procd' = [procd EXCEPT !.state = "running", !.left = @ - 1]
        /\ sup' = Fresh
  /\ UNCHANGED <<desired, kernel, files, ctl, child, init, pending, budget,
                 ghosts>>

------------------------------------------------------------------------------
(* The init script: restart = stop; start, one at a time *)

InitStop ==
  /\ init = "idle" /\ pending > 0
  /\ pending' = pending - 1
  /\ init' = "recover"
  /\ sup' = [sup EXCEPT !.term = sup.pc # "absent"]
  /\ procd' = [procd EXCEPT !.state = IF sup.pc # "absent" THEN "halting" ELSE "idle",
                            !.again = FALSE]
  /\ armed' = FALSE
  /\ UNCHANGED <<desired, kernel, files, ctl, child, budget, launched, sealed>>

\* restart_runtime records a restart that rc.common reports as failed; a reload
\* trigger, or a failure rc.common swallows, leaves the status as it was.
StartFailed ==
  /\ init' = "idle"
  /\ status' \in {status, Status("error", FALSE, NoServer)}

\* foxhole-backup-recover: 0 goes on, 10 means a restore was stopped halfway,
\* anything else refuses to start.
InitRecover ==
  /\ init = "recover"
  /\ \/ 0 \in RecoveryCodes /\ init' = "mode" /\ UNCHANGED status
     \/ 10 \in RecoveryCodes /\ init' = "stopped" /\ UNCHANGED status
     \/ 1 \in RecoveryCodes /\ StartFailed
  /\ UNCHANGED <<desired, kernel, confFile, proof, receipt, probeLock, ctl, sup,
                 child, procd, pending, budget, ghosts>>

InitRun(name) ==
  /\ init' = "command"
  /\ ctl' = [ctl EXCEPT !["init"] = Command(name, "none")]
  /\ UNCHANGED <<status, sup, procd>>

InitStart ==
  /\ \/ init = "mode" /\ Mode(desired) = "off" /\ InitRun("cleanup")
     \/ /\ init = "mode" /\ Mode(desired) # "off"
        /\ init' = "idle"
        /\ IF procd.state = "halting"
           THEN procd' = [procd EXCEPT !.again = TRUE] /\ UNCHANGED sup
           ELSE /\ procd' = [state |-> "running", again |-> FALSE, left |-> Respawns]
                /\ sup' = Fresh
        /\ UNCHANGED <<status, ctl>>
     \/ init = "stopped" /\ Mode(desired) = "off" /\ InitRun("cleanup")
     \/ init = "stopped" /\ Mode(desired) = "block" /\ InitRun("block")
     \/ /\ init = "stopped" /\ Mode(desired) = "tunnel"
        /\ StartFailed /\ UNCHANGED <<ctl, sup, procd>>
  /\ UNCHANGED <<desired, kernel, confFile, proof, receipt, probeLock, child,
                 pending, budget, ghosts>>

InitReturn ==
  /\ init = "command" /\ Finished("init")
  /\ ctl' = [ctl EXCEPT !["init"] = NoCommand]
  /\ IF ctl["init"].ok THEN init' = "idle" /\ UNCHANGED status ELSE StartFailed
  /\ UNCHANGED <<desired, kernel, confFile, proof, receipt, probeLock, sup,
                 child, procd, pending, budget, ghosts>>

InitScript == InitStop \/ InitRecover \/ InitStart \/ InitReturn

------------------------------------------------------------------------------
(* What comes from outside *)

Asked_ActiveOnly(s) == IF s.active # desired.active THEN pending + 1 ELSE pending
Asked(s) == pending + 1

\* settings, save_server, delete_server, start_server, stop_server: state.json
\* is replaced under the state lock, and the restart that a change of what the
\* runtime reads asks for follows outside it.
Edit(s) ==
  /\ budget.edits > 0
  /\ s # desired
  /\ desired' = s
  /\ pending' = Asked(s)
  /\ budget' = [budget EXCEPT !.edits = @ - 1]
  /\ armed' = FALSE
  /\ sealed' = (sealed /\ s.kill)
  /\ UNCHANGED <<kernel, files, procs, launched>>

Reload ==
  /\ budget.reloads > 0
  /\ pending' = pending + 1
  /\ budget' = [budget EXCEPT !.reloads = @ - 1]
  /\ UNCHANGED <<desired, kernel, files, procs, ghosts>>

\* phone_status starts a probe in the background once the proof has aged.
Poll ==
  /\ budget.polls > 0 /\ Idle("phone")
  /\ Native(desired) /\ Owned
  /\ status.phase = "connected" /\ status.server = desired.active
  /\ PolicyVisible
  /\ [gen |-> child.gen, ident |-> desired, fp |-> nft] \in receipt
  /\ ~ProofValid(desired)
  /\ budget' = [budget EXCEPT !.polls = @ - 1]
  /\ ctl' = [ctl EXCEPT !["phone"] = Command("probe", "none")]
  /\ UNCHANGED <<desired, kernel, files, sup, child, init, procd, pending, ghosts>>

\* 4990 ms pass.
Age ==
  /\ \E p \in proof : p.fresh /\ proof' = {[p EXCEPT !.fresh = FALSE]}
  /\ UNCHANGED <<desired, kernel, confFile, receipt, status, probeLock, procs,
                 pending, budget, ghosts>>

Procd0 == [state |-> "idle", again |-> FALSE, left |-> Respawns]

\* A boot: only state.json is left, and rc.d starts the service.
Reboot ==
  /\ budget.reboots > 0
  /\ budget' = [budget EXCEPT !.reboots = @ - 1]
  /\ nft' = NoTable /\ route' = "none" /\ proofRoute' = FALSE
  /\ confFile' = NoFiles /\ proof' = {} /\ receipt' = {}
  /\ status' = Status("connecting", FALSE, NoServer) /\ probeLock' = "free"
  /\ ctl' = [c \in Owners |-> NoCommand]
  /\ sup' = NoSup /\ child' = NoChild /\ init' = "idle" /\ procd' = Procd0
  /\ pending' = 1
  /\ armed' = FALSE /\ sealed' = FALSE
  /\ UNCHANGED <<desired, launched>>

Init ==
  /\ desired \in Desired
  /\ nft = NoTable /\ route = "none" /\ proofRoute = FALSE
  /\ confFile = NoFiles /\ proof = {} /\ receipt = {}
  /\ status = Status("connecting", FALSE, NoServer) /\ probeLock = "free"
  /\ ctl = [c \in Owners |-> NoCommand]
  /\ sup = NoSup /\ child = NoChild /\ init = "idle" /\ procd = Procd0
  /\ pending = 1
  /\ armed = FALSE /\ sealed = FALSE
  /\ budget = [edits |-> MaxEdits, reloads |-> MaxReloads, crashes |-> MaxCrashes,
               failures |-> MaxFailures, orphans |-> MaxOrphans, polls |-> MaxPolls,
               reboots |-> MaxReboots]
  /\ launched = <<>>

System ==
  \/ \E c \in Owners : Controller(c)
  \/ ChildUp \/ Supervisor \/ ProcdExit \/ InitScript

Environment ==
  \/ \E s \in Desired : Edit(s)
  \/ \E c \in Owners : Fail(c)
  \/ Reload \/ Poll \/ Age \/ ChildDies \/ ProcdKill \/ Reboot

Next == System \/ Environment

Spec == Init /\ [][Next]_vars

\* Each process of the router gets to run: commands are bounded by their own
\* timeouts, procd and the shell are scheduled.  Nothing is assumed of the
\* environment, whose disturbances the budget bounds.
Fairness ==
  /\ \A c \in Owners : WF_vars(Controller(c))
  /\ WF_vars(ChildUp) /\ WF_vars(Supervisor) /\ WF_vars(ProcdExit)
  /\ WF_vars(InitScript)

FairSpec == Spec /\ Fairness

------------------------------------------------------------------------------
(* Properties *)

Steps == {"read", "nft", "routes", "proofroutes", "files", "mark", "check",
          "prove", "verify", "final", "receipt", "status"}
Reasons == {"none", "tunnel_start_failed", "policy_apply_failed",
            "tunnel_exited", "runtime_stopped"}
Phases  == {"connecting", "connected", "blocked", "disconnected", "error"}
Engines == {"core", "hysteria"}
SupPcs  == {"absent", "mode", "off", "block", "waitblock", "prepare", "engine",
            "binary", "launch", "waittun", "proofroutes", "probing", "probe",
            "connect", "bridge", "run", "exit", "reap", "down"}
Budgets == {"edits", "reloads", "crashes", "failures", "orphans", "polls", "reboots"}

AnyServer == Servers \union {NoServer}
AnyConfig == Configs \union {NoConfig}
Tables    == [mode : {"none", "bootstrap", "normal"}, rules : Rules \union {NoConfig}]
Proofs    == [gen : Nat, server : AnyServer, config : Configs, fresh : BOOLEAN]
Receipts  == [gen : Nat, ident : Desired, fp : Tables]
Statuses  == [phase : Phases, enforced : BOOLEAN, server : AnyServer]
\* What probe and prepare-proof do; every other command reads state.json first.
ProbeSteps   == {"check", "prove", "proofroutes"}
ReadCommands == {"prepare", "connect", "block", "cleanup", "down", "handler"}
CommandNames == {"none", "probe", "proofroutes"} \union ReadCommands
Commands  ==
  {k \in [cmd : CommandNames, steps : Seq(Steps), st : Desired, pst : Desired,
          gen : Nat, fp : Tables, reason : Reasons, ok : BOOLEAN] :
     k.cmd \notin ReadCommands => k.steps \in Seq(ProbeSteps)}
Sups      == [pc : SupPcs, reason : Reasons, stopping : BOOLEAN, term : BOOLEAN,
              engine : Engines, mine : BOOLEAN]
Children  == [alive : BOOLEAN, tun : BOOLEAN, gen : Nat, config : AnyConfig,
              engine : Engines]
Procds    == [state : {"idle", "running", "halting", "respawn", "gaveup"},
              again : BOOLEAN, left : Nat]

KernelOK == nft \in Tables /\ route \in {"none", "prohibit", "tun"}
            /\ proofRoute \in BOOLEAN
FilesOK  == /\ confFile \in [Engines -> AnyConfig]
            /\ proof \subseteq Proofs /\ \A p, q \in proof : p = q
            /\ receipt \subseteq Receipts /\ \A p, q \in receipt : p = q
            /\ status \in Statuses /\ probeLock \in Owners \union {"free"}
ProcsOK  == /\ ctl \in [Owners -> Commands] /\ sup \in Sups /\ child \in Children
            /\ init \in {"idle", "recover", "mode", "stopped", "command"}
            /\ procd \in Procds /\ pending \in Nat
GhostsOK == /\ budget \in [Budgets -> Nat] /\ launched \in Seq(AnyConfig)
            /\ armed \in BOOLEAN /\ sealed \in BOOLEAN

\* Every variable holds values of the kind the files, the kernel and the
\* processes can have; at most one proof and one receipt exist, and procd's
\* respawns and the budgets do not go below zero.
TypeOK == desired \in Desired /\ KernelOK /\ FilesOK /\ ProcsOK /\ GhostsOK

\* What a LAN packet that is to go through the VPN meets: without the table it
\* leaves unmarked by the default route.  The table drops what is marked and
\* does not leave through foxhole0, and in bootstrap mode all of it.
Open == nft.mode = "none"

\* foxhole-supervisor and foxhole-runtime down(): once a supervisor has closed
\* the egress for a core profile, no loss, failure, respawn or half-done command
\* opens it again until the owner changes the state or the service is restarted.
CoreLossStaysClosed == armed => ~Open

\* down() and apply() with the kill switch: once the policy of a state with the
\* kill switch is installed and its restart is through, nothing opens the egress
\* until the owner turns the switch off, restarts and reloads included.
KillSwitchStaysClosed == sealed => ~Open

\* apply connected of a core profile: a receipt names a generation that was started
\* with the configuration of the state it records, behind an installed table, and
\* while that generation runs under a supervisor nobody has told to stop, the table
\* it recorded has that state's rules, whatever was edited while the command ran and
\* whatever another command wrote meanwhile.  (Once TERM is sent, the init script's
\* block may replace the table the dying supervisor's command is about to hash.)
ReceiptIsSound ==
  \A r \in receipt :
    /\ Native(r.ident)
    /\ r.gen \in 1 .. Len(launched) /\ launched[r.gen] = r.ident.config
    /\ r.fp.mode # "none"
    /\ (child.alive /\ r.gen = child.gen /\ ~sup.term) => r.fp.rules = r.ident.rules

\* When every restart is through and the supervisor waits for a live tunnel,
\* status, policy, route and tunnel are those of the state the owner last saved,
\* although each was produced by a process that read state.json on its own.
RunningIsDesired ==
  (Settled /\ sup.pc = "run" /\ ~sup.term /\ child.alive) =>
    /\ status = Status("connected", TRUE, desired.active)
    /\ child.config = desired.config /\ child.engine = Engine(desired)
    /\ nft = [mode |-> "normal", rules |-> desired.rules]
    /\ route = "tun"

Quiet == Settled /\ sup.pc = "absent" /\ procd.state = "idle"
               /\ \A c \in Owners : Idle(c)

\* stop_server and finish_runtime: when a stop is through, no tunnel runs and no
\* status claims one; a status that reports success left no credential file.
StoppedIsStopped ==
  (Quiet /\ ~Active(desired)) =>
    /\ ~child.alive /\ status.phase # "connected"
    /\ status.phase = "disconnected" => confFile = NoFiles

\* ARCHITECTURE.md: exit "applies the configured block/off policy".  When a stop
\* is through and the configured mode is off, no policy is left behind.
OffLeavesNoPolicy ==
  (Quiet /\ Mode(desired) = "off") => Open

\* apply connected: unless a restart is already replacing it, the step that
\* publishes a core profile as connected finds the receipt of the running
\* generation, of the state as it is now and of a policy with that state's rules,
\* although nothing is locked between the checks and the status.  (The policy may
\* be bootstrap: kernel_policy() hashes the chains it finds.)
PublishedWithReceipt ==
  [][status'.phase = "connected" /\ status.phase # "connected"
       /\ Native(desired) /\ Settled /\ ~sup.term
     => \E r \in receipt : /\ r.ident = desired /\ r.gen = Len(launched)
                             /\ r.fp.rules = desired.rules]_vars

\* Stop takes effect: once no profile is wanted, the tunnel ends and the status
\* stops claiming it, whatever the supervisor was doing.
StopTakesEffect ==
  ~Active(desired) ~> (Active(desired) \/ (~child.alive /\ status.phase # "connected"))

\* The service settles: with finitely many disturbances every restart gets
\* through, and it ends waiting for a tunnel or in block that nobody asked it to
\* leave, off, or given up by procd after its retries.
Settles ==
  <>[](Settled /\ \/ sup.pc \in {"run", "waitblock"} /\ ~sup.term
                  \/ sup.pc = "absent" /\ procd.state \in {"idle", "gaveup"})

==============================================================================
