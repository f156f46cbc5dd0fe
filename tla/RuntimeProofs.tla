--------------------------- MODULE RuntimeProofs ---------------------------
(* Proofs about the tunnel runtime, for every value of the constants. *)
EXTENDS Runtime, TLAPS, SequenceTheorems

(* What the operators return. *)

\* The fields of a state.json the model can hold.
LEMMA DesiredFields ==
  ASSUME NEW s \in Desired
  PROVE  /\ s.active \in AnyServer /\ s.config \in Configs /\ s.rules \in Rules
         /\ s.kill \in BOOLEAN
         /\ AnyState \in Desired
BY RuntimeAssumption DEF DesiredRecord, AnyServer, Configs, Rules, AnyState

\* An owner that runs nothing is described by a well-typed record.
LEMMA NoCommandType == NoCommand \in Commands
<1>1. <<>> \in Seq(Steps) /\ <<>> \in Seq(ProbeSteps)
  OBVIOUS
<1>2. AnyState \in Desired
  BY RuntimeAssumption DEF AnyState
<1>3. NoTable \in Tables
  BY DEF NoTable, Tables
<1> QED BY <1>1, <1>2, <1>3 DEF NoCommand, Commands, CommandNames, Reasons

\* So is a command that was just started: its first steps are known.
LEMMA CommandType ==
  ASSUME NEW name \in CommandNames \ {"none"}, NEW why \in Reasons
  PROVE  Command(name, why) \in Commands
<1>1. /\ <<>> \in Seq(Steps) /\ <<"read">> \in Seq(Steps)
      /\ <<"proofroutes">> \in Seq(Steps) /\ <<"check", "prove">> \in Seq(Steps)
  BY DEF Steps
<1>2. /\ <<>> \in Seq(ProbeSteps) /\ <<"proofroutes">> \in Seq(ProbeSteps)
      /\ <<"check", "prove">> \in Seq(ProbeSteps)
  BY DEF ProbeSteps
<1>3. AnyState \in Desired
  BY RuntimeAssumption DEF AnyState
<1>4. NoTable \in Tables
  BY DEF NoTable, Tables
<1>5. name \in ReadCommands \/ name \in {"probe", "proofroutes"}
  BY DEF CommandNames
<1> QED
  <2>1. CASE name \in ReadCommands
    BY <1>1, <1>3, <1>4, <2>1 DEF Command, NoCommand, Commands, CommandNames, ReadCommands
  <2>2. CASE name = "probe"
    BY <1>1, <1>2, <1>3, <1>4, <2>2 DEF Command, NoCommand, Commands, CommandNames
  <2>3. CASE name = "proofroutes"
    BY <1>1, <1>2, <1>3, <1>4, <2>3 DEF Command, NoCommand, Commands, CommandNames
  <2> QED BY <1>5, <2>1, <2>2, <2>3

\* The catch block turns a command into a command.
LEMMA RaiseType ==
  ASSUME NEW k \in Commands
  PROVE  Raise(k) \in Commands
<1>1. <<>> \in Seq(Steps) /\ <<"read">> \in Seq(Steps) /\ <<>> \in Seq(ProbeSteps)
  BY DEF Steps
<1>2. CASE k.cmd \in {"probe", "handler"}
  BY <1>1, <1>2 DEF Raise, Commands
<1>3. CASE k.cmd \notin {"probe", "handler"}
  <2>1. "handler" \in CommandNames /\ "handler" \in ReadCommands
    BY DEF CommandNames, ReadCommands
  <2>2. Raise(k) = [k EXCEPT !.cmd = "handler", !.steps = <<"read">>, !.ok = FALSE]
    BY <1>3 DEF Raise
  <2> QED BY <1>1, <2>1, <2>2 DEF Commands
<1> QED BY <1>2, <1>3

\* A command that has done one step is still a command.
LEMMA PopType ==
  ASSUME NEW k \in Commands, k.steps # <<>>
  PROVE  /\ Pop(k) \in Commands
         /\ Pop(k).cmd = k.cmd /\ Pop(k).st = k.st /\ Pop(k).reason = k.reason
         /\ Pop(k).steps = Tail(k.steps)
<1>1. k.steps \in Seq(Steps) /\ Tail(k.steps) \in Seq(Steps)
  BY HeadTailProperties DEF Commands
<1>2. k.cmd \notin ReadCommands => Tail(k.steps) \in Seq(ProbeSteps)
  BY HeadTailProperties DEF Commands
<1> QED BY <1>1, <1>2 DEF Pop, Commands

\* Only a command that reads state.json reads it, writes policy or status.
LEMMA HeadType ==
  ASSUME NEW k \in Commands, k.steps # <<>>
  PROVE  /\ Head(k.steps) \in Steps
         /\ Head(k.steps) \notin ProbeSteps => k.cmd \in ReadCommands
BY HeadTailProperties DEF Commands

\* What Plan returns for a command that reads state.json is a list of steps.
LEMMA PlanType ==
  ASSUME NEW k \in Commands, k.cmd \in ReadCommands
  PROVE  Plan(k) \in Seq(Steps)
<1>1. Publish \in Seq(Steps)
  BY DEF Publish, Steps
<1>2. <<"nft", "routes", "verify", "check", "prove", "final">> \in Seq(Steps)
  BY DEF Steps
<1>3. <<"nft", "routes", "verify", "check", "prove", "final">> \o Publish
        \in Seq(Steps)
  BY <1>1, <1>2, ConcatProperties
<1>4. /\ <<"status">> \in Seq(Steps)
      /\ <<"files", "status">> \in Seq(Steps)
      /\ <<"nft", "routes", "status">> \in Seq(Steps)
      /\ <<"nft", "routes", "files", "status">> \in Seq(Steps)
      /\ <<"files", "nft", "routes", "status">> \in Seq(Steps)
      /\ <<"files", "mark", "nft", "routes", "status">> \in Seq(Steps)
  BY DEF Steps
<1>5. CASE k.cmd \in {"prepare", "connect", "block"}
  BY <1>3, <1>4, <1>5 DEF Plan
<1>6. CASE k.cmd \in {"cleanup", "down", "handler"}
  BY <1>4, <1>6 DEF Plan
<1> QED BY <1>5, <1>6 DEF ReadCommands

------------------------------------------------------------------------------
(* Types *)

\* Every status a command writes is a status.
LEMMA StatusType ==
  ASSUME NEW k \in Commands, k.cmd \in ReadCommands
  PROVE  StatusOf(k) \in Statuses
<1>1. k.st \in Desired /\ k.reason \in Reasons
  BY DEF Commands
<1>2. k.st.active \in AnyServer /\ k.st.kill \in BOOLEAN /\ NoServer \in AnyServer
  BY <1>1, DesiredFields DEF AnyServer
<1>3. Native(k.st) \in BOOLEAN /\ Unexpected(k) \in BOOLEAN
  BY DEF Native, Unexpected
<1> QED BY <1>1, <1>2, <1>3 DEF StatusOf, Statuses, Status, Phases, ReadCommands

\* Every table a command installs is a table.
LEMMA TableType ==
  ASSUME NEW k \in Commands
  PROVE  TableOf(k) \in Tables /\ NoTable \in Tables
BY DesiredFields DEF TableOf, Tables, NoTable, Commands

\* Replacing one owner's command keeps the table of commands well typed.
LEMMA AdvanceType ==
  ASSUME ctl \in [Owners -> Commands], NEW c \in Owners, NEW k \in Commands,
         Advance(c, k)
  PROVE  ctl' \in [Owners -> Commands]
BY DEF Advance

\* What the command of an owner that is at a step is, and becomes.
LEMMA AtType ==
  ASSUME TypeOK, NEW c \in Owners, Busy(c)
  PROVE  /\ ctl[c] \in Commands /\ ctl[c].steps # <<>>
         /\ Pop(ctl[c]) \in Commands /\ Raise(ctl[c]) \in Commands
<1>1. ctl[c] \in Commands /\ ctl[c].steps # <<>>
  BY DEF TypeOK, ProcsOK, Busy
<1> QED BY <1>1, PopType, RaiseType

\* Each step of a controller command keeps TypeOK.
LEMMA ControllerTypes ==
  ASSUME TypeOK, NEW c \in Owners, Controller(c)
  PROVE  TypeOK'
<1> USE DEF TypeOK, KernelOK, FilesOK, ProcsOK, GhostsOK, kernel, files, procs, ghosts
<1>1. CASE Read(c)
  <2>1. Busy(c) /\ Head(ctl[c].steps) = "read"
    BY <1>1 DEF Read, At
  <2>2. ctl[c] \in Commands /\ ctl[c].cmd \in ReadCommands
    BY <2>1, AtType, HeadType DEF ProbeSteps
  <2> DEFINE k == [ctl[c] EXCEPT !.st = desired]
             g == IF k.cmd = "connect" /\ Native(k.st) THEN child.gen ELSE 0
             n == [k EXCEPT !.steps = Plan(k), !.gen = g]
  <2>3. k \in Commands /\ k.cmd = ctl[c].cmd
    BY <2>2 DEF Commands
  <2>4. g \in Nat
    BY DEF Children
  <2>5. Plan(k) \in Seq(Steps)
    BY <2>2, <2>3, PlanType
  <2> HIDE DEF k
  <2>6. n \in Commands /\ Raise(k) \in Commands
    <3> HIDE DEF g
    <3> QED BY <2>2, <2>3, <2>4, <2>5, RaiseType DEF Commands
  <2> HIDE DEF n
  <2>7. Advance(c, n) \/ Advance(c, Raise(k))
    BY <1>1 DEF Read, k, n
  <2>8. ctl' \in [Owners -> Commands]
    BY <2>6, <2>7, AdvanceType
  <2> QED BY <1>1, <2>8 DEF Read
<1>2. CASE PolicyTable(c)
  <2>1. Busy(c)
    BY <1>2 DEF PolicyTable, At
  <2>2. ctl' \in [Owners -> Commands]
    BY <1>2, <2>1, AtType, AdvanceType DEF PolicyTable
  <2>3. nft' \in Tables
    BY <1>2, <2>1, AtType, TableType DEF PolicyTable
  <2>4. armed' \in BOOLEAN /\ sealed' \in BOOLEAN
    BY <1>2 DEF PolicyTable
  <2> QED BY <1>2, <2>2, <2>3, <2>4 DEF PolicyTable
<1>3. CASE PolicyRoutes(c)
  <2>1. Busy(c)
    BY <1>3 DEF PolicyRoutes, At
  <2>2. ctl' \in [Owners -> Commands]
    BY <1>3, <2>1, AtType, AdvanceType DEF PolicyRoutes
  <2>3. route' \in {"none", "prohibit", "tun"} /\ proofRoute' \in BOOLEAN
    BY <1>3 DEF PolicyRoutes, RouteOf
  <2> QED BY <1>3, <2>2, <2>3 DEF PolicyRoutes
<1>4. CASE ProofRoutes(c)
  <2>1. Busy(c)
    BY <1>4 DEF ProofRoutes, At
  <2>2. ctl' \in [Owners -> Commands]
    BY <1>4, <2>1, AtType, AdvanceType DEF ProofRoutes
  <2> QED BY <1>4, <2>2 DEF ProofRoutes
<1>5. CASE Files(c)
  <2>1. Busy(c)
    BY <1>5 DEF Files, At
  <2>2. ctl' \in [Owners -> Commands]
    BY <1>5, <2>1, AtType, AdvanceType DEF Files
  <2>3. ctl[c].st \in Desired /\ Engine(ctl[c].st) \in Engines
    BY <2>1, AtType DEF Commands, Engine, Engines
  <2>4. ctl[c].st.config \in AnyConfig /\ NoFiles \in [Engines -> AnyConfig]
    BY <2>3, DesiredFields DEF AnyConfig, NoFiles, Engines
  <2>5. CASE ctl[c].cmd = "prepare"
    <3>1. confFile' \in [Engines -> AnyConfig]
      BY <1>5, <2>3, <2>4, <2>5 DEF Files
    <3>2. proof' \subseteq proof /\ receipt' = receipt
      BY <1>5, <2>5 DEF Files
    <3> QED BY <1>5, <2>2, <3>1, <3>2 DEF Files
  <2>6. CASE ctl[c].cmd # "prepare"
    BY <1>5, <2>2, <2>4, <2>6 DEF Files, CleanupSecret
  <2> QED BY <2>5, <2>6
<1>6. CASE Mark(c)
  <2>1. Busy(c)
    BY <1>6 DEF Mark, At
  <2>2. ctl' \in [Owners -> Commands]
    BY <1>6, <2>1, AtType, AdvanceType DEF Mark
  <2>3. status' \in Statuses
    BY <1>6 DEF Mark, Status, Statuses, Phases, AnyServer
  <2> QED BY <1>6, <2>2, <2>3 DEF Mark
<1>7. CASE Check(c)
  <2>1. Busy(c) /\ ctl[c].steps # <<>> /\ ctl[c] \in Commands
    BY <1>7, AtType DEF Check, At
  <2> DEFINE k == [ctl[c] EXCEPT !.pst = desired]
  <2>2. k \in Commands /\ k.steps # <<>>
    BY <2>1 DEF Commands
  <2> HIDE DEF k
  <2>3. Pop(k) \in Commands /\ Raise(k) \in Commands
    BY <2>2, PopType, RaiseType
  <2>4. Advance(c, Pop(k)) \/ Advance(c, Raise(k))
    BY <1>7 DEF Check, k
  <2>5. ctl' \in [Owners -> Commands]
    BY <2>3, <2>4, AdvanceType
  <2>6. probeLock' \in Owners \union {"free"}
    BY <1>7 DEF Check
  <2> QED BY <1>7, <2>5, <2>6 DEF Check
<1>8. CASE Prove(c)
  <2>1. Busy(c)
    BY <1>8 DEF Prove, At
  <2>2. ctl' \in [Owners -> Commands]
    BY <1>8, <2>1, AtType, AdvanceType DEF Prove
  <2>3. ctl[c].pst \in Desired
    BY <2>1, AtType DEF Commands
  <2>4. proof' \subseteq Proofs /\ \A p, q \in proof' : p = q
    <3>1. CASE UNCHANGED proof
      BY <3>1
    <3>2. CASE proof' = {[gen |-> child.gen, server |-> ctl[c].pst.active,
                          config |-> ctl[c].pst.config, fresh |-> TRUE]}
      BY <2>3, <3>2, DesiredFields DEF Proofs, Children
    <3> QED BY <1>8, <3>1, <3>2 DEF Prove
  <2>5. probeLock' \in Owners \union {"free"}
    BY <1>8 DEF Prove, Release
  <2> QED BY <1>8, <2>2, <2>4, <2>5 DEF Prove
<1>9. CASE Verify(c)
  <2>1. Busy(c)
    BY <1>9 DEF Verify, At
  <2>2. [Pop(ctl[c]) EXCEPT !.fp = nft] \in Commands
    BY <2>1, AtType DEF Commands
  <2>3. ctl' \in [Owners -> Commands]
    BY <1>9, <2>1, <2>2, AtType, AdvanceType DEF Verify
  <2> QED BY <1>9, <2>3 DEF Verify
<1>10. CASE Final(c)
  <2>1. Busy(c)
    BY <1>10 DEF Final, At
  <2>2. ctl' \in [Owners -> Commands]
    BY <1>10, <2>1, AtType, AdvanceType DEF Final
  <2> QED BY <1>10, <2>2 DEF Final
<1>11. CASE Receipt(c)
  <2>1. Busy(c)
    BY <1>11 DEF Receipt, At
  <2>2. ctl' \in [Owners -> Commands]
    BY <1>11, <2>1, AtType, AdvanceType DEF Receipt
  <2>3. receipt' \subseteq Receipts /\ \A r, q \in receipt' : r = q
    BY <1>11, <2>1, AtType DEF Receipt, Receipts, Commands
  <2> QED BY <1>11, <2>2, <2>3 DEF Receipt
<1>12. CASE WriteStatus(c)
  <2>1. Busy(c)
    BY <1>12 DEF WriteStatus, At
  <2>2. ctl' \in [Owners -> Commands]
    BY <1>12, <2>1, AtType, AdvanceType DEF WriteStatus
  <2>3. Head(ctl[c].steps) = "status"
    BY <1>12 DEF WriteStatus, At
  <2>4. status' \in Statuses
    BY <1>12, <2>1, <2>3, AtType, HeadType, StatusType DEF WriteStatus, ProbeSteps
  <2> QED BY <1>12, <2>2, <2>4 DEF WriteStatus
<1>13. CASE Collect(c)
  <2>1. NoCommand \in Commands
    BY NoCommandType
  <2>2. ctl' \in [Owners -> Commands]
    BY <1>13, <2>1, AdvanceType DEF Collect
  <2> QED BY <1>13, <2>2 DEF Collect
<1> QED
  BY <1>1, <1>2, <1>3, <1>4, <1>5, <1>6, <1>7, <1>8, <1>9, <1>10, <1>11, <1>12,
     <1>13
  DEF Controller

\* The states the supervisor's helper operators build are supervisor states.
LEMMA SupTypes ==
  ASSUME sup \in Sups, NEW pc \in SupPcs, NEW why \in Reasons
  PROVE  /\ Sup(pc) \in Sups /\ Exit(why) \in Sups
         /\ NoSup \in Sups /\ Fresh \in Sups
<1>1. NoSup \in Sups
  BY DEF NoSup, Sups, SupPcs, Reasons, Engines
<1>2. Fresh \in Sups
  BY <1>1 DEF Fresh, Sups, SupPcs
<1>3. Sup(pc) \in Sups
  BY DEF Sup, Sups
<1>4. Exit(why) \in Sups
  BY DEF Exit, Sups, SupPcs
<1> QED BY <1>1, <1>2, <1>3, <1>4

\* kill "$child" leaves well-typed process, route and proof route.
\* A disturbance spends one of its bound.
LEMMA Spends ==
  ASSUME budget \in [Budgets -> Nat], NEW b \in Budgets, budget[b] > 0,
         budget' = [budget EXCEPT ![b] = budget[b] - 1]
  PROVE  budget' \in [Budgets -> Nat]
<1>1. budget[b] - 1 \in Nat
  OBVIOUS
<1> QED BY <1>1

LEMMA KillChildType ==
  ASSUME TypeOK, KillChild
  PROVE  /\ child' \in Children
         /\ route' \in {"none", "prohibit", "tun"} /\ proofRoute' \in BOOLEAN
BY DEF TypeOK, KernelOK, ProcsOK, KillChild, LoseDevice, Dead, Children

\* Each step of the supervisor script keeps TypeOK.
LEMMA SupervisorTypes ==
  ASSUME TypeOK, Supervisor
  PROVE  TypeOK'
<1> USE DEF TypeOK, KernelOK, FilesOK, ProcsOK, GhostsOK, kernel, files, procs,
            ghosts, ReadsOnly
<1>0. NoCommand \in Commands /\ "sup" \in Owners /\ NoSup \in Sups
  BY NoCommandType, SupTypes DEF Owners, SupPcs, Reasons
<1>c. ASSUME NEW name \in CommandNames \ {"none"}, NEW why \in Reasons,
             Start(name, why)
      PROVE  ctl' \in [Owners -> Commands]
  BY <1>0, <1>c, CommandType DEF Start
<1>n. ASSUME Advance("sup", NoCommand) \/ UNCHANGED ctl
      PROVE  ctl' \in [Owners -> Commands]
  BY <1>0, <1>n, AdvanceType
<1>p. ASSUME NEW pc \in SupPcs, sup' = Sup(pc)
      PROVE  sup' \in Sups
  BY <1>p, SupTypes DEF Reasons
<1>x. ASSUME NEW why \in Reasons, sup' = Exit(why)
      PROVE  sup' \in Sups
  BY <1>x, SupTypes DEF SupPcs
<1>1. CASE Trap
  <2>1. sup' \in Sups
    BY <1>1 DEF Trap, Sups, Reasons
  <2> QED BY <1>1, <2>1, KillChildType DEF Trap
<1>2. CASE SupMode
  <2>1. Mode(desired) \in {"off", "block", "tunnel"}
    BY DEF Mode
  <2>2. /\ \/ Start("cleanup", "none") \/ Start("block", "none")
           \/ Start("prepare", "none")
        /\ sup' = Sup("off") \/ sup' = Sup("block") \/ sup' = Sup("prepare")
    BY <1>2, <2>1 DEF SupMode
  <2>3. ctl' \in [Owners -> Commands]
    BY <1>c, <2>2 DEF CommandNames, ReadCommands, Reasons
  <2>4. sup' \in Sups
    BY <1>p, <2>2 DEF SupPcs
  <2> QED BY <1>2, <2>3, <2>4 DEF SupMode
<1>3. CASE SupOff
  <2>1. ctl' \in [Owners -> Commands]
    BY <1>3, <1>n DEF SupOff
  <2>2. sup' \in Sups
    BY <1>3, <1>0 DEF SupOff
  <2> QED BY <1>3, <2>1, <2>2 DEF SupOff
<1>4. CASE SupBlock
  <2>1. ctl' \in [Owners -> Commands]
    BY <1>4, <1>n DEF SupBlock
  <2>2. sup' \in Sups
    BY <1>4, <1>p DEF SupBlock, SupPcs
  <2> QED BY <1>4, <2>1, <2>2 DEF SupBlock
<1>5. CASE SupWaitBlock
  <2>1. ctl' \in [Owners -> Commands]
    BY <1>5, <1>n DEF SupWaitBlock
  <2>2. sup' \in Sups
    BY <1>5, <1>p DEF SupWaitBlock, SupPcs
  <2> QED BY <1>5, <2>1, <2>2 DEF SupWaitBlock
<1>6. CASE SupPrepare
  <2>1. ctl' \in [Owners -> Commands]
    BY <1>6, <1>n DEF SupPrepare
  <2>2. sup' \in Sups
    BY <1>6, <1>p DEF SupPrepare, SupPcs
  <2> QED BY <1>6, <2>1, <2>2 DEF SupPrepare
<1>7. CASE SupEngine
  <2>1. ctl' \in [Owners -> Commands]
    BY <1>7, <1>n DEF SupEngine
  <2>2. sup' \in Sups
    BY <1>7 DEF SupEngine, Sups, SupPcs, Engine, Engines
  <2> QED BY <1>7, <2>1, <2>2 DEF SupEngine
<1>8. CASE SupBinary
  <2>1. ctl' \in [Owners -> Commands]
    BY <1>8, <1>n DEF SupBinary
  <2>2. sup' \in Sups
    BY <1>8, <1>p DEF SupBinary, SupPcs
  <2> QED BY <1>8, <2>1, <2>2 DEF SupBinary
<1>9. CASE SupLaunch
  <2>1. ctl' \in [Owners -> Commands]
    BY <1>9, <1>n DEF SupLaunch
  <2>2. sup' \in Sups
    BY <1>9 DEF SupLaunch, Sups, SupPcs, Children
  <2>3. sup.engine \in Engines /\ confFile[sup.engine] \in AnyConfig
    BY DEF Sups
  <2>4. child' \in Children /\ launched' \in Seq(AnyConfig)
    <3>1. CASE child.alive
      BY <1>9, <3>1 DEF SupLaunch
    <3>2. CASE ~child.alive
      <4>1. /\ Len(launched) + 1 \in Nat
            /\ Append(launched, confFile[sup.engine]) \in Seq(AnyConfig)
        BY <2>3, LenProperties, AppendProperties
      <4> DEFINE up == confFile[sup.engine] # NoConfig
      <4>2. up \in BOOLEAN
        OBVIOUS
      <4>3. /\ child' = [alive |-> up, tun |-> FALSE, gen |-> Len(launched) + 1,
                         config |-> confFile[sup.engine], engine |-> sup.engine]
            /\ launched' = Append(launched, confFile[sup.engine])
        BY <1>9, <3>2 DEF SupLaunch
      <4> HIDE DEF up
      <4> QED BY <2>3, <4>1, <4>2, <4>3 DEF Children
    <3> QED BY <3>1, <3>2
  <2> QED BY <1>9, <2>1, <2>2, <2>4 DEF SupLaunch
<1>10. CASE SupWaitTun
  <2>1. ctl' \in [Owners -> Commands]
    BY <1>10, <1>n, <1>c DEF SupWaitTun, CommandNames, Reasons
  <2>2. sup' \in Sups
    <3>1. \/ \E pc \in SupPcs : sup' = Sup(pc)
          \/ sup' = Exit("tunnel_start_failed")
      BY <1>10 DEF SupWaitTun, SupPcs
    <3> QED BY <1>p, <1>x, <3>1 DEF Reasons
  <2>3. budget' \in [Budgets -> Nat]
    BY <1>10 DEF SupWaitTun, Budgets
  <2> QED BY <1>10, <2>1, <2>2, <2>3 DEF SupWaitTun
<1>11. CASE SupProofRoutes
  <2>1. ctl' \in [Owners -> Commands]
    BY <1>11, <1>n DEF SupProofRoutes
  <2>2. sup' \in Sups
    BY <1>11, <1>p DEF SupProofRoutes, SupPcs
  <2> QED BY <1>11, <2>1, <2>2 DEF SupProofRoutes
<1>12. CASE SupProbing
  <2>1. ctl' \in [Owners -> Commands]
    BY <1>12, <1>n, <1>c DEF SupProbing, CommandNames, Reasons
  <2>2. sup' \in Sups
    BY <1>12, <1>p, <1>x DEF SupProbing, SupPcs, Reasons
  <2> QED BY <1>12, <2>1, <2>2 DEF SupProbing
<1>13. CASE SupProbe
  <2>1. ctl' \in [Owners -> Commands]
    BY <1>13, <1>n, <1>c DEF SupProbe, CommandNames, ReadCommands, Reasons
  <2>2. sup' \in Sups
    BY <1>13, <1>p, <1>x DEF SupProbe, SupPcs, Reasons
  <2> QED BY <1>13, <2>1, <2>2 DEF SupProbe
<1>14. CASE SupConnect
  <2>1. ctl' \in [Owners -> Commands]
    BY <1>14, <1>n DEF SupConnect
  <2>2. sup' \in Sups
    BY <1>14, <1>p, <1>x DEF SupConnect, SupPcs, Reasons
  <2> QED BY <1>14, <2>1, <2>2 DEF SupConnect
<1>15. CASE SupBridge
  <2>1. ctl' \in [Owners -> Commands]
    BY <1>15, <1>n DEF SupBridge
  <2>2. sup' \in Sups
    BY <1>15, <1>p, <1>x DEF SupBridge, SupPcs, Reasons
  <2>3. budget' \in [Budgets -> Nat]
    BY <1>15 DEF SupBridge, Budgets
  <2> QED BY <1>15, <2>1, <2>2, <2>3 DEF SupBridge
<1>16. CASE SupRun
  <2>1. ctl' \in [Owners -> Commands]
    BY <1>16, <1>n DEF SupRun
  <2>2. sup' \in Sups
    BY <1>16, <1>p, <1>x DEF SupRun, SupPcs, Reasons
  <2> QED BY <1>16, <2>1, <2>2 DEF SupRun
<1>17. CASE SupExit
  <2>1. ctl' \in [Owners -> Commands]
    BY <1>17, <1>n DEF SupExit
  <2>2. sup' \in Sups
    BY <1>17, <1>p DEF SupExit, SupPcs
  <2> QED BY <1>17, <2>1, <2>2, KillChildType DEF SupExit
<1>18. CASE SupReap
  <2>1. ctl' \in [Owners -> Commands]
    <3>1. sup.reason \in Reasons /\ "down" \in CommandNames \ {"none"}
      BY DEF Sups, CommandNames, ReadCommands
    <3> QED BY <1>18, <1>c, <3>1 DEF SupReap
  <2>2. sup' \in Sups
    BY <1>18, <1>p DEF SupReap, SupPcs
  <2> QED BY <1>18, <2>1, <2>2 DEF SupReap
<1>19. CASE SupDown
  <2>1. ctl' \in [Owners -> Commands]
    BY <1>19, <1>n DEF SupDown
  <2>2. sup' \in Sups
    BY <1>19, <1>0 DEF SupDown
  <2> QED BY <1>19, <2>1, <2>2 DEF SupDown
<1>20. CASE SupDies
  <2>1. ctl' \in [Owners -> Commands]
    BY <1>20, <1>0 DEF SupDies, Owners
  <2>2. sup' \in Sups
    BY <1>20, <1>0 DEF SupDies
  <2>3. budget' \in [Budgets -> Nat]
    <3>1. CASE Busy("sup")
      <4>1. budget.orphans > 0 /\ budget' = [budget EXCEPT !["orphans"] = budget["orphans"] - 1]
        BY <1>20, <3>1 DEF SupDies
      <4> QED BY <4>1, Spends DEF Budgets
    <3>2. CASE ~Busy("sup")
      BY <1>20, <3>2 DEF SupDies
    <3> QED BY <3>1, <3>2
  <2> QED BY <1>20, <2>1, <2>2, <2>3 DEF SupDies
<1> QED
  BY <1>1, <1>2, <1>3, <1>4, <1>5, <1>6, <1>7, <1>8, <1>9, <1>10,
     <1>11, <1>12, <1>13, <1>14, <1>15, <1>16, <1>17, <1>18, <1>19, <1>20
  DEF Supervisor

\* procd only waits to respawn while it has respawns left.
RespawnOK == procd.state = "respawn" => procd.left > 0

\* procd keeps TypeOK; its retry counter does not pass zero (RespawnOK).
LEMMA ProcdTypes ==
  ASSUME TypeOK, RespawnOK, ProcdExit \/ ProcdKill
  PROVE  TypeOK' /\ RespawnOK'
<1> USE DEF TypeOK, KernelOK, FilesOK, ProcsOK, GhostsOK, kernel, files, procs, ghosts
<1>0. NoCommand \in Commands /\ NoSup \in Sups /\ Fresh \in Sups
  BY NoCommandType, SupTypes DEF SupPcs, Reasons
<1>1. CASE ProcdExit
  <2>1. sup' \in Sups
    BY <1>0, <1>1 DEF ProcdExit
  <2>2. Respawns \in Nat
    BY RuntimeAssumption
  <2>3. procd' \in Procds /\ RespawnOK'
    <3>1. \/ procd' = [state |-> "running", again |-> FALSE, left |-> Respawns]
          \/ procd' = [procd EXCEPT !.state = "idle"]
          \/ RespawnLeft /\ procd' = [procd EXCEPT !.state = "respawn"]
          \/ procd' = [procd EXCEPT !.state = "gaveup"]
          \/ /\ procd.state = "respawn"
             /\ procd' = [procd EXCEPT !.state = "running", !.left = @ - 1]
      BY <1>1 DEF ProcdExit
    <3>2. CASE /\ procd.state = "respawn"
               /\ procd' = [procd EXCEPT !.state = "running", !.left = @ - 1]
      <4>1. procd.left - 1 \in Nat
        BY <3>2 DEF Procds, RespawnOK
      <4> QED BY <3>2, <4>1 DEF Procds, RespawnOK
    <3>3. CASE RespawnLeft /\ procd' = [procd EXCEPT !.state = "respawn"]
      BY <3>3 DEF Procds, RespawnLeft, RespawnOK
    <3>4. CASE procd' = [state |-> "running", again |-> FALSE, left |-> Respawns]
      BY <2>2, <3>4 DEF Procds, RespawnOK
    <3>5. CASE procd' = [procd EXCEPT !.state = "idle"]
      BY <3>5 DEF Procds, RespawnOK
    <3>6. CASE procd' = [procd EXCEPT !.state = "gaveup"]
      BY <3>6 DEF Procds, RespawnOK
    <3> QED BY <3>1, <3>2, <3>3, <3>4, <3>5, <3>6
  <2> QED BY <1>1, <2>1, <2>3 DEF ProcdExit
<1>2. CASE ProcdKill
  <2>1. ctl' \in [Owners -> Commands]
    BY <1>0, <1>2 DEF ProcdKill, Owners
  <2>2. sup' \in Sups /\ probeLock' \in Owners \union {"free"}
    BY <1>0, <1>2 DEF ProcdKill, Owners
  <2>3. budget' \in [Budgets -> Nat]
    <3>1. budget.orphans > 0 /\ budget' = [budget EXCEPT !["orphans"] = budget["orphans"] - 1]
      BY <1>2 DEF ProcdKill
    <3> QED BY <3>1, Spends DEF Budgets
  <2> QED BY <1>2, <2>1, <2>2, <2>3 DEF ProcdKill, RespawnOK
<1> QED BY <1>1, <1>2

\* Each step of the init script keeps TypeOK and RespawnOK.
LEMMA InitTypes ==
  ASSUME TypeOK, RespawnOK, InitScript
  PROVE  TypeOK' /\ RespawnOK'
<1> USE DEF TypeOK, KernelOK, FilesOK, ProcsOK, GhostsOK, kernel, files, procs, ghosts
<1>0. NoCommand \in Commands /\ Fresh \in Sups /\ "init" \in Owners
  BY NoCommandType, SupTypes DEF SupPcs, Reasons, Owners
<1>s. ASSUME StartFailed
      PROVE  status' \in Statuses /\ init' = "idle"
  <2>1. Status("error", FALSE, NoServer) \in Statuses
    BY DEF Statuses, Status, Phases, AnyServer
  <2> QED BY <1>s, <2>1 DEF StartFailed
<1>1. CASE InitStop
  <2>1. sup' \in Sups
    BY <1>1 DEF InitStop, Sups
  <2>2. procd' \in Procds /\ RespawnOK'
    BY <1>1 DEF InitStop, Procds, RespawnOK
  <2>3. pending' \in Nat
    BY <1>1 DEF InitStop
  <2>4. armed' \in BOOLEAN
    BY <1>1, Zenon DEF InitStop
  <2> QED BY <1>1, <2>1, <2>2, <2>3, <2>4 DEF InitStop
<1>2. CASE InitRecover
  BY <1>2, <1>s DEF InitRecover, RespawnOK
<1>3. CASE InitStart
  <2>1. CASE InitRun("cleanup") \/ InitRun("block")
    <3>1. Command("cleanup", "none") \in Commands /\ Command("block", "none") \in Commands
      BY CommandType DEF CommandNames, ReadCommands, Reasons
    <3>2. ctl' \in [Owners -> Commands]
      BY <1>0, <2>1, <3>1 DEF InitRun
    <3> QED BY <1>3, <2>1, <3>2 DEF InitStart, InitRun, RespawnOK
  <2>2. CASE init' = "idle" /\ UNCHANGED <<status, ctl>>
    <3>1. Respawns \in Nat
      BY RuntimeAssumption
    <3>2. procd' \in Procds /\ RespawnOK' /\ sup' \in Sups
      <4>1. \/ procd' = [procd EXCEPT !.again = TRUE] /\ sup' = sup
            \/ /\ procd' = [state |-> "running", again |-> FALSE, left |-> Respawns]
               /\ sup' = Fresh
            \/ UNCHANGED <<procd, sup>>
        BY <1>3, <2>2 DEF InitStart, InitRun, StartFailed
      <4>2. CASE procd' = [procd EXCEPT !.again = TRUE] /\ sup' = sup
        BY <4>2 DEF Procds, RespawnOK
      <4>3. CASE /\ procd' = [state |-> "running", again |-> FALSE, left |-> Respawns]
                 /\ sup' = Fresh
        BY <1>0, <3>1, <4>3 DEF Procds, RespawnOK
      <4>4. CASE UNCHANGED <<procd, sup>>
        BY <4>4 DEF RespawnOK
      <4> QED BY <4>1, <4>2, <4>3, <4>4
    <3> QED BY <1>3, <2>2, <3>2 DEF InitStart
  <2>3. CASE StartFailed /\ UNCHANGED <<ctl, sup, procd>>
    BY <1>3, <1>s, <2>3 DEF InitStart, RespawnOK
  <2> QED BY <1>3, <2>1, <2>2, <2>3 DEF InitStart
<1>4. CASE InitReturn
  <2>1. ctl' \in [Owners -> Commands]
    BY <1>0, <1>4 DEF InitReturn
  <2> QED BY <1>4, <1>s, <2>1 DEF InitReturn, RespawnOK
<1> QED BY <1>1, <1>2, <1>3, <1>4 DEF InitScript

\* A failing controller step keeps TypeOK.
LEMMA FailTypes ==
  ASSUME TypeOK, NEW c \in Owners, Fail(c)
  PROVE  TypeOK'
<1> USE DEF TypeOK, KernelOK, FilesOK, ProcsOK, GhostsOK, kernel, files, procs, ghosts
<1>1. ctl' \in [Owners -> Commands]
  BY AtType, AdvanceType DEF Fail
<1>2. route' \in {"none", "prohibit", "tun"}
  BY DEF Fail, RouteOf
<1>3. budget' \in [Budgets -> Nat] /\ probeLock' \in Owners \union {"free"}
  BY DEF Fail, Release, Budgets
<1> QED BY <1>1, <1>2, <1>3 DEF Fail

\* The values every volatile variable has at boot.
LEMMA StartTypes ==
  /\ NoCommand \in Commands /\ NoSup \in Sups /\ NoTable \in Tables
  /\ Status("connecting", FALSE, NoServer) \in Statuses
  /\ NoFiles \in [Engines -> AnyConfig] /\ NoChild \in Children
  /\ Procd0 \in Procds /\ Procd0.state = "idle"
<1>1. NoCommand \in Commands
  BY NoCommandType
<1>2. NoSup \in Sups
  BY DEF NoSup, Sups, SupPcs, Reasons, Engines
<1>3. NoTable \in Tables /\ Status("connecting", FALSE, NoServer) \in Statuses
  BY DEF NoTable, Tables, Status, Statuses, Phases, AnyServer
<1>4. NoFiles \in [Engines -> AnyConfig]
  BY DEF NoFiles, Engines, AnyConfig
<1>5. NoChild \in Children
  BY DEF NoChild, Children, AnyConfig, Engines
<1>6. Procd0 \in Procds /\ Procd0.state = "idle"
  BY RuntimeAssumption DEF Procd0, Procds
<1> QED BY <1>1, <1>2, <1>3, <1>4, <1>5, <1>6

\* A reboot keeps TypeOK and RespawnOK.
LEMMA RebootTypes ==
  ASSUME TypeOK, Reboot
  PROVE  TypeOK' /\ RespawnOK'
<1> USE DEF TypeOK, KernelOK, FilesOK, ProcsOK, GhostsOK
<1>2. budget' \in [Budgets -> Nat]
  BY DEF Reboot, Budgets
<1> QED BY <1>2, StartTypes DEF Reboot, RespawnOK

\* What comes from outside keeps TypeOK.
LEMMA OutsideTypes ==
  ASSUME TypeOK, ChildUp \/ ChildDies \/ (\E s \in Desired : Edit(s)) \/ Reload \/ Poll
                 \/ Age
  PROVE  TypeOK'
<1> USE DEF TypeOK, KernelOK, FilesOK, ProcsOK, GhostsOK, kernel, files, procs, ghosts
<1>1. CASE ChildUp
  BY <1>1 DEF ChildUp, Children
<1>2. CASE ChildDies
  <2>1. child' \in Children
    BY <1>2 DEF ChildDies, Children, Dead
  <2>2. route' \in {"none", "prohibit", "tun"} /\ proofRoute' \in BOOLEAN
    BY <1>2 DEF ChildDies, LoseDevice
  <2>3. budget' \in [Budgets -> Nat]
    BY <1>2 DEF ChildDies, Budgets
  <2> QED BY <1>2, <2>1, <2>2, <2>3 DEF ChildDies
<1>3. CASE \E s \in Desired : Edit(s)
  <2>1. PICK s \in Desired : Edit(s)
    BY <1>3
  <2>2. budget' \in [Budgets -> Nat] /\ pending' \in Nat
    <3>1. budget.edits > 0 /\ budget' = [budget EXCEPT !["edits"] = budget["edits"] - 1]
      BY <2>1 DEF Edit
    <3>2. budget' \in [Budgets -> Nat]
      BY <3>1, Spends DEF Budgets
    <3>3. pending' \in Nat
      BY <2>1 DEF Edit, Asked
    <3> QED BY <3>2, <3>3
  <2>3. armed' \in BOOLEAN /\ sealed' \in BOOLEAN
    BY <2>1 DEF Edit
  <2> QED BY <2>1, <2>2, <2>3 DEF Edit
<1>4. CASE Reload
  <2>1. budget.reloads > 0 /\ budget' = [budget EXCEPT !["reloads"] = budget["reloads"] - 1]
    BY <1>4 DEF Reload
  <2>2. budget' \in [Budgets -> Nat]
    BY <2>1, Spends DEF Budgets
  <2>3. pending' \in Nat
    BY <1>4 DEF Reload
  <2> QED BY <1>4, <2>2, <2>3 DEF Reload
<1>5. CASE Poll
  <2>1. Command("probe", "none") \in Commands /\ "phone" \in Owners
    BY CommandType DEF CommandNames, Reasons, Owners
  <2>2. ctl' \in [Owners -> Commands]
    BY <1>5, <2>1 DEF Poll
  <2>3. budget' \in [Budgets -> Nat]
    <3>1. budget.polls - 1 \in Nat
      BY <1>5 DEF Poll, Budgets
    <3>2. budget' = [budget EXCEPT !.polls = budget.polls - 1]
      BY <1>5 DEF Poll
    <3> QED BY <3>1, <3>2 DEF Budgets
  <2>4. UNCHANGED <<desired, kernel, files, sup, child, init, procd, pending, ghosts>>
    BY <1>5 DEF Poll
  <2> QED BY <2>2, <2>3, <2>4
<1>6. CASE Age
  <2>1. proof' \subseteq Proofs /\ \A p, q \in proof' : p = q
    BY <1>6 DEF Age, Proofs
  <2> QED BY <1>6, <2>1 DEF Age
<1> QED BY <1>1, <1>2, <1>3, <1>4, <1>5, <1>6

\* Type correctness of the runtime, for every set of profiles and every bound on
\* the disturbances: whatever the processes do, the kernel policy, the files and the
\* process table hold values of their kinds, with one proof and one receipt at most.
THEOREM TypeCorrect == Spec => []TypeOK
<1>1. Init => TypeOK /\ RespawnOK
  <2> SUFFICES ASSUME Init PROVE TypeOK /\ RespawnOK
    OBVIOUS
  <2>2. budget \in [Budgets -> Nat]
    BY RuntimeAssumption DEF Init, Budgets
  <2>3. launched = <<>> /\ <<>> \in Seq(AnyConfig)
    BY DEF Init
  <2> QED
    BY <2>2, <2>3, StartTypes
    DEF Init, TypeOK, KernelOK, FilesOK, ProcsOK, GhostsOK, RespawnOK
<1>2. TypeOK /\ RespawnOK /\ [Next]_vars => (TypeOK /\ RespawnOK)'
  <2> SUFFICES ASSUME TypeOK, RespawnOK, [Next]_vars PROVE TypeOK' /\ RespawnOK'
    OBVIOUS
  <2>1. ASSUME NEW c \in Owners, Controller(c) PROVE TypeOK' /\ RespawnOK'
    BY <2>1, ControllerTypes
    DEF Controller, Read, PolicyTable, PolicyRoutes, ProofRoutes, Files, Mark, Check,
        Prove, Verify, Final, Receipt, WriteStatus, Collect, RespawnOK
  <2>2. CASE Supervisor
    BY <2>2, SupervisorTypes
    DEF Supervisor, Trap, SupMode, SupOff, SupBlock, SupWaitBlock, SupPrepare, SupEngine,
        SupBinary, SupLaunch, SupWaitTun, SupProofRoutes, SupProbing, SupProbe,
        SupConnect, SupBridge, SupRun, SupExit, SupReap, SupDown, SupDies, ReadsOnly,
        RespawnOK
  <2>3. CASE ProcdExit \/ ProcdKill
    BY <2>3, ProcdTypes
  <2>4. CASE InitScript
    BY <2>4, InitTypes
  <2>5. ASSUME NEW c \in Owners, Fail(c) PROVE TypeOK' /\ RespawnOK'
    BY <2>5, FailTypes DEF Fail, RespawnOK
  <2>6. CASE Reboot
    BY <2>6, RebootTypes
  <2>7. CASE ChildUp \/ ChildDies \/ (\E s \in Desired : Edit(s)) \/ Reload \/ Poll \/ Age
    BY <2>7, OutsideTypes
    DEF ChildUp, ChildDies, Edit, Reload, Poll, Age, procs, RespawnOK
  <2>8. CASE UNCHANGED vars
    BY <2>8 DEF vars, kernel, files, procs, ghosts, TypeOK, KernelOK, FilesOK, ProcsOK,
                GhostsOK, RespawnOK
  <2> QED BY <2>1, <2>2, <2>3, <2>4, <2>5, <2>6, <2>7, <2>8 DEF Next, System, Environment
<1> QED BY <1>1, <1>2, PTL DEF Spec

------------------------------------------------------------------------------
(* The egress stays closed, as long as no command outlives its supervisor *)

\* Nobody but the supervisor, the init script and a phone's probe runs commands.
NoOrphans   == budget.orphans = 0 /\ Idle("orphan")
PhoneProbes == ctl["phone"].cmd \in {"none", "probe"}
InitWaits   == Idle("init") \/ init = "command"
SupAbsent   == sup.pc = "absent" => sup = NoSup /\ ctl["sup"] = NoCommand

\* While a restart is between its stop and its start, procd starts nothing.
InitHalted ==
  init \in {"recover", "mode", "stopped"} =>
    /\ procd.state \in {"idle", "halting"} /\ ~procd.again
    /\ procd.state = "idle" => sup.pc = "absent"

\* Only TERM makes a supervisor stop, or its down() a requested one.
StopIsAsked ==
  sup.stopping \/ "runtime_stopped" \in {sup.reason, ctl["sup"].reason} => sup.term

\* A command past its read of state.json.
Knows(k) == k.cmd \in ReadCommands /\ k.steps # <<>> /\ Head(k.steps) # "read"

ArmedOK ==
  armed => /\ Native(desired) /\ init = "idle" /\ ~sup.term /\ ~Open
           /\ ctl["sup"].cmd # "cleanup"
           /\ Knows(ctl["sup"]) => ctl["sup"].st = desired

SealedOK ==
  sealed => /\ desired.kill /\ ~Open
            /\ \A c \in Owners : /\ ctl[c].cmd # "cleanup"
                                 /\ Knows(ctl[c]) => ctl[c].st.kill

ClosedInv ==
  /\ NoOrphans /\ PhoneProbes /\ InitWaits /\ SupAbsent /\ InitHalted /\ StopIsAsked
  /\ ArmedOK /\ SealedOK

\* What a controller step may turn a command k into.
Follows(n, k) ==
  /\ n \in Commands
  /\ n.reason = k.reason \/ n = NoCommand
  /\ n.cmd \in {k.cmd, "handler", "none"}
  /\ n.cmd = "handler" => k.cmd # "probe"
  /\ Knows(n) => n.cmd = k.cmd /\ (n.st = desired \/ (Knows(k) /\ n.st = k.st))

\* The catch block forgets what the command had read.
LEMMA RaiseFollows ==
  ASSUME NEW k \in Commands
  PROVE  Follows(Raise(k), k) /\ ~Knows(Raise(k))
<1>1. CASE k.cmd \in {"probe", "handler"}
  BY <1>1, RaiseType DEF Raise, Follows, Knows, Commands
<1>2. CASE k.cmd \notin {"probe", "handler"}
  <2>1. Raise(k) = [k EXCEPT !.cmd = "handler", !.steps = <<"read">>, !.ok = FALSE]
    BY <1>2 DEF Raise
  <2>2. /\ Raise(k).cmd = "handler" /\ Raise(k).steps = <<"read">>
        /\ Raise(k).reason = k.reason
    BY <2>1 DEF Commands
  <2>3. Head(<<"read">>) = "read"
    OBVIOUS
  <2> QED BY <1>2, <2>2, <2>3, RaiseType DEF Follows, Knows
<1> QED BY <1>1, <1>2

\* Doing a step changes neither the command's name nor the state it read.
LEMMA PopFollows ==
  ASSUME NEW k \in Commands, k.steps # <<>>, Head(k.steps) # "read"
  PROVE  Follows(Pop(k), k)
BY PopType DEF Follows, Knows

\* A collected command is gone.
LEMMA NoneFollows ==
  ASSUME NEW k
  PROVE  Follows(NoCommand, k) /\ ~Knows(NoCommand)
BY NoCommandType DEF Follows, Knows, NoCommand

\* A controller step, failing or not, changes its own command as Follows says and
\* leaves the state, the supervisor and the init script alone.
LEMMA ControllerFollows ==
  ASSUME TypeOK, NEW c \in Owners, Controller(c) \/ Fail(c)
  PROVE  /\ \E n : ctl' = [ctl EXCEPT ![c] = n] /\ Follows(n, ctl[c])
         /\ UNCHANGED <<desired, sup, init>>
         /\ budget' = budget \/ Fail(c)
<1>r. Follows(Raise(ctl[c]), ctl[c])
  BY RaiseFollows DEF TypeOK, ProcsOK
<1>p. ASSUME Busy(c), Head(ctl[c].steps) # "read"
      PROVE  Follows(Pop(ctl[c]), ctl[c])
  BY <1>p, PopFollows DEF Busy, TypeOK, ProcsOK
<1>n. Follows(NoCommand, ctl[c])
  BY NoneFollows
<1> USE DEF At, Advance, kernel, files, procs, ghosts
<1>1. CASE Read(c)
  <2>1. ctl[c] \in Commands /\ ctl[c].steps # <<>> /\ ctl[c].cmd \in ReadCommands
    BY <1>1, AtType, HeadType DEF Read, ProbeSteps
  <2> DEFINE k == [ctl[c] EXCEPT !.st = desired]
             g == IF k.cmd = "connect" /\ Native(k.st) THEN child.gen ELSE 0
             n == [k EXCEPT !.steps = Plan(k), !.gen = g]
  <2>2. k \in Commands /\ k.cmd = ctl[c].cmd /\ k.reason = ctl[c].reason /\ k.st = desired
    BY <2>1 DEF Commands, TypeOK
  <2>3. g \in Nat
    BY DEF Children, TypeOK, ProcsOK
  <2>4. Plan(k) \in Seq(Steps)
    BY <2>1, <2>2, PlanType
  <2> HIDE DEF k
  <2>5. Follows(n, ctl[c])
    <3> HIDE DEF g
    <3>1. /\ n \in Commands /\ n.cmd = k.cmd /\ n.reason = k.reason /\ n.st = k.st
      BY <2>1, <2>2, <2>3, <2>4 DEF Commands
    <3> HIDE DEF n
    <3> QED BY <2>2, <3>1 DEF Follows
  <2>6. Follows(Raise(k), ctl[c])
    BY <2>2, RaiseFollows, RaiseType DEF Follows
  <2> HIDE DEF n
  <2>7. ctl' = [ctl EXCEPT ![c] = n] \/ ctl' = [ctl EXCEPT ![c] = Raise(k)]
    BY <1>1 DEF Read, k, n
  <2> QED BY <1>1, <2>5, <2>6, <2>7 DEF Read
<1>2. CASE PolicyTable(c)
  BY <1>2, <1>r, <1>p DEF PolicyTable
<1>3. CASE PolicyRoutes(c)
  BY <1>3, <1>r, <1>p DEF PolicyRoutes
<1>4. CASE ProofRoutes(c)
  BY <1>4, <1>r, <1>p DEF ProofRoutes
<1>5. CASE Files(c)
  BY <1>5, <1>r, <1>p DEF Files
<1>6. CASE Mark(c)
  BY <1>6, <1>r, <1>p DEF Mark
<1>7. CASE Check(c)
  <2>1. ctl[c] \in Commands /\ ctl[c].steps # <<>>
    BY <1>7, AtType DEF Check
  <2> DEFINE k == [ctl[c] EXCEPT !.pst = desired]
  <2>2. /\ k \in Commands /\ k.steps = ctl[c].steps /\ k.cmd = ctl[c].cmd
        /\ k.reason = ctl[c].reason /\ k.st = ctl[c].st
    BY <2>1 DEF Commands, TypeOK
  <2>3. Head(ctl[c].steps) = "check"
    BY <1>7 DEF Check
  <2>4. ctl' = [ctl EXCEPT ![c] = Pop(k)] \/ ctl' = [ctl EXCEPT ![c] = Raise(k)]
    BY <1>7 DEF Check
  <2> HIDE DEF k
  <2>5. Follows(Pop(k), k) /\ Follows(Raise(k), k)
    BY <2>1, <2>2, <2>3, PopFollows, RaiseFollows
  <2>6. Follows(Pop(k), ctl[c]) /\ Follows(Raise(k), ctl[c])
    BY <2>2, <2>5 DEF Follows, Knows
  <2> QED BY <1>7, <2>4, <2>6 DEF Check
<1>8. CASE Prove(c)
  BY <1>8, <1>r, <1>p DEF Prove
<1>9. CASE Verify(c)
  <2>1. Pop(ctl[c]) \in Commands /\ Follows(Pop(ctl[c]), ctl[c])
    BY <1>9, <1>p, AtType DEF Verify
  <2> DEFINE n == [Pop(ctl[c]) EXCEPT !.fp = nft]
  <2>2. /\ n \in Commands /\ n.steps = Pop(ctl[c]).steps /\ n.cmd = Pop(ctl[c]).cmd
        /\ n.reason = Pop(ctl[c]).reason /\ n.st = Pop(ctl[c]).st
    BY <2>1 DEF Commands, TypeOK, KernelOK
  <2>3. ctl' = [ctl EXCEPT ![c] = n] \/ ctl' = [ctl EXCEPT ![c] = Raise(ctl[c])]
    BY <1>9 DEF Verify
  <2> HIDE DEF n
  <2>4. Follows(n, ctl[c])
    <3>1. Pop(ctl[c]) # NoCommand
      <4>1. ctl[c].cmd # "none" /\ ctl[c] \in Commands /\ ctl[c].steps # <<>>
        BY <1>9 DEF Verify, Busy, TypeOK, ProcsOK
      <4>2. Pop(ctl[c]).cmd # "none"
        BY <4>1, PopType
      <4> QED BY <4>2 DEF NoCommand
    <3> QED BY <2>1, <2>2, <3>1 DEF Follows, Knows
  <2> QED BY <1>9, <1>r, <2>3, <2>4 DEF Verify
<1>10. CASE Final(c)
  BY <1>10, <1>r, <1>p DEF Final
<1>11. CASE Receipt(c)
  BY <1>11, <1>r, <1>p DEF Receipt
<1>12. CASE WriteStatus(c)
  BY <1>12, <1>r, <1>p DEF WriteStatus
<1>13. CASE Collect(c)
  BY <1>13, <1>n DEF Collect
<1>14. CASE Fail(c)
  BY <1>14, <1>r DEF Fail
<1> QED
  BY <1>1, <1>2, <1>3, <1>4, <1>5, <1>6, <1>7, <1>8, <1>9, <1>10, <1>11, <1>12,
     <1>13, <1>14
  DEF Controller

\* A command that does not delete the table installs one.
LEMMA TableCloses ==
  ASSUME NEW k, ~Deletes(k)
  PROVE  TableOf(k).mode # "none"
BY DEF TableOf

\* No step of a controller command opens a closed egress.
LEMMA ControllerClosed ==
  ASSUME TypeOK, ClosedInv, NEW c \in Owners, Controller(c) \/ Fail(c)
  PROVE  ClosedInv'
<1> DEFINE k == ctl[c]
<1>1. PICK n : ctl' = [ctl EXCEPT ![c] = n] /\ Follows(n, k)
  BY ControllerFollows
<1>2. UNCHANGED <<desired, sup, init>> /\ budget'.orphans = budget.orphans
  BY ControllerFollows DEF Fail, TypeOK, GhostsOK, Budgets
<1>3. k.cmd # "none" /\ k \in Commands
  BY DEF Controller, Read, PolicyTable, PolicyRoutes, ProofRoutes, Files, Mark, Check,
         Prove, Verify, Final, Receipt, WriteStatus, Collect, Fail, At, Busy, Finished,
         TypeOK, ProcsOK
<1>4. /\ ctl'[c] = n
      /\ \A d \in Owners \ {c} : ctl'[d] = ctl[d]
  BY <1>1 DEF TypeOK, ProcsOK
<1>5. {"sup", "init", "orphan", "phone"} = Owners
  BY DEF Owners
<1>6. c # "orphan" /\ NoOrphans'
  BY <1>2, <1>3, <1>4, <1>5 DEF ClosedInv, NoOrphans, Idle
<1>7. PhoneProbes'
  BY <1>1, <1>3, <1>4, <1>5 DEF ClosedInv, PhoneProbes, Follows
<1>8. InitWaits'
  BY <1>2, <1>3, <1>4, <1>5 DEF ClosedInv, InitWaits, Idle
<1>9. SupAbsent'
  BY <1>2, <1>3, <1>4, <1>5 DEF ClosedInv, SupAbsent, NoCommand
<1>10. InitHalted'
  BY <1>2
  DEF ClosedInv, InitHalted, Controller, Read, PolicyTable, PolicyRoutes, ProofRoutes,
      Files, Mark, Check, Prove, Verify, Final, Receipt, WriteStatus, Collect, Fail
<1>11. StopIsAsked'
  <2>1. NoCommand.reason = "none"
    BY DEF NoCommand
  <2> QED BY <1>1, <1>2, <1>4, <1>5, <2>1 DEF ClosedInv, StopIsAsked, Follows
<1>12. ~PolicyTable(c) => UNCHANGED <<nft, armed, sealed>>
  BY DEF Controller, Read, PolicyRoutes, ProofRoutes, Files, Mark, Check, Prove, Verify,
         Final, Receipt, WriteStatus, Collect, Fail, kernel, ghosts
<1>13. PolicyTable(c) => Knows(k) /\ k.cmd \in ReadCommands
  BY <1>3, HeadType DEF PolicyTable, At, Busy, Knows, ProbeSteps
<1>14. PolicyTable(c) => c # "phone"
  BY <1>5, <1>13 DEF ClosedInv, PhoneProbes, ReadCommands
<1>15. ASSUME ArmedOK, armed PROVE ~Deletes(k) \/ ~PolicyTable(c)
  <2> SUFFICES ASSUME PolicyTable(c) PROVE ~Deletes(k)
    OBVIOUS
  <2>1. c = "sup"
    BY <1>3, <1>5, <1>6, <1>14, <1>15 DEF ClosedInv, ArmedOK, InitWaits, Idle
  <2>2. k.cmd # "cleanup" /\ Native(k.st) /\ k.reason # "runtime_stopped"
    BY <1>13, <1>15, <2>1 DEF ClosedInv, ArmedOK, StopIsAsked
  <2> QED BY <2>2 DEF Deletes, CoreLoss
<1>16. ASSUME PolicyTable(c) PROVE nft' = nft \/ nft' = TableOf(k)
  BY <1>16 DEF PolicyTable
<1>17. ASSUME armed', ~armed
       PROVE  /\ c = "sup" /\ k.cmd = "prepare" /\ Native(k.st) /\ k.st = desired
              /\ init = "idle" /\ ~sup.term /\ nft' = TableOf(k)
  BY <1>12, <1>17 DEF PolicyTable, Settled
<1>18. ArmedOK'
  <2> SUFFICES ASSUME armed' PROVE ArmedOK'
    BY DEF ArmedOK
  <2>1. Native(desired) /\ init = "idle" /\ ~sup.term
    BY <1>17 DEF ClosedInv, ArmedOK
  <2>2. ~Open'
    <3>1. CASE armed
      BY <1>12, <1>15, <1>16, <3>1, TableCloses DEF ClosedInv, ArmedOK, Open
    <3>2. CASE ~armed
      BY <1>17, <3>2, TableCloses DEF Open, Deletes
    <3> QED BY <3>1, <3>2
  <2>3. ctl["sup"].cmd # "cleanup" /\ (Knows(ctl["sup"]) => ctl["sup"].st = desired)
    BY <1>17 DEF ClosedInv, ArmedOK
  <2>4. ctl'["sup"].cmd # "cleanup" /\ (Knows(ctl'["sup"]) => ctl'["sup"].st = desired)
    BY <1>1, <1>4, <1>5, <2>3 DEF Follows
  <2> QED BY <1>2, <2>1, <2>2, <2>4 DEF ArmedOK, Native
<1>19. ASSUME sealed', ~sealed
       PROVE  /\ PolicyTable(c) /\ c = "sup" /\ ~Deletes(k) /\ k.st = desired
              /\ desired.kill /\ init = "idle" /\ nft' = TableOf(k)
  BY <1>12, <1>19 DEF PolicyTable, Settled
<1>20. SealedOK'
  <2> SUFFICES ASSUME sealed' PROVE SealedOK'
    BY DEF SealedOK
  <2>1. CASE sealed
    <3>1. ~Deletes(k) \/ ~PolicyTable(c)
      BY <1>13, <2>1 DEF ClosedInv, SealedOK, Deletes
    <3>2. ~Open'
      BY <1>12, <1>16, <2>1, <3>1, TableCloses DEF ClosedInv, SealedOK, Open
    <3>3. ASSUME NEW d \in Owners
          PROVE  ctl'[d].cmd # "cleanup" /\ (Knows(ctl'[d]) => ctl'[d].st.kill)
      BY <1>1, <1>4, <2>1 DEF ClosedInv, SealedOK, Follows
    <3> QED BY <1>2, <2>1, <3>2, <3>3 DEF ClosedInv, SealedOK
  <2>2. CASE ~sealed
    <3>1. ~Open'
      BY <1>19, <2>2, TableCloses DEF Open
    <3>2. ctl["init"].cmd = "none" /\ ctl["orphan"].cmd = "none"
      BY <1>19, <2>2 DEF ClosedInv, InitWaits, NoOrphans, Idle
    <3>3. ASSUME NEW d \in Owners
          PROVE  ctl'[d].cmd # "cleanup" /\ (Knows(ctl'[d]) => ctl'[d].st.kill)
      <4>1. CASE d = "sup"
        BY <1>1, <1>4, <1>19, <2>2, <4>1 DEF Follows, Deletes
      <4>2. CASE d = "phone"
        BY <1>7, <4>2 DEF PhoneProbes, Knows, ReadCommands
      <4>3. CASE d \in {"init", "orphan"}
        BY <1>4, <1>19, <2>2, <3>2, <4>3 DEF Knows, ReadCommands
      <4> QED BY <1>5, <4>1, <4>2, <4>3
    <3> QED BY <1>2, <1>19, <2>2, <3>1, <3>3 DEF SealedOK
  <2> QED BY <2>1, <2>2
<1> QED
  BY <1>6, <1>7, <1>8, <1>9, <1>10, <1>11, <1>18, <1>20 DEF ClosedInv

\* What a supervisor step may do to the supervisor and to the command it runs.
SupFollows(n) ==
  /\ \/ n = ctl["sup"]
     \/ n = NoCommand
     \/ \E name \in CommandNames \ {"none"}, why \in Reasons :
          /\ n = Command(name, why)
          /\ name = "cleanup" => Mode(desired) = "off"
          /\ why = "runtime_stopped" => why = sup.reason
  /\ \/ sup' = NoSup /\ n = NoCommand
     \/ /\ sup'.term = sup.term /\ sup'.pc # "absent"
        /\ sup'.stopping => sup.stopping \/ sup.term
        /\ sup'.reason = "runtime_stopped" => sup.reason = "runtime_stopped" \/ sup.term

\* A supervisor step changes its own command as SupFollows says and touches no
\* policy; what it starts as cleanup it starts in mode off.
LEMMA SupervisorFollows ==
  ASSUME TypeOK, NoOrphans, Supervisor
  PROVE  /\ sup.pc # "absent"
         /\ \E n : ctl' = [ctl EXCEPT !["sup"] = n] /\ SupFollows(n)
         /\ UNCHANGED <<desired, nft, init, procd, armed, sealed>>
         /\ budget'.orphans = budget.orphans
<1> USE DEF TypeOK, ProcsOK, GhostsOK, Sups, Budgets, kernel, files, procs, ghosts,
            ReadsOnly, Advance, Start, Here, Returned, Owners
<1>u. ASSUME UNCHANGED ctl
      PROVE  ctl' = [ctl EXCEPT !["sup"] = ctl["sup"]]
  BY <1>u
<1>s. ASSUME NEW pc \in SupPcs \ {"absent"}, sup' = Sup(pc),
             NEW n, \/ n = ctl["sup"] \/ n = NoCommand
                    \/ \E name \in CommandNames \ {"none", "cleanup"} : n = Command(name, "none")
      PROVE  SupFollows(n)
  BY <1>s DEF SupFollows, Sup, Reasons
<1>x. ASSUME NEW why \in Reasons \ {"runtime_stopped"}, sup' = Exit(why),
             NEW n, n = ctl["sup"] \/ n = NoCommand
      PROVE  SupFollows(n)
  BY <1>x DEF SupFollows, Exit
<1>1. CASE Trap
  <2>1. SupFollows(ctl["sup"])
    BY <1>1 DEF Trap, TrapDue, SupFollows
  <2> QED BY <1>1, <1>u, <2>1 DEF Trap, KillChild
<1>2. CASE SupMode
  <2>1. CASE Mode(desired) = "off"
    <3>1. SupFollows(Command("cleanup", "none"))
      BY <1>2, <2>1 DEF SupMode, SupFollows, Sup, CommandNames, ReadCommands, Reasons
    <3> QED BY <1>2, <2>1, <3>1 DEF SupMode
  <2>2. CASE Mode(desired) = "block"
    <3>1. SupFollows(Command("block", "none"))
      BY <1>2, <2>2, <1>s DEF SupMode, SupPcs, CommandNames, ReadCommands
    <3> QED BY <1>2, <2>2, <3>1 DEF SupMode
  <2>3. CASE Mode(desired) = "tunnel"
    <3>1. SupFollows(Command("prepare", "none"))
      BY <1>2, <2>3, <1>s DEF SupMode, SupPcs, CommandNames, ReadCommands
    <3> QED BY <1>2, <2>3, <3>1 DEF SupMode
  <2> QED BY <2>1, <2>2, <2>3 DEF Mode
<1>3. CASE SupOff
  <2>1. SupFollows(NoCommand)
    BY <1>3 DEF SupOff, SupFollows
  <2> QED BY <1>3, <2>1 DEF SupOff
<1>4. CASE SupBlock
  <2>1. SupFollows(NoCommand)
    BY <1>4, <1>s DEF SupBlock, SupPcs, Reasons
  <2> QED BY <1>4, <2>1 DEF SupBlock
<1>5. CASE SupWaitBlock
  <2>1. SupFollows(ctl["sup"])
    BY <1>5, <1>s DEF SupWaitBlock, SupPcs, Reasons
  <2> QED BY <1>5, <1>u, <2>1 DEF SupWaitBlock, KillChild
<1>6. CASE SupPrepare
  <2>1. SupFollows(NoCommand)
    BY <1>6, <1>s DEF SupPrepare, SupPcs, Reasons
  <2> QED BY <1>6, <2>1 DEF SupPrepare
<1>7. CASE SupEngine
  <2>1. SupFollows(ctl["sup"])
    BY <1>7 DEF SupEngine, SupFollows
  <2> QED BY <1>7, <1>u, <2>1 DEF SupEngine
<1>8. CASE SupBinary
  <2>1. SupFollows(ctl["sup"])
    BY <1>8, <1>s DEF SupBinary, SupPcs, Reasons
  <2> QED BY <1>8, <1>u, <2>1 DEF SupBinary, KillChild
<1>9. CASE SupLaunch
  <2>1. SupFollows(ctl["sup"])
    BY <1>9 DEF SupLaunch, SupFollows
  <2> QED BY <1>9, <1>u, <2>1 DEF SupLaunch
<1>10. CASE SupWaitTun
  <2>1. CASE UNCHANGED ctl
    <3>1. SupFollows(ctl["sup"])
      BY <1>10, <2>1, <1>s, <1>x DEF SupWaitTun, SupPcs, Reasons
    <3> QED BY <1>10, <1>u, <2>1, <3>1 DEF SupWaitTun
  <2>2. CASE Start("proofroutes", "none") /\ sup' = Sup("proofroutes")
    <3>1. SupFollows(Command("proofroutes", "none"))
      BY <2>2, <1>s DEF SupPcs, CommandNames
    <3> QED BY <1>10, <2>2, <3>1 DEF SupWaitTun
  <2>3. (Start("proofroutes", "none") /\ sup' = Sup("proofroutes")) \/ UNCHANGED ctl
    BY <1>10 DEF SupWaitTun
  <2> QED BY <2>1, <2>2, <2>3
<1>11. CASE SupProofRoutes
  <2>1. SupFollows(NoCommand)
    BY <1>11, <1>s DEF SupProofRoutes, SupPcs, Reasons
  <2> QED BY <1>11, <2>1 DEF SupProofRoutes
<1>12. CASE SupProbing
  <2>1. CASE UNCHANGED ctl
    <3>1. SupFollows(ctl["sup"])
      BY <1>12, <2>1, <1>s, <1>x DEF SupProbing, SupPcs, Reasons
    <3> QED BY <1>12, <1>u, <2>1, <3>1 DEF SupProbing
  <2>2. CASE Start("probe", "none") /\ sup' = Sup("probe")
    <3>1. SupFollows(Command("probe", "none"))
      BY <2>2, <1>s DEF SupPcs, CommandNames
    <3> QED BY <1>12, <2>2, <3>1 DEF SupProbing
  <2>3. (Start("probe", "none") /\ sup' = Sup("probe")) \/ UNCHANGED ctl
    BY <1>12 DEF SupProbing
  <2> QED BY <2>1, <2>2, <2>3
<1>13. CASE SupProbe
  <2>1. CASE Start("connect", "none") /\ sup' = Sup("connect")
    <3>1. SupFollows(Command("connect", "none"))
      BY <2>1, <1>s DEF SupPcs, CommandNames, ReadCommands
    <3> QED BY <1>13, <2>1, <3>1 DEF SupProbe
  <2>2. CASE Advance("sup", NoCommand)
    <3>1. SupFollows(NoCommand)
      BY <1>13, <2>2, <1>s, <1>x DEF SupProbe, SupPcs, Reasons, Sup, Exit
    <3> QED BY <1>13, <2>2, <3>1 DEF SupProbe
  <2> QED BY <1>13, <2>1, <2>2 DEF SupProbe
<1>14. CASE SupConnect
  <2>1. SupFollows(NoCommand)
    BY <1>14, <1>s, <1>x DEF SupConnect, SupPcs, Reasons
  <2> QED BY <1>14, <2>1 DEF SupConnect
<1>15. CASE SupBridge
  <2>1. SupFollows(ctl["sup"])
    BY <1>15, <1>s, <1>x DEF SupBridge, SupPcs, Reasons
  <2> QED BY <1>15, <1>u, <2>1 DEF SupBridge, KillChild
<1>16. CASE SupRun
  <2>1. SupFollows(ctl["sup"])
    BY <1>16, <1>s, <1>x DEF SupRun, SupPcs, Reasons
  <2> QED BY <1>16, <1>u, <2>1 DEF SupRun, KillChild
<1>17. CASE SupExit
  <2>1. SupFollows(ctl["sup"])
    BY <1>17, <1>s DEF SupExit, SupPcs, Reasons
  <2> QED BY <1>17, <1>u, <2>1 DEF SupExit, KillChild
<1>18. CASE SupReap
  <2>1. SupFollows(Command("down", sup.reason))
    BY <1>18 DEF SupReap, SupFollows, Sup, CommandNames, ReadCommands
  <2> QED BY <1>18, <2>1 DEF SupReap
<1>19. CASE SupDown
  <2>1. SupFollows(NoCommand)
    BY <1>19 DEF SupDown, SupFollows
  <2> QED BY <1>19, <2>1 DEF SupDown
<1>20. CASE SupDies
  <2>1. ctl' = [ctl EXCEPT !["sup"] = NoCommand] /\ UNCHANGED budget
    BY <1>20 DEF SupDies, NoOrphans
  <2>2. SupFollows(NoCommand)
    BY <1>20 DEF SupDies, SupFollows
  <2> QED BY <1>20, <2>1, <2>2 DEF SupDies, Dying, Untrapped
<1> QED
  BY <1>1, <1>2, <1>3, <1>4, <1>5, <1>6, <1>7, <1>8, <1>9, <1>10,
     <1>11, <1>12, <1>13, <1>14, <1>15, <1>16, <1>17, <1>18, <1>19, <1>20
  DEF Supervisor

\* A command that has just been started has read nothing yet.
LEMMA CommandKnowsNot ==
  ASSUME NEW name \in CommandNames \ {"none"}, NEW why \in Reasons
  PROVE  /\ ~Knows(Command(name, why)) /\ Command(name, why).cmd = name
         /\ Command(name, why).reason = why
<1>1. Command(name, why).cmd = name /\ Command(name, why).reason = why
  BY DEF Command, NoCommand
<1>2. name \in ReadCommands => Command(name, why).steps = <<"read">>
  BY DEF Command, NoCommand, ReadCommands
<1>3. Head(<<"read">>) = "read"
  OBVIOUS
<1> QED BY <1>1, <1>2, <1>3 DEF Knows

\* No step of the supervisor opens a closed egress.
LEMMA SupervisorClosed ==
  ASSUME TypeOK, ClosedInv, Supervisor
  PROVE  ClosedInv'
<1>1. PICK n : ctl' = [ctl EXCEPT !["sup"] = n] /\ SupFollows(n)
  BY SupervisorFollows DEF ClosedInv
<1>2. /\ sup.pc # "absent" /\ UNCHANGED <<desired, nft, init, procd, armed, sealed>>
      /\ budget'.orphans = budget.orphans
  BY SupervisorFollows DEF ClosedInv
<1>3. ctl'["sup"] = n /\ \A d \in Owners \ {"sup"} : ctl'[d] = ctl[d]
  BY <1>1 DEF TypeOK, ProcsOK, Owners
<1>4. {"sup", "init", "orphan", "phone"} = Owners
  BY DEF Owners
<1>5. NoOrphans' /\ PhoneProbes' /\ InitWaits'
  BY <1>2, <1>3, <1>4 DEF ClosedInv, NoOrphans, PhoneProbes, InitWaits, Idle
<1>6. SupAbsent' /\ InitHalted'
  <2>1. SupAbsent'
    BY <1>1, <1>3 DEF SupFollows, SupAbsent
  <2>2. InitHalted'
    BY <1>2 DEF ClosedInv, InitHalted
  <2> QED BY <2>1, <2>2
<1>7. /\ ~Knows(NoCommand) /\ NoCommand.cmd = "none" /\ NoCommand.reason = "none"
      /\ NoSup.reason = "tunnel_start_failed" /\ ~NoSup.stopping /\ ~NoSup.term
  BY DEF NoCommand, NoSup, Knows
<1>8. /\ n = ctl["sup"] \/ ~Knows(n)
      /\ n.cmd = "cleanup" => ctl["sup"].cmd = "cleanup" \/ Mode(desired) = "off"
      /\ n.reason = "runtime_stopped" =>
            "runtime_stopped" \in {sup.reason, ctl["sup"].reason}
  BY <1>1, <1>7, CommandKnowsNot DEF SupFollows
<1>9. StopIsAsked'
  <2>1. CASE sup' = NoSup /\ n = NoCommand
    BY <1>3, <1>7, <2>1 DEF StopIsAsked
  <2>2. CASE /\ sup'.term = sup.term
             /\ sup'.stopping => sup.stopping \/ sup.term
             /\ sup'.reason = "runtime_stopped" =>
                   sup.reason = "runtime_stopped" \/ sup.term
    BY <1>3, <1>8, <2>2 DEF ClosedInv, StopIsAsked
  <2> QED BY <1>1, <2>1, <2>2 DEF SupFollows
<1>10. sup.term \/ ~sup'.term
  BY <1>1, <1>7 DEF SupFollows, TypeOK, ProcsOK, Sups
<1>11. ArmedOK'
  <2> SUFFICES ASSUME armed' PROVE ArmedOK'
    BY DEF ArmedOK
  <2>1. /\ Native(desired) /\ init = "idle" /\ ~sup.term /\ ~Open
        /\ ctl["sup"].cmd # "cleanup"
        /\ Knows(ctl["sup"]) => ctl["sup"].st = desired
    BY <1>2 DEF ClosedInv, ArmedOK
  <2>2. Mode(desired) # "off"
    BY <2>1, RuntimeAssumption DEF Mode, Active, Native
  <2> QED BY <1>2, <1>3, <1>8, <1>10, <2>1, <2>2 DEF ArmedOK, Open, Native
<1>12. SealedOK'
  <2> SUFFICES ASSUME sealed' PROVE SealedOK'
    BY DEF SealedOK
  <2>1. desired.kill /\ ~Open
    BY <1>2 DEF ClosedInv, SealedOK
  <2>2. \A c \in Owners : ctl[c].cmd # "cleanup" /\ (Knows(ctl[c]) => ctl[c].st.kill)
    BY <1>2 DEF ClosedInv, SealedOK
  <2>3. Mode(desired) # "off"
    BY <2>1 DEF Mode
  <2>4. \A c \in Owners : ctl'[c].cmd # "cleanup" /\ (Knows(ctl'[c]) => ctl'[c].st.kill)
    BY <1>3, <1>4, <1>8, <2>2, <2>3
  <2> QED BY <1>2, <2>1, <2>4 DEF SealedOK, Open
<1> QED BY <1>5, <1>6, <1>9, <1>11, <1>12 DEF ClosedInv

\* procd starts and gives up supervisors only when none is left.
LEMMA ProcdClosed ==
  ASSUME TypeOK, ClosedInv, ProcdExit \/ ProcdKill
  PROVE  ClosedInv'
<1>1. ~ProcdKill
  BY DEF ProcdKill, ClosedInv, NoOrphans
<1>2. ProcdExit
  BY <1>1
<1>3. /\ sup.pc = "absent" /\ sup = NoSup /\ ctl["sup"] = NoCommand
      /\ UNCHANGED <<desired, nft, ctl, init, budget, armed, sealed>>
  BY <1>2 DEF ProcdExit, ClosedInv, SupAbsent, kernel, files, ghosts
<1>4. sup' = sup \/ sup' = Fresh
  BY <1>2 DEF ProcdExit
<1>5. /\ Fresh.pc = "mode" /\ ~Fresh.term /\ ~Fresh.stopping
      /\ Fresh.reason = "tunnel_start_failed"
  BY DEF Fresh, NoSup
<1>6. NoOrphans' /\ PhoneProbes' /\ InitWaits' /\ SealedOK'
  BY <1>3 DEF ClosedInv, NoOrphans, PhoneProbes, InitWaits, SealedOK, Idle, Open
<1>7. SupAbsent'
  BY <1>3, <1>4, <1>5 DEF SupAbsent
<1>8. StopIsAsked'
  BY <1>3, <1>4, <1>5 DEF ClosedInv, StopIsAsked, NoCommand
<1>9. ArmedOK'
  BY <1>3, <1>4, <1>5 DEF ClosedInv, ArmedOK, Open, Native
<1>10. InitHalted'
  <2> SUFFICES ASSUME init \in {"recover", "mode", "stopped"} PROVE InitHalted'
    BY <1>3 DEF InitHalted
  <2>1. procd.state \in {"idle", "halting"} /\ ~procd.again
    BY DEF ClosedInv, InitHalted
  <2>2. procd' = [procd EXCEPT !.state = "idle"] /\ sup' = sup
    BY <1>2, <2>1 DEF ProcdExit
  <2>3. procd'.state = "idle" /\ ~procd'.again
    BY <2>1, <2>2 DEF TypeOK, ProcsOK, Procds
  <2> QED BY <1>3, <2>2, <2>3 DEF InitHalted
<1> QED BY <1>6, <1>7, <1>8, <1>9, <1>10 DEF ClosedInv

\* The init script runs cleanup only in mode off, and stops what was armed first.
LEMMA InitScriptClosed ==
  ASSUME TypeOK, ClosedInv, InitScript
  PROVE  ClosedInv'
<1>1. UNCHANGED <<desired, nft, budget, sealed>>
  BY DEF InitScript, InitStop, InitRecover, InitStart, InitReturn, InitRun, kernel, files,
         ghosts
<1>2. Owners = {"sup", "init", "orphan", "phone"}
  BY DEF Owners
<1>3. /\ Fresh.pc = "mode" /\ ~Fresh.term /\ ~Fresh.stopping
      /\ Fresh.reason = "tunnel_start_failed"
  BY DEF Fresh, NoSup
<1>4. CASE InitStop
  <2>1. /\ init' = "recover" /\ ~armed' /\ ctl' = ctl /\ init = "idle"
        /\ sup' = [sup EXCEPT !.term = sup.pc # "absent"]
    BY <1>4 DEF InitStop
  <2>2. NoOrphans' /\ PhoneProbes' /\ InitWaits' /\ ArmedOK' /\ SealedOK'
    BY <1>1, <2>1 DEF ClosedInv, NoOrphans, PhoneProbes, InitWaits, ArmedOK, SealedOK,
                      Idle, Open
  <2>3. sup.pc = "absent" => sup' = sup
    <3> SUFFICES ASSUME sup.pc = "absent" PROVE sup' = sup
      OBVIOUS
    <3>1. sup.term = FALSE
      BY DEF ClosedInv, SupAbsent, NoSup
    <3>2. sup' = [sup EXCEPT !.term = sup.term]
      BY <2>1, <3>1
    <3> QED BY <3>2 DEF TypeOK, ProcsOK, Sups
  <2>4. /\ sup'.pc = sup.pc /\ sup'.stopping = sup.stopping /\ sup'.reason = sup.reason
        /\ sup.pc # "absent" => sup'.term
    BY <2>1 DEF TypeOK, ProcsOK, Sups
  <2>5. SupAbsent'
    BY <2>1, <2>3, <2>4 DEF ClosedInv, SupAbsent
  <2>6. StopIsAsked'
    BY <2>1, <2>3, <2>4 DEF ClosedInv, StopIsAsked
  <2>7. procd'.state = IF sup.pc # "absent" THEN "halting" ELSE "idle"
    BY <1>4 DEF InitStop, TypeOK, ProcsOK, Procds
  <2>8. ~procd'.again
    BY <1>4 DEF InitStop, TypeOK, ProcsOK, Procds
  <2>9. InitHalted'
    BY <2>4, <2>7, <2>8 DEF InitHalted
  <2> QED BY <2>2, <2>5, <2>6, <2>9 DEF ClosedInv
<1>5. CASE InitRecover
  <2>1. /\ init = "recover" /\ init' \in {"idle", "mode", "stopped"}
        /\ UNCHANGED <<ctl, sup, procd, armed>>
    BY <1>5 DEF InitRecover, StartFailed, ghosts
  <2>2. NoOrphans' /\ PhoneProbes' /\ SealedOK' /\ SupAbsent' /\ StopIsAsked'
    BY <1>1, <2>1 DEF ClosedInv, NoOrphans, PhoneProbes, SealedOK, SupAbsent, StopIsAsked,
                      Idle, Open
  <2>3. InitWaits' /\ ArmedOK' /\ InitHalted'
    BY <2>1 DEF ClosedInv, InitWaits, ArmedOK, InitHalted, Idle
  <2> QED BY <2>2, <2>3 DEF ClosedInv
<1>6. CASE InitStart
  <2>1. init \in {"mode", "stopped"} /\ armed' = armed /\ ~armed
    BY <1>6 DEF InitStart, ClosedInv, ArmedOK, ghosts
  <2>2. ASSUME NEW name \in {"cleanup", "block"}, InitRun(name),
               name = "cleanup" => Mode(desired) = "off"
        PROVE  ClosedInv'
    <3>1. /\ init' = "command" /\ UNCHANGED <<sup, procd>>
          /\ ctl'["init"] = Command(name, "none")
          /\ \A d \in Owners \ {"init"} : ctl'[d] = ctl[d]
      BY <2>2 DEF InitRun, TypeOK, ProcsOK, Owners
    <3>2. NoOrphans' /\ PhoneProbes' /\ SupAbsent' /\ StopIsAsked'
      BY <1>1, <1>2, <3>1 DEF ClosedInv, NoOrphans, PhoneProbes, SupAbsent, StopIsAsked, Idle
    <3>3. InitWaits' /\ InitHalted' /\ ArmedOK'
      BY <2>1, <3>1 DEF InitWaits, InitHalted, ArmedOK
    <3>4. ~Knows(ctl'["init"]) /\ ctl'["init"].cmd = name
      BY <2>2, <3>1, CommandKnowsNot DEF CommandNames, ReadCommands, Reasons
    <3>5. SealedOK'
      <4> SUFFICES ASSUME sealed' PROVE SealedOK'
        BY DEF SealedOK
      <4>1. /\ desired.kill /\ ~Open
            /\ \A c \in Owners : /\ ctl[c].cmd # "cleanup"
                                 /\ Knows(ctl[c]) => ctl[c].st.kill
        BY <1>1 DEF ClosedInv, SealedOK
      <4>2. name # "cleanup"
        BY <2>2, <4>1 DEF Mode
      <4>3. \A c \in Owners :
              ctl'[c].cmd # "cleanup" /\ (Knows(ctl'[c]) => ctl'[c].st.kill)
        BY <3>1, <3>4, <4>1, <4>2
      <4>4. desired'.kill /\ ~Open'
        BY <1>1, <4>1 DEF Open
      <4> QED BY <4>3, <4>4 DEF SealedOK
    <3> QED BY <3>2, <3>3, <3>5 DEF ClosedInv
  <2>3. CASE /\ init' = "idle" /\ ctl' = ctl
             /\ sup' = sup \/ (procd.state # "halting" /\ sup' = Fresh)
    <3>1. sup' = sup \/ (procd.state # "halting" /\ sup' = Fresh)
      BY <2>3
    <3>2. NoOrphans' /\ PhoneProbes' /\ SealedOK' /\ ArmedOK' /\ InitHalted'
      BY <1>1, <2>1, <2>3 DEF ClosedInv, NoOrphans, PhoneProbes, SealedOK, ArmedOK,
                              InitHalted, Idle, Open
    <3>3. InitWaits'
      BY <2>1, <2>3 DEF ClosedInv, InitWaits, Idle
    <3>4. CASE sup' = sup
      BY <2>3, <3>2, <3>3, <3>4 DEF ClosedInv, SupAbsent, StopIsAsked
    <3>5. CASE procd.state # "halting" /\ sup' = Fresh
      <4>1. ctl["sup"] = NoCommand
        BY <2>1, <3>5 DEF ClosedInv, InitHalted, SupAbsent
      <4>2. SupAbsent' /\ StopIsAsked'
        BY <1>3, <2>3, <3>5, <4>1 DEF SupAbsent, StopIsAsked, NoCommand
      <4> QED BY <3>2, <3>3, <4>2 DEF ClosedInv
    <3> QED BY <3>1, <3>4, <3>5
  <2> QED BY <1>6, <2>2, <2>3 DEF InitStart, StartFailed
<1>7. CASE InitReturn
  <2>1. /\ init = "command" /\ UNCHANGED <<sup, procd, armed>>
        /\ ctl'["init"] = NoCommand /\ init' = "idle"
        /\ \A d \in Owners \ {"init"} : ctl'[d] = ctl[d]
    BY <1>7 DEF InitReturn, StartFailed, TypeOK, ProcsOK, Owners, ghosts
  <2>2. NoCommand.cmd = "none" /\ ~Knows(NoCommand)
    BY DEF NoCommand, Knows
  <2>3. NoOrphans' /\ PhoneProbes' /\ SupAbsent' /\ StopIsAsked' /\ InitWaits'
    BY <1>1, <1>2, <2>1, <2>2
    DEF ClosedInv, NoOrphans, PhoneProbes, SupAbsent, StopIsAsked, InitWaits, Idle
  <2>4. InitHalted' /\ ArmedOK'
    BY <2>1 DEF ClosedInv, InitHalted, ArmedOK
  <2>5. SealedOK'
    BY <1>1, <2>1, <2>2 DEF ClosedInv, SealedOK, Open
  <2> QED BY <2>3, <2>4, <2>5 DEF ClosedInv
<1> QED BY <1>4, <1>5, <1>6, <1>7 DEF InitScript

\* Edits, reloads, polls, crashes and time do not open a closed egress.
LEMMA OutsideClosed ==
  ASSUME TypeOK, ClosedInv, ChildUp \/ ChildDies \/ (\E s \in Desired : Edit(s)) \/ Reload
                            \/ Poll \/ Age
  PROVE  ClosedInv'
<1>1. CASE (ChildUp \/ ChildDies \/ Reload \/ Age)
  <2>1. /\ UNCHANGED <<desired, nft, ctl, sup, init, procd, armed, sealed>>
        /\ budget'.orphans = budget.orphans
    BY <1>1 DEF ChildUp, ChildDies, Reload, Age, kernel, files, procs, ghosts, TypeOK,
                GhostsOK, Budgets
  <2> QED
    BY <2>1 DEF ClosedInv, NoOrphans, PhoneProbes, InitWaits, SupAbsent, InitHalted,
                StopIsAsked, ArmedOK, SealedOK, Idle, Open
<1>2. CASE \E s \in Desired : Edit(s)
  <2>1. PICK s \in Desired : Edit(s)
    BY <1>2
  <2>2. /\ UNCHANGED <<nft, ctl, sup, init, procd>> /\ desired' = s /\ ~armed'
        /\ sealed' => sealed /\ s.kill
        /\ budget'.orphans = budget.orphans
    BY <2>1 DEF Edit, kernel, procs, TypeOK, GhostsOK, Budgets
  <2> QED
    BY <2>2 DEF ClosedInv, NoOrphans, PhoneProbes, InitWaits, SupAbsent, InitHalted,
                StopIsAsked, ArmedOK, SealedOK, Idle, Open
<1>3. CASE Poll
  <2>1. /\ UNCHANGED <<desired, nft, sup, init, procd, armed, sealed>>
        /\ budget'.orphans = budget.orphans
        /\ ctl'["phone"] = Command("probe", "none")
        /\ \A d \in Owners \ {"phone"} : ctl'[d] = ctl[d]
    BY <1>3 DEF Poll, kernel, ghosts, TypeOK, ProcsOK, GhostsOK, Budgets, Owners
  <2>2. /\ ~Knows(Command("probe", "none")) /\ Command("probe", "none").cmd = "probe"
    BY CommandKnowsNot DEF CommandNames, Reasons
  <2>3. ctl'["sup"] = ctl["sup"] /\ ctl'["init"] = ctl["init"] /\ ctl'["orphan"] = ctl["orphan"]
    BY <2>1 DEF Owners
  <2>4. NoOrphans' /\ PhoneProbes' /\ InitWaits' /\ SupAbsent' /\ InitHalted' /\ StopIsAsked'
    BY <2>1, <2>2, <2>3 DEF ClosedInv, NoOrphans, PhoneProbes, InitWaits, SupAbsent,
                            InitHalted, StopIsAsked, Idle
  <2>5. ArmedOK'
    BY <2>1, <2>3 DEF ClosedInv, ArmedOK, Open
  <2>6. SealedOK'
    BY <2>1, <2>2 DEF ClosedInv, SealedOK, Open
  <2> QED BY <2>4, <2>5, <2>6 DEF ClosedInv
<1> QED BY <1>1, <1>2, <1>3

\* The values at boot and after Reboot.
LEMMA BootClosed ==
  /\ NoCommand.cmd = "none" /\ NoCommand.reason = "none" /\ ~Knows(NoCommand)
  /\ NoSup.reason = "tunnel_start_failed" /\ ~NoSup.stopping /\ ~NoSup.term
BY DEF NoCommand, NoSup, Knows

\* The invariant holds at boot.
LEMMA InitClosed ==
  ASSUME Init, MaxOrphans = 0
  PROVE  ClosedInv
<1>1. /\ \A c \in Owners : ctl[c] = NoCommand
      /\ sup = NoSup /\ init = "idle" /\ ~armed /\ ~sealed /\ budget.orphans = 0
  BY DEF Init
<1>2. Owners = {"sup", "init", "orphan", "phone"}
  BY DEF Owners
<1> QED
  BY <1>1, <1>2, BootClosed
  DEF ClosedInv, NoOrphans, PhoneProbes, InitWaits, SupAbsent, InitHalted, StopIsAsked,
      ArmedOK, SealedOK, Idle

\* A reboot starts over: nothing is armed or sealed.
LEMMA RebootClosed ==
  ASSUME TypeOK, ClosedInv, Reboot
  PROVE  ClosedInv'
<1>1. /\ \A c \in Owners : ctl'[c] = NoCommand
      /\ sup' = NoSup /\ init' = "idle" /\ ~armed' /\ ~sealed'
      /\ budget'.orphans = budget.orphans
  BY DEF Reboot, TypeOK, GhostsOK, Budgets
<1>2. Owners = {"sup", "init", "orphan", "phone"}
  BY DEF Owners
<1> QED
  BY <1>1, <1>2, BootClosed
  DEF ClosedInv, NoOrphans, PhoneProbes, InitWaits, SupAbsent, InitHalted, StopIsAsked,
      ArmedOK, SealedOK, Idle

\* ClosedInv holds in every behaviour in which procd's SIGKILL (or a TERM that
\* arrives while no trap is set) leaves no running command behind: each step
\* keeps it, whichever process takes it.
THEOREM ClosedInvariant ==
  ASSUME MaxOrphans = 0
  PROVE  Spec => []ClosedInv
<1>1. Init => ClosedInv
  BY InitClosed
<1>2. TypeOK /\ ClosedInv /\ [Next]_vars => ClosedInv'
  <2> SUFFICES ASSUME TypeOK, ClosedInv, [Next]_vars PROVE ClosedInv'
    OBVIOUS
  <2>1. ASSUME NEW c \in Owners, Controller(c) \/ Fail(c) PROVE ClosedInv'
    BY <2>1, ControllerClosed
  <2>2. CASE Supervisor
    BY <2>2, SupervisorClosed
  <2>3. CASE ProcdExit \/ ProcdKill
    BY <2>3, ProcdClosed
  <2>4. CASE InitScript
    BY <2>4, InitScriptClosed
  <2>5. CASE Reboot
    BY <2>5, RebootClosed
  <2>6. CASE ChildUp \/ ChildDies \/ (\E s \in Desired : Edit(s)) \/ Reload \/ Poll \/ Age
    BY <2>6, OutsideClosed
  <2>7. CASE UNCHANGED vars
    BY <2>7 DEF vars, kernel, files, procs, ghosts, ClosedInv, NoOrphans, PhoneProbes,
                InitWaits, SupAbsent, InitHalted, StopIsAsked, ArmedOK, SealedOK, Idle,
                Open, Native
  <2> QED BY <2>1, <2>2, <2>3, <2>4, <2>5, <2>6, <2>7 DEF Next, System, Environment
<1> QED BY <1>1, <1>2, TypeCorrect, PTL DEF Spec

\* No loss, failure, respawn, stale command or reload opens the egress of a core
\* profile between the supervisor's first policy and the next change of the
\* state or restart of the service.
THEOREM CoreLossClosed ==
  ASSUME MaxOrphans = 0
  PROVE  Spec => []CoreLossStaysClosed
<1>1. ClosedInv => CoreLossStaysClosed
  BY DEF ClosedInv, ArmedOK, CoreLossStaysClosed
<1> QED BY <1>1, ClosedInvariant, PTL

\* With the kill switch on, nothing opens the egress once the policy of the
\* state is in force, through any number of restarts, reloads and edits that
\* keep the switch on.
THEOREM KillSwitchClosed ==
  ASSUME MaxOrphans = 0
  PROVE  Spec => []KillSwitchStaysClosed
<1>1. ClosedInv => KillSwitchStaysClosed
  BY DEF ClosedInv, SealedOK, KillSwitchStaysClosed
<1> QED BY <1>1, ClosedInvariant, PTL
=============================================================================
