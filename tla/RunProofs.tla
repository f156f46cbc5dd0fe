----------------------------- MODULE RunProofs -----------------------------
(* Proofs that what runs, what is published and what is recorded belong to *)
(* the state the owner last saved, for every value of the constants.       *)
EXTENDS RuntimeProofs

\* Nothing is asked of the service that is not done: no restart is due or under
\* way, and the supervisor has not been told to stop.
Undisturbed == Settled /\ ~sup.term

\* From the stop to the start of a restart procd starts nothing, and a supervisor
\* that is still there has been told to stop.
HaltTerms ==
  /\ procd.state \in {"idle", "halting"} => sup.pc = "absent" \/ sup.term
  /\ init # "idle" => procd.state \in {"idle", "halting"} /\ ~procd.again

\* The command a supervisor waits for at each place of its script.
CommandAt(pc) ==
  IF pc = "off" THEN "cleanup"
  ELSE IF pc \in {"block", "prepare", "proofroutes", "probe", "connect", "down"} THEN pc
  ELSE "none"
SupRuns ==
  \/ ctl["sup"].cmd = CommandAt(sup.pc)
  \/ ctl["sup"].cmd = "handler" /\ CommandAt(sup.pc) \notin {"none", "probe"}
InitRuns == ctl["init"].cmd \in {"none", "cleanup", "block", "handler"}
\* A command that succeeded is still what it was started as.
HandlersFailed ==
  \A c \in Owners : /\ ctl[c].cmd = "handler" => ~ctl[c].ok
                    /\ ctl[c].ok \/ ctl[c].cmd \in {"handler", "probe"}

\* From the start of the tunnel process on.
Launched == {"waittun", "proofroutes", "probing", "probe", "connect", "bridge", "run"}

\* A live tunnel is the child of the supervisor that is there, and the newest
\* generation; the history knows what it was started with.
ChildKnown ==
  /\ child.tun => child.alive
  /\ child.alive => /\ sup.mine /\ sup.pc \in Launched \union {"exit"}
                    /\ child.config # NoConfig
                    /\ child.gen = Len(launched)
  /\ child.alive \/ sup.pc \in Launched =>
       child.gen \in 1 .. Len(launched) /\ launched[child.gen] = child.config
  /\ sup.pc \in Launched => child.gen = Len(launched) /\ child.engine = sup.engine

\* While a core tunnel lives its configuration file is its own, or removed.
SecretMatches ==
  child.alive /\ child.engine = "core" => confFile["core"] \in {child.config, NoConfig}

\* What connect and prepare can have left to do, and what they have done by then.
NativeSteps ==
  {<<"nft", "routes", "verify", "check", "prove", "final", "receipt", "status">>,
   <<"routes", "verify", "check", "prove", "final", "receipt", "status">>,
   <<"verify", "check", "prove", "final", "receipt", "status">>,
   <<"check", "prove", "final", "receipt", "status">>,
   <<"prove", "final", "receipt", "status">>,
   <<"final", "receipt", "status">>, <<"receipt", "status">>, <<"status">>, <<>>}
HysteriaSteps == {<<"nft", "routes", "status">>, <<"routes", "status">>, <<"status">>, <<>>}
PrepareSteps ==
  {<<"nft", "routes", "files", "status">>, <<"routes", "files", "status">>,
   <<"files", "status">>, <<"status">>, <<>>}

\* The commands that take a policy back, and the handler.
StopCommands == {"down", "cleanup", "block", "handler"}
StopSteps ==
  {<<"read">>, <<"nft", "routes", "files", "status">>, <<"routes", "files", "status">>,
   <<"files", "status">>, <<"status">>, <<>>,
   <<"files", "mark", "nft", "routes", "status">>, <<"mark", "nft", "routes", "status">>,
   <<"files", "nft", "routes", "status">>, <<"nft", "routes", "status">>,
   <<"routes", "status">>}
StopPlanned ==
  \A c \in Owners : ctl[c].cmd \in StopCommands => ctl[c].steps \in StopSteps

HasRead(k, name) == k.cmd = name /\ k.steps # <<"read">>
TableDone(k)  == Len(k.steps) <= IF Native(k.st) THEN 7 ELSE 2
RoutesDone(k) == Len(k.steps) <= IF Native(k.st) THEN 6 ELSE 1
Verified(k)   == Native(k.st) /\ Len(k.steps) <= 5
Fenced(k)     == Native(k.st) /\ Len(k.steps) <= 2
Recorded(k)   == Native(k.st) /\ Len(k.steps) <= 1
FilesDone(k)  == Len(k.steps) <= 1

Connected(s) == status = Status("connected", TRUE, s.active)
Installed(s) == nft = [mode |-> "normal", rules |-> s.rules]
Routed == child.alive => child.tun /\ route = "tun"

\* connect of the supervisor.  What it wrote stays while nobody tells its supervisor
\* to stop: only the init script's commands write the same tables and files.
ConnectKnows ==
  HasRead(ctl["sup"], "connect") =>
    LET k == ctl["sup"] IN
    /\ k.steps \in IF Native(k.st) THEN NativeSteps ELSE HysteriaSteps
    /\ Undisturbed => k.st = desired
    /\ ~sup.term /\ TableDone(k) => Installed(k.st)
    /\ ~sup.term /\ RoutesDone(k) => Routed
    /\ Undisturbed /\ k.steps = <<>> => Connected(desired)

\* The fence of apply connected, step by step.
FenceKnows ==
  HasRead(ctl["sup"], "connect") =>
    LET k == ctl["sup"] IN
    /\ Native(k.st) => k.gen = child.gen
    /\ Verified(k) => /\ k.fp.mode # "none"
                      /\ sup.term \/ k.fp.rules = k.st.rules
    /\ Fenced(k) => launched[k.gen] = k.st.config
    /\ Undisturbed /\ Recorded(k) =>
         receipt = {[gen |-> k.gen, ident |-> k.st, fp |-> k.fp]}

\* prepare of the supervisor.
PrepareKnows ==
  HasRead(ctl["sup"], "prepare") =>
    LET k == ctl["sup"] IN
    /\ k.steps \in PrepareSteps
    /\ Undisturbed => k.st = desired
    /\ Undisturbed /\ FilesDone(k) => confFile[Engine(desired)] = desired.config

\* What an undisturbed supervisor has at each place of its script is of the desired
\* state, although engine, binary and each command read it on their own.
SupKnows ==
  Undisturbed =>
    /\ sup.pc \in {"prepare", "engine", "binary", "launch"} \union Launched =>
         Active(desired)
    /\ sup.pc \in {"engine", "binary", "launch"} =>
         confFile[Engine(desired)] = desired.config
    /\ sup.pc \in {"binary", "launch"} \union Launched => sup.engine = Engine(desired)
    /\ sup.pc \in Launched => child.config = desired.config
    /\ sup.pc \in {"bridge", "run"} =>
         Connected(desired) /\ Installed(desired) /\ Routed

RunInv ==
  /\ HaltTerms /\ SupRuns /\ InitRuns /\ HandlersFailed /\ ChildKnown /\ SecretMatches
  /\ StopPlanned /\ ConnectKnows /\ FenceKnows /\ PrepareKnows /\ SupKnows /\ ReceiptIsSound

------------------------------------------------------------------------------
(* What is left of a plan after its next step *)

\* The steps of a core connect, by how many are left.
LEMMA NativeStep ==
  ASSUME NEW s \in NativeSteps, s # <<>>
  PROVE  /\ Tail(s) = <<>> <=> Len(s) = 1
         /\ Tail(s) \in NativeSteps /\ Len(s) \in 1 .. 8 /\ Len(Tail(s)) = Len(s) - 1
         /\ Head(s) \in {"nft", "routes", "verify", "check", "prove", "final",
                         "receipt", "status"}
         /\ Head(s) = "nft" <=> Len(s) = 8
         /\ Head(s) = "routes" <=> Len(s) = 7
         /\ Head(s) = "verify" <=> Len(s) = 6
         /\ Head(s) = "final" <=> Len(s) = 3
         /\ Head(s) = "receipt" <=> Len(s) = 2
         /\ Head(s) = "status" <=> Len(s) = 1
<1>1. CASE s = <<"nft", "routes", "verify", "check", "prove", "final", "receipt", "status">>
  <2>1. Head(s) = "nft" /\ Len(s) = 8 /\ Tail(s) = <<"routes", "verify", "check", "prove", "final", "receipt", "status">>
        /\ Len(<<"routes", "verify", "check", "prove", "final", "receipt", "status">>) = 7
    BY <1>1
  <2> QED BY <2>1 DEF NativeSteps
<1>2. CASE s = <<"routes", "verify", "check", "prove", "final", "receipt", "status">>
  <2>1. Head(s) = "routes" /\ Len(s) = 7 /\ Tail(s) = <<"verify", "check", "prove", "final", "receipt", "status">>
        /\ Len(<<"verify", "check", "prove", "final", "receipt", "status">>) = 6
    BY <1>2
  <2> QED BY <2>1 DEF NativeSteps
<1>3. CASE s = <<"verify", "check", "prove", "final", "receipt", "status">>
  <2>1. Head(s) = "verify" /\ Len(s) = 6 /\ Tail(s) = <<"check", "prove", "final", "receipt", "status">>
        /\ Len(<<"check", "prove", "final", "receipt", "status">>) = 5
    BY <1>3
  <2> QED BY <2>1 DEF NativeSteps
<1>4. CASE s = <<"check", "prove", "final", "receipt", "status">>
  <2>1. Head(s) = "check" /\ Len(s) = 5 /\ Tail(s) = <<"prove", "final", "receipt", "status">>
        /\ Len(<<"prove", "final", "receipt", "status">>) = 4
    BY <1>4
  <2> QED BY <2>1 DEF NativeSteps
<1>5. CASE s = <<"prove", "final", "receipt", "status">>
  <2>1. Head(s) = "prove" /\ Len(s) = 4 /\ Tail(s) = <<"final", "receipt", "status">>
        /\ Len(<<"final", "receipt", "status">>) = 3
    BY <1>5
  <2> QED BY <2>1 DEF NativeSteps
<1>6. CASE s = <<"final", "receipt", "status">>
  <2>1. Head(s) = "final" /\ Len(s) = 3 /\ Tail(s) = <<"receipt", "status">>
        /\ Len(<<"receipt", "status">>) = 2
    BY <1>6
  <2> QED BY <2>1 DEF NativeSteps
<1>7. CASE s = <<"receipt", "status">>
  <2>1. Head(s) = "receipt" /\ Len(s) = 2 /\ Tail(s) = <<"status">>
        /\ Len(<<"status">>) = 1
    BY <1>7
  <2> QED BY <2>1 DEF NativeSteps
<1>8. CASE s = <<"status">>
  <2>1. Head(s) = "status" /\ Len(s) = 1 /\ Tail(s) = <<>>
        /\ Len(<<>>) = 0
    BY <1>8
  <2> QED BY <2>1 DEF NativeSteps
<1> QED BY <1>1, <1>2, <1>3, <1>4, <1>5, <1>6, <1>7, <1>8 DEF NativeSteps

\* The same for a Hysteria connect.
LEMMA HysteriaStep ==
  ASSUME NEW s \in HysteriaSteps, s # <<>>
  PROVE  /\ Tail(s) = <<>> <=> Len(s) = 1
         /\ Tail(s) \in HysteriaSteps /\ Len(s) \in 1 .. 3 /\ Len(Tail(s)) = Len(s) - 1
         /\ Head(s) = "nft" <=> Len(s) = 3
         /\ Head(s) = "routes" <=> Len(s) = 2
         /\ Head(s) = "status" <=> Len(s) = 1
         /\ Head(s) \in {"nft", "routes", "status"}
<1>1. CASE s = <<"nft", "routes", "status">>
  <2>1. Head(s) = "nft" /\ Len(s) = 3 /\ Tail(s) = <<"routes", "status">>
        /\ Len(<<"routes", "status">>) = 2
    BY <1>1
  <2> QED BY <2>1 DEF HysteriaSteps
<1>2. CASE s = <<"routes", "status">>
  <2>1. Head(s) = "routes" /\ Len(s) = 2 /\ Tail(s) = <<"status">>
        /\ Len(<<"status">>) = 1
    BY <1>2
  <2> QED BY <2>1 DEF HysteriaSteps
<1>3. CASE s = <<"status">>
  <2>1. Head(s) = "status" /\ Len(s) = 1 /\ Tail(s) = <<>>
        /\ Len(<<>>) = 0
    BY <1>3
  <2> QED BY <2>1 DEF HysteriaSteps
<1> QED BY <1>1, <1>2, <1>3 DEF HysteriaSteps

\* The same for prepare.
LEMMA PrepareStep ==
  ASSUME NEW s \in PrepareSteps, s # <<>>
  PROVE  /\ Tail(s) = <<>> <=> Len(s) = 1
         /\ Tail(s) \in PrepareSteps /\ Len(s) \in 1 .. 4 /\ Len(Tail(s)) = Len(s) - 1
         /\ Head(s) = "files" <=> Len(s) = 2
         /\ Head(s) = "status" <=> Len(s) = 1
         /\ Head(s) \in {"nft", "routes", "files", "status"}
<1>1. CASE s = <<"nft", "routes", "files", "status">>
  <2>1. Head(s) = "nft" /\ Len(s) = 4 /\ Tail(s) = <<"routes", "files", "status">>
        /\ Len(<<"routes", "files", "status">>) = 3
    BY <1>1
  <2> QED BY <2>1 DEF PrepareSteps
<1>2. CASE s = <<"routes", "files", "status">>
  <2>1. Head(s) = "routes" /\ Len(s) = 3 /\ Tail(s) = <<"files", "status">>
        /\ Len(<<"files", "status">>) = 2
    BY <1>2
  <2> QED BY <2>1 DEF PrepareSteps
<1>3. CASE s = <<"files", "status">>
  <2>1. Head(s) = "files" /\ Len(s) = 2 /\ Tail(s) = <<"status">>
        /\ Len(<<"status">>) = 1
    BY <1>3
  <2> QED BY <2>1 DEF PrepareSteps
<1>4. CASE s = <<"status">>
  <2>1. Head(s) = "status" /\ Len(s) = 1 /\ Tail(s) = <<>>
        /\ Len(<<>>) = 0
    BY <1>4
  <2> QED BY <2>1 DEF PrepareSteps
<1> QED BY <1>1, <1>2, <1>3, <1>4 DEF PrepareSteps

\* And for the commands that take a policy back.
LEMMA StopStep ==
  ASSUME NEW s \in StopSteps, s # <<>>
  PROVE  /\ Tail(s) \in StopSteps
         /\ Head(s) \in {"read", "nft", "routes", "files", "mark", "status"}
<1>1. CASE s = <<"read">>
  <2>1. Head(s) = "read" /\ Tail(s) = <<>>
    BY <1>1
  <2> QED BY <2>1 DEF StopSteps
<1>2. CASE s = <<"nft", "routes", "files", "status">>
  <2>1. Head(s) = "nft" /\ Tail(s) = <<"routes", "files", "status">>
    BY <1>2
  <2> QED BY <2>1 DEF StopSteps
<1>3. CASE s = <<"routes", "files", "status">>
  <2>1. Head(s) = "routes" /\ Tail(s) = <<"files", "status">>
    BY <1>3
  <2> QED BY <2>1 DEF StopSteps
<1>4. CASE s = <<"files", "status">>
  <2>1. Head(s) = "files" /\ Tail(s) = <<"status">>
    BY <1>4
  <2> QED BY <2>1 DEF StopSteps
<1>5. CASE s = <<"status">>
  <2>1. Head(s) = "status" /\ Tail(s) = <<>>
    BY <1>5
  <2> QED BY <2>1 DEF StopSteps
<1>6. CASE s = <<"files", "mark", "nft", "routes", "status">>
  <2>1. Head(s) = "files" /\ Tail(s) = <<"mark", "nft", "routes", "status">>
    BY <1>6
  <2> QED BY <2>1 DEF StopSteps
<1>7. CASE s = <<"mark", "nft", "routes", "status">>
  <2>1. Head(s) = "mark" /\ Tail(s) = <<"nft", "routes", "status">>
    BY <1>7
  <2> QED BY <2>1 DEF StopSteps
<1>8. CASE s = <<"files", "nft", "routes", "status">>
  <2>1. Head(s) = "files" /\ Tail(s) = <<"nft", "routes", "status">>
    BY <1>8
  <2> QED BY <2>1 DEF StopSteps
<1>9. CASE s = <<"nft", "routes", "status">>
  <2>1. Head(s) = "nft" /\ Tail(s) = <<"routes", "status">>
    BY <1>9
  <2> QED BY <2>1 DEF StopSteps
<1>10. CASE s = <<"routes", "status">>
  <2>1. Head(s) = "routes" /\ Tail(s) = <<"status">>
    BY <1>10
  <2> QED BY <2>1 DEF StopSteps
<1> QED BY <1>1, <1>2, <1>3, <1>4, <1>5, <1>6, <1>7, <1>8, <1>9, <1>10 DEF StopSteps

------------------------------------------------------------------------------
(* Controller steps *)

\* Doing a step, or failing, leaves the rest of a command's record as it was.
LEMMA PopKeeps ==
  ASSUME NEW k \in Commands
  PROVE  /\ Pop(k).cmd = k.cmd /\ Pop(k).ok = k.ok /\ Pop(k).st = k.st
         /\ Pop(k).gen = k.gen /\ Pop(k).fp = k.fp /\ Pop(k).steps = Tail(k.steps)
BY DEF Pop, Commands

\* A failing command becomes the handler; the handler and a probe just end.
LEMMA RaiseTurns ==
  ASSUME NEW k \in Commands
  PROVE  /\ Raise(k).cmd = IF k.cmd = "probe" THEN "probe" ELSE "handler"
         /\ ~Raise(k).ok /\ Raise(k).steps \in {<<>>, <<"read">>}
BY DEF Raise, Commands

\* How a controller step changes a command: it reads state.json and plans, does the
\* next step, or fails.
Turns(n, k) ==
  \/ /\ n.cmd = k.cmd /\ n.ok = k.ok
     /\ \/ n.steps = Tail(k.steps)
        \/ \E r \in Commands : r.cmd = k.cmd /\ n.steps = Plan(r) /\ k.cmd \in ReadCommands
  \/ /\ n.cmd = (IF k.cmd = "probe" THEN "probe" ELSE "handler") /\ ~n.ok
     /\ n.steps \in {<<>>, <<"read">>}

\* That is all a controller step does, besides what it writes.
LEMMA ControllerTurns ==
  ASSUME TypeOK, NEW c \in Owners, Controller(c) \/ Fail(c)
  PROVE  /\ \E n : /\ ctl' = [ctl EXCEPT ![c] = n]
                   /\ \/ Turns(n, ctl[c]) /\ ctl[c].steps # <<>>
                      \/ n = NoCommand /\ c \in {"orphan", "phone"}
         /\ UNCHANGED <<desired, sup, child, init, procd, pending, launched>>
         /\ ctl[c].cmd # "none"
<1> USE DEF At, Advance, kernel, files, procs, ghosts
<1>k. ctl[c] \in Commands
  BY DEF TypeOK, ProcsOK
<1>r. Turns(Raise(ctl[c]), ctl[c])
  BY <1>k, RaiseTurns DEF Turns
<1>p. Turns(Pop(ctl[c]), ctl[c])
  BY <1>k, PopKeeps DEF Turns
<1>1. CASE Read(c)
  <2> DEFINE k == [ctl[c] EXCEPT !.st = desired]
             g == IF k.cmd = "connect" /\ Native(k.st) THEN child.gen ELSE 0
             n == [k EXCEPT !.steps = Plan(k), !.gen = g]
  <2>1. k \in Commands /\ k.cmd = ctl[c].cmd /\ k.ok = ctl[c].ok
    BY <1>k DEF Commands, TypeOK
  <2>2. ctl' = [ctl EXCEPT ![c] = n] \/ ctl' = [ctl EXCEPT ![c] = Raise(k)]
    BY <1>1 DEF Read
  <2> HIDE DEF k
  <2>3. Turns(Raise(k), ctl[c])
    BY <2>1, RaiseTurns DEF Turns
  <2>4. Turns(n, ctl[c])
    <3>1. n.cmd = k.cmd /\ n.ok = k.ok /\ n.steps = Plan(k)
      <4> HIDE DEF g
      <4> QED BY <2>1 DEF Commands
    <3>2. ctl[c].cmd \in ReadCommands
      BY <1>1, <1>k, HeadType DEF Read, Busy, ProbeSteps
    <3> QED BY <2>1, <3>1, <3>2 DEF Turns
  <2> HIDE DEF n
  <2> QED BY <1>1, <2>2, <2>3, <2>4 DEF Read, Busy
<1>2. CASE PolicyTable(c)
  BY <1>2, <1>r, <1>p DEF PolicyTable, Busy
<1>3. CASE PolicyRoutes(c)
  BY <1>3, <1>r, <1>p DEF PolicyRoutes, Busy
<1>4. CASE ProofRoutes(c)
  BY <1>4, <1>r, <1>p DEF ProofRoutes, Busy
<1>5. CASE Files(c)
  BY <1>5, <1>r, <1>p DEF Files, Busy
<1>6. CASE Mark(c)
  BY <1>6, <1>r, <1>p DEF Mark, Busy
<1>7. CASE Check(c)
  <2> DEFINE k == [ctl[c] EXCEPT !.pst = desired]
  <2>1. k \in Commands /\ k.cmd = ctl[c].cmd /\ k.ok = ctl[c].ok /\ k.steps = ctl[c].steps
    BY <1>k DEF Commands, TypeOK
  <2>2. ctl' = [ctl EXCEPT ![c] = Pop(k)] \/ ctl' = [ctl EXCEPT ![c] = Raise(k)]
    BY <1>7 DEF Check
  <2> HIDE DEF k
  <2>3. Turns(Raise(k), ctl[c]) /\ Turns(Pop(k), ctl[c])
    BY <2>1, RaiseTurns, PopKeeps DEF Turns
  <2> QED BY <1>7, <2>2, <2>3 DEF Check, Busy
<1>8. CASE Prove(c)
  BY <1>8, <1>r, <1>p DEF Prove, Busy
<1>9. CASE Verify(c)
  <2> DEFINE n == [Pop(ctl[c]) EXCEPT !.fp = nft]
  <2>1. Turns(n, ctl[c])
    <3>1. n.cmd = Pop(ctl[c]).cmd /\ n.ok = Pop(ctl[c]).ok /\ n.steps = Pop(ctl[c]).steps
      BY <1>k DEF Commands, Pop
    <3> QED BY <1>k, <3>1, PopKeeps DEF Turns
  <2>2. ctl' = [ctl EXCEPT ![c] = n] \/ ctl' = [ctl EXCEPT ![c] = Raise(ctl[c])]
    BY <1>9 DEF Verify
  <2> HIDE DEF n
  <2> QED BY <1>9, <1>r, <2>1, <2>2 DEF Verify, Busy
<1>10. CASE Final(c)
  BY <1>10, <1>r, <1>p DEF Final, Busy
<1>11. CASE Receipt(c)
  BY <1>11, <1>r, <1>p DEF Receipt, Busy
<1>12. CASE WriteStatus(c)
  BY <1>12, <1>r, <1>p DEF WriteStatus, Busy
<1>13. CASE Collect(c)
  BY <1>13 DEF Collect, Finished
<1>14. CASE Fail(c)
  BY <1>14, <1>r DEF Fail, Busy
<1> QED
  BY <1>1, <1>2, <1>3, <1>4, <1>5, <1>6, <1>7, <1>8, <1>9, <1>10, <1>11, <1>12,
     <1>13, <1>14
  DEF Controller

\* A step of a command leaves alone what only other processes write, and keeps
\* each supervisor command the one its place in the script calls for.
LEMMA ControllerRuns ==
  ASSUME TypeOK, ClosedInv, RunInv, NEW c \in Owners, Controller(c) \/ Fail(c)
  PROVE  /\ HaltTerms' /\ SupRuns' /\ InitRuns' /\ HandlersFailed' /\ ChildKnown'
         /\ StopPlanned'
         /\ Undisturbed' <=> Undisturbed
<1>1. PICK n : /\ ctl' = [ctl EXCEPT ![c] = n]
               /\ \/ Turns(n, ctl[c]) /\ ctl[c].steps # <<>>
                  \/ n = NoCommand /\ c \in {"orphan", "phone"}
  BY ControllerTurns
<1>2. /\ UNCHANGED <<desired, sup, child, init, procd, pending, launched>>
      /\ ctl[c].cmd # "none"
  BY ControllerTurns
<1>3. ctl'[c] = n /\ \A d \in Owners \ {c} : ctl'[d] = ctl[d]
  BY <1>1 DEF TypeOK, ProcsOK
<1>4. HaltTerms' /\ ChildKnown' /\ (Undisturbed' <=> Undisturbed)
  BY <1>2 DEF RunInv, HaltTerms, ChildKnown, Undisturbed, Settled
<1>5. Owners = {"sup", "init", "orphan", "phone"}
  BY DEF Owners
<1>6. SupRuns'
  <2>1. CASE c = "sup"
    BY <1>1, <1>2, <1>3, <2>1 DEF RunInv, SupRuns, Turns, CommandAt
  <2>2. CASE c # "sup"
    BY <1>2, <1>3, <1>5, <2>2 DEF RunInv, SupRuns, CommandAt
  <2> QED BY <2>1, <2>2
<1>7. InitRuns'
  BY <1>1, <1>2, <1>3, <1>5 DEF RunInv, InitRuns, Turns
<1>8. HandlersFailed'
  <2>1. NoCommand.ok /\ NoCommand.cmd = "none"
    BY DEF NoCommand
  <2> QED BY <1>1, <1>3, <2>1 DEF RunInv, HandlersFailed, Turns
<1>9. StopPlanned'
  <2>1. ASSUME n.cmd \in StopCommands PROVE n.steps \in StopSteps
    <3>1. Turns(n, ctl[c]) /\ ctl[c].steps # <<>>
      BY <1>1, <2>1 DEF NoCommand, StopCommands
    <3>2. CASE n.steps \in {<<>>, <<"read">>}
      BY <3>2 DEF StopSteps
    <3>3. CASE n.steps = Tail(ctl[c].steps) /\ n.cmd = ctl[c].cmd
      BY <2>1, <3>1, <3>3, StopStep DEF RunInv, StopPlanned
    <3>4. CASE \E r \in Commands : r.cmd = n.cmd /\ n.steps = Plan(r)
      <4>1. PICK r \in Commands : r.cmd = n.cmd /\ n.steps = Plan(r)
        BY <3>4
      <4> QED BY <2>1, <4>1 DEF Plan, StopCommands, StopSteps
    <3> QED BY <3>1, <3>2, <3>3, <3>4 DEF Turns
  <2> QED BY <1>3, <2>1 DEF RunInv, StopPlanned
<1> QED BY <1>4, <1>6, <1>7, <1>8, <1>9

\* Where a connect is after its next step.
LEMMA ConnectPops ==
  ASSUME NEW k \in Commands, k.cmd = "connect", k.steps # <<>>,
         k.steps \in IF Native(k.st) THEN NativeSteps ELSE HysteriaSteps,
         NEW n, n.st = k.st, n.steps = Tail(k.steps)
  PROVE  /\ n.steps \in IF Native(n.st) THEN NativeSteps ELSE HysteriaSteps
         /\ TableDone(n) <=> TableDone(k) \/ Head(k.steps) = "nft"
         /\ RoutesDone(n) <=> RoutesDone(k) \/ Head(k.steps) = "routes"
         /\ Verified(n) <=> Verified(k) \/ Head(k.steps) = "verify"
         /\ Fenced(n) <=> Fenced(k) \/ Head(k.steps) = "final"
         /\ Recorded(n) <=> Recorded(k) \/ (Native(k.st) /\ Head(k.steps) = "receipt")
         /\ Recorded(k) => Head(k.steps) \notin {"verify", "receipt"}
         /\ n.steps = <<>> => Head(k.steps) = "status"
         /\ RoutesDone(k) \/ Head(k.steps) = "routes" => TableDone(k)
         /\ Verified(k) \/ Head(k.steps) = "verify" => RoutesDone(k)
         /\ Fenced(k) \/ Head(k.steps) = "final" => Verified(k)
         /\ Head(k.steps) = "receipt" => Native(k.st) /\ Fenced(k) /\ Verified(k)
         /\ Head(k.steps) = "verify" \/ Head(k.steps) = "final" => Native(k.st)
         /\ Head(k.steps) \notin {"read", "files", "mark", "proofroutes"}
<1> USE DEF TableDone, RoutesDone, Verified, Fenced, Recorded
<1>1. CASE Native(k.st)
  <2>1. k.steps \in NativeSteps
    BY <1>1
  <2>2. /\ Tail(k.steps) \in NativeSteps /\ Len(k.steps) \in 1 .. 8
        /\ Len(Tail(k.steps)) = Len(k.steps) - 1
        /\ Head(k.steps) \in {"nft", "routes", "verify", "check", "prove", "final",
                              "receipt", "status"}
        /\ Head(k.steps) = "nft" <=> Len(k.steps) = 8
        /\ Head(k.steps) = "routes" <=> Len(k.steps) = 7
        /\ Head(k.steps) = "verify" <=> Len(k.steps) = 6
        /\ Head(k.steps) = "final" <=> Len(k.steps) = 3
        /\ Head(k.steps) = "receipt" <=> Len(k.steps) = 2
        /\ Head(k.steps) = "status" <=> Len(k.steps) = 1
    BY <2>1, NativeStep
  <2>3. n.steps = <<>> => Len(k.steps) = 1
    BY <2>1, NativeStep
  <2>4. Native(n.st) /\ n.steps \in NativeSteps /\ Len(n.steps) = Len(k.steps) - 1
    BY <1>1, <2>2
  <2>5. PICK i \in 1 .. 8 : Len(k.steps) = i
    BY <2>2
  <2>6. PICK j \in 0 .. 7 : j = i - 1
    OBVIOUS
  <2>7. Len(n.steps) = j
    BY <2>4, <2>5, <2>6
  <2> QED BY <1>1, <2>2, <2>3, <2>4, <2>5, <2>6, <2>7
<1>2. CASE ~Native(k.st)
  <2>1. k.steps \in HysteriaSteps
    BY <1>2
  <2>2. /\ Tail(k.steps) \in HysteriaSteps /\ Len(k.steps) \in 1 .. 3
        /\ Len(Tail(k.steps)) = Len(k.steps) - 1
        /\ Head(k.steps) = "nft" <=> Len(k.steps) = 3
        /\ Head(k.steps) = "routes" <=> Len(k.steps) = 2
        /\ Head(k.steps) = "status" <=> Len(k.steps) = 1
        /\ Head(k.steps) \in {"nft", "routes", "status"}
    BY <2>1, HysteriaStep
  <2>3. n.steps = <<>> => Len(k.steps) = 1
    BY <2>1, HysteriaStep
  <2>4. ~Native(n.st) /\ n.steps \in HysteriaSteps /\ Len(n.steps) = Len(k.steps) - 1
    BY <1>2, <2>2
  <2>5. PICK i \in 1 .. 3 : Len(k.steps) = i
    BY <2>2
  <2>6. PICK j \in 0 .. 2 : j = i - 1
    OBVIOUS
  <2>7. Len(n.steps) = j
    BY <2>4, <2>5, <2>6
  <2> QED BY <1>2, <2>2, <2>3, <2>4, <2>5, <2>6, <2>7
<1> QED BY <1>1, <1>2

\* The plans of connect and prepare are among the lists above.
LEMMA PlansKnown ==
  ASSUME NEW k \in Commands
  PROVE  /\ k.cmd = "connect" /\ Native(k.st) =>
              Plan(k) \in NativeSteps /\ Len(Plan(k)) = 8
         /\ k.cmd = "connect" /\ ~Native(k.st) =>
              Plan(k) \in HysteriaSteps /\ Len(Plan(k)) = 3
         /\ k.cmd = "prepare" => Plan(k) \in PrepareSteps /\ Len(Plan(k)) \in {2, 4}
<1> DEFINE a == <<"nft", "routes", "verify", "check", "prove", "final">>
           b == <<"receipt", "status">>
           w == <<"nft", "routes", "verify", "check", "prove", "final", "receipt", "status">>
<1>1. a \o b = w
  <2>1. a \in Seq(Steps) /\ b \in Seq(Steps) /\ w \in Seq(Steps)
        /\ Len(a) = 6 /\ Len(b) = 2 /\ Len(w) = 8
    BY DEF Steps
  <2>2. /\ a \o b \in Seq(Steps) /\ Len(a \o b) = 8
        /\ \A i \in 1 .. 8 : (a \o b)[i] = IF i <= 6 THEN a[i] ELSE b[i - 6]
    <3> HIDE DEF a, b
    <3>1. /\ a \o b \in Seq(Steps) /\ Len(a \o b) = Len(a) + Len(b)
          /\ \A i \in 1 .. Len(a) + Len(b) :
                (a \o b)[i] = IF i <= Len(a) THEN a[i] ELSE b[i - Len(a)]
      BY <2>1, ConcatProperties
    <3>2. Len(a) + Len(b) = 8 /\ Len(a) = 6
      BY <2>1
    <3> QED BY <3>1, <3>2
  <2>3. \A i \in 1 .. 8 : (a \o b)[i] = w[i]
    <3>1. \A i \in 1 .. 8 : i \in {1, 2, 3, 4, 5, 6, 7, 8}
      OBVIOUS
    <3>2. a[1] = w[1] /\ a[2] = w[2] /\ a[3] = w[3] /\ a[4] = w[4] /\ a[5] = w[5]
          /\ a[6] = w[6] /\ b[1] = w[7] /\ b[2] = w[8]
      OBVIOUS
    <3> HIDE DEF a, b, w
    <3>3. ASSUME NEW i \in {1, 2, 3, 4, 5, 6} PROVE (a \o b)[i] = a[i]
      <4>1. i \in 1 .. 8 /\ i <= 6
        OBVIOUS
      <4> QED BY <2>2, <4>1
    <3>4. (a \o b)[7] = b[7 - 6] /\ (a \o b)[8] = b[8 - 6]
      BY <2>2
    <3>5. 7 - 6 = 1 /\ 8 - 6 = 2
      OBVIOUS
    <3>6. (a \o b)[7] = b[1] /\ (a \o b)[8] = b[2]
      BY <3>4, <3>5
    <3>7. \A i \in {1, 2, 3, 4, 5, 6} : (a \o b)[i] = w[i]
      <4> TAKE i \in {1, 2, 3, 4, 5, 6}
      <4>1. a[i] = w[i]
        BY <3>2
      <4>2. (a \o b)[i] = a[i]
        BY <3>3
      <4> QED BY <4>1, <4>2, Zenon
    <3>8. (a \o b)[7] = w[7] /\ (a \o b)[8] = w[8]
      BY <3>2, <3>6
    <3> QED BY <3>1, <3>7, <3>8
  <2> HIDE DEF a, b, w
  <2> QED BY <2>1, <2>2, <2>3, SeqEqual
<1>2. Len(w) = 8
  OBVIOUS
<1>3. CASE k.cmd = "connect" /\ Native(k.st)
  <2>1. Plan(k) = a \o b
    BY <1>3 DEF Plan, Publish
  <2>2. Plan(k) = w
    BY <1>1, <2>1
  <2> QED BY <1>2, <1>3, <2>2 DEF NativeSteps
<1>4. CASE k.cmd = "connect" /\ ~Native(k.st)
  <2>1. Plan(k) = <<"nft", "routes", "status">>
    BY <1>4 DEF Plan
  <2> QED BY <1>4, <2>1 DEF HysteriaSteps
<1>5. CASE k.cmd = "prepare"
  <2>1. Plan(k) = <<"nft", "routes", "files", "status">> \/ Plan(k) = <<"files", "status">>
    BY <1>5 DEF Plan
  <2> QED BY <1>5, <2>1 DEF PrepareSteps
<1> QED BY <1>3, <1>4, <1>5

\* What the last fence of apply connected has seen determines the configuration the
\* running generation was started with: the live core tunnel's file is its own, and
\* the proof is of the profile the file holds.
LEMMA FenceMatches ==
  ASSUME TypeOK, ChildKnown, SecretMatches, NEW k \in Commands, Native(k.st), FinalFence(k)
  PROVE  /\ child.alive /\ k.gen = child.gen /\ k.gen \in 1 .. Len(launched)
         /\ launched[k.gen] = k.st.config
<1>1. /\ child.alive /\ child.engine = "core" /\ child.gen = k.gen
      /\ k.gen \in 1 .. Len(launched) /\ launched[k.gen] = child.config
  BY DEF FinalFence, Owned, ChildKnown
<1>2. PICK p \in proof : confFile["core"] = p.config
  BY DEF FinalFence
<1>3. PICK q \in proof : q.config = k.st.config
  BY DEF FinalFence, ProofValid
<1>4. p = q
  BY DEF TypeOK, FilesOK
<1>5. k.st.config # NoConfig
  <2>1. k.st \in Desired /\ DesiredRecord(k.st)
    BY RuntimeAssumption DEF Commands
  <2> QED BY <2>1, RuntimeAssumption DEF DesiredRecord, Native
<1> QED BY <1>1, <1>2, <1>3, <1>4, <1>5 DEF SecretMatches

\* Each step of the supervisor's connect: the invariant of what it has written and
\* of what its fence has seen.
LEMMA ConnectSteps ==
  ASSUME TypeOK, ClosedInv, RunInv, Controller("sup") \/ Fail("sup")
  PROVE  ConnectKnows' /\ FenceKnows'
<1> DEFINE k == ctl["sup"]
           n == ctl'["sup"]
<1> SUFFICES ASSUME HasRead(n, "connect") PROVE ConnectKnows' /\ FenceKnows'
  BY DEF ConnectKnows, FenceKnows
<1>1. "sup" \in Owners /\ k \in Commands /\ n.cmd = "connect" /\ n.steps # <<"read">>
  BY DEF Owners, TypeOK, ProcsOK, HasRead
<1>2. /\ UNCHANGED <<desired, sup, child, init, procd, pending, launched>>
      /\ Undisturbed' <=> Undisturbed
  BY <1>1, ControllerTurns, ControllerRuns
<1>3. k.cmd = "connect"
  BY <1>1, ControllerTurns DEF Turns, TypeOK, ProcsOK, NoCommand
<1>4. ASSUME NEW m \in Commands, n = Raise(m) PROVE FALSE
  BY <1>1, <1>4, RaiseTurns
<1>5. \A m : Advance("sup", m) => n = m
  BY <1>1 DEF Advance, TypeOK, ProcsOK
<1> HIDE DEF n
<1>6. CASE Read("sup")
  <2> DEFINE r == [k EXCEPT !.st = desired]
             g == IF r.cmd = "connect" /\ Native(r.st) THEN child.gen ELSE 0
             m == [r EXCEPT !.steps = Plan(r), !.gen = g]
  <2>1. r \in Commands /\ r.cmd = "connect" /\ r.st = desired
    BY <1>1, <1>3 DEF Commands, TypeOK
  <2>2. n = m
    BY <1>4, <1>5, <1>6, <2>1 DEF Read
  <2>3. Native(desired) => n.gen = child.gen
    BY <2>1, <2>2 DEF Commands
  <2>4. n.st = desired /\ n.steps = Plan(r)
    <3> HIDE DEF g
    <3> QED BY <2>1, <2>2 DEF Commands
  <2> HIDE DEF r
  <2>5. /\ n.steps \in IF Native(n.st) THEN NativeSteps ELSE HysteriaSteps
        /\ Len(n.steps) = IF Native(n.st) THEN 8 ELSE 3
    BY <2>1, <2>4, PlansKnown
  <2>6. ~TableDone(n) /\ ~RoutesDone(n) /\ ~Verified(n) /\ ~Fenced(n) /\ ~Recorded(n)
        /\ n.steps # <<>>
    BY <2>5 DEF TableDone, RoutesDone, Verified, Fenced, Recorded
  <2>7. ConnectKnows'
    BY <1>2, <2>4, <2>5, <2>6 DEF ConnectKnows, n, TableDone, RoutesDone, Native
  <2>8. FenceKnows'
    BY <1>2, <2>3, <2>4, <2>6 DEF FenceKnows, n, Verified, Fenced, Recorded, Native
  <2> QED BY <2>7, <2>8
<1>k. ASSUME Busy("sup"), Head(k.steps) # "read"
      PROVE  /\ k.steps # <<>> /\ HasRead(k, "connect")
             /\ k.steps \in IF Native(k.st) THEN NativeSteps ELSE HysteriaSteps
             /\ Undisturbed => k.st = desired
             /\ ~sup.term /\ TableDone(k) => Installed(k.st)
             /\ ~sup.term /\ RoutesDone(k) => Routed
             /\ Native(k.st) => k.gen = child.gen
             /\ Verified(k) => /\ k.fp.mode # "none"
                               /\ sup.term \/ k.fp.rules = k.st.rules
             /\ Fenced(k) => launched[k.gen] = k.st.config
             /\ Undisturbed /\ Recorded(k) =>
                  receipt = {[gen |-> k.gen, ident |-> k.st, fp |-> k.fp]}
             /\ TableDone(Pop(k)) <=> TableDone(k) \/ Head(k.steps) = "nft"
             /\ RoutesDone(Pop(k)) <=> RoutesDone(k) \/ Head(k.steps) = "routes"
             /\ Pop(k).cmd = "connect"
  <2>1. Head(<<"read">>) = "read"
    OBVIOUS
  <2>2. k.steps # <<>> /\ HasRead(k, "connect")
    BY <1>3, <1>k, <2>1 DEF Busy, HasRead
  <2> QED BY <1>1, <1>3, <2>2, ConnectPops, PopKeeps DEF RunInv, ConnectKnows, FenceKnows
<1>c. ASSUME Busy("sup"), Head(k.steps) # "read",
             n.st = k.st, n.steps = Tail(k.steps),
             IF Head(k.steps) = "nft" THEN sup.term \/ nft' = [mode |-> "normal", rules |-> k.st.rules]
             ELSE nft' = nft,
             IF Head(k.steps) = "routes" THEN sup.term \/ Routed' ELSE route' = route,
             Head(k.steps) = "status" /\ Undisturbed =>
               status' = Status("connected", TRUE, k.st.active)
      PROVE  ConnectKnows'
  <2>1. /\ n.steps \in IF Native(n.st) THEN NativeSteps ELSE HysteriaSteps
        /\ TableDone(n) <=> TableDone(k) \/ Head(k.steps) = "nft"
        /\ RoutesDone(n) <=> RoutesDone(k) \/ Head(k.steps) = "routes"
        /\ n.steps = <<>> => Head(k.steps) = "status"
    BY <1>1, <1>3, <1>c, <1>k, ConnectPops
  <2>2. Undisturbed => k.st = desired
    BY <1>k, <1>c
  <2>3. ~sup.term /\ TableDone(n) => nft' = [mode |-> "normal", rules |-> k.st.rules]
    BY <1>c, <1>k, <2>1 DEF Installed
  <2>4. ~sup.term /\ RoutesDone(n) => Routed'
    BY <1>2, <1>c, <1>k, <2>1 DEF Routed
  <2> QED
    BY <1>2, <1>c, <2>1, <2>2, <2>3, <2>4
    DEF ConnectKnows, n, TableDone, RoutesDone, Native, Installed, Connected
<1>f. ASSUME Busy("sup"), Head(k.steps) # "read",
             n.st = k.st, n.steps = Tail(k.steps), n.gen = k.gen,
             IF Head(k.steps) = "verify"
             THEN n.fp.mode # "none" /\ (sup.term \/ n.fp.rules = k.st.rules)
             ELSE n.fp = k.fp,
             Head(k.steps) = "final" => launched[k.gen] = k.st.config,
             IF Head(k.steps) = "receipt"
             THEN receipt' = {[gen |-> k.gen, ident |-> k.st, fp |-> k.fp]}
             ELSE receipt' = receipt
      PROVE  FenceKnows'
  <2>1. /\ Verified(n) <=> Verified(k) \/ Head(k.steps) = "verify"
        /\ Fenced(n) <=> Fenced(k) \/ Head(k.steps) = "final"
        /\ Recorded(n) <=> Recorded(k) \/ (Native(k.st) /\ Head(k.steps) = "receipt")
    BY <1>1, <1>3, <1>f, <1>k, ConnectPops
  <2>2. Head(k.steps) = "receipt" => n.fp = k.fp
    BY <1>f
  <2>3. Verified(n) => n.fp.mode # "none" /\ (sup.term \/ n.fp.rules = k.st.rules)
    BY <1>f, <1>k, <2>1
  <2>4. Fenced(n) => launched[k.gen] = k.st.config
    BY <1>f, <1>k, <2>1
  <2>5. Undisturbed /\ Recorded(n) =>
          receipt' = {[gen |-> k.gen, ident |-> k.st, fp |-> n.fp]}
    <3>1. Recorded(k) => Head(k.steps) # "receipt" /\ Head(k.steps) # "verify"
      BY <1>1, <1>3, <1>f, <1>k, ConnectPops
    <3> QED BY <1>f, <1>k, <2>1, <2>2, <3>1
  <2> QED
    BY <1>2, <1>f, <1>k, <2>3, <2>4, <2>5
    DEF FenceKnows, n, Verified, Fenced, Recorded, Native
<1>p. /\ Pop(k).cmd = k.cmd /\ Pop(k).st = k.st /\ Pop(k).gen = k.gen /\ Pop(k).fp = k.fp
      /\ Pop(k).steps = Tail(k.steps)
  BY <1>1, PopKeeps
<1>h. ASSUME Busy("sup"), Head(k.steps) # "read"
      PROVE  /\ Head(k.steps) \notin {"read", "files", "mark", "proofroutes"}
             /\ Head(k.steps) \in {"verify", "final", "receipt"} => Native(k.st)
             /\ Head(k.steps) = "verify" => TableDone(k)
  BY <1>1, <1>3, <1>h, <1>k, <1>p, ConnectPops
<1>7. CASE PolicyTable("sup")
  <2>1. Busy("sup") /\ Head(k.steps) = "nft"
    BY <1>7 DEF PolicyTable, At
  <2>2. n = Pop(k) /\ nft' = TableOf(k)
    BY <1>1, <1>4, <1>5, <1>7 DEF PolicyTable
  <2>3. nft' = [mode |-> "normal", rules |-> k.st.rules]
    BY <1>3, <2>2 DEF TableOf, Deletes, Emergency
  <2>4. route' = route /\ receipt' = receipt
    BY <1>7 DEF PolicyTable, files
  <2> QED BY <1>c, <1>f, <1>p, <2>1, <2>2, <2>3, <2>4
<1>8. CASE PolicyRoutes("sup")
  <2>1. Busy("sup") /\ Head(k.steps) = "routes"
    BY <1>8 DEF PolicyRoutes, At
  <2>2. n = Pop(k) /\ child.tun /\ route' = RouteOf(k)
    BY <1>1, <1>3, <1>4, <1>5, <1>8 DEF PolicyRoutes
  <2>3. Routed'
    BY <1>2, <1>3, <2>2 DEF RouteOf, Deletes, Routed
  <2>4. nft' = nft /\ receipt' = receipt
    BY <1>8 DEF PolicyRoutes, files
  <2> QED BY <1>c, <1>f, <1>p, <2>1, <2>2, <2>3, <2>4
<1>9. CASE ProofRoutes("sup") \/ Files("sup") \/ Mark("sup")
  BY <1>9, <1>h DEF ProofRoutes, Files, Mark, At
<1>10. CASE Check("sup")
  <2>1. Busy("sup") /\ Head(k.steps) = "check"
    BY <1>10 DEF Check, At
  <2> DEFINE m == [k EXCEPT !.pst = desired]
  <2>2. /\ m \in Commands /\ m.cmd = k.cmd /\ m.st = k.st /\ m.steps = k.steps
        /\ m.gen = k.gen /\ m.fp = k.fp
    BY <1>1 DEF Commands, TypeOK
  <2>3. n = Pop(m) \/ n = Raise(m)
    BY <1>5, <1>10 DEF Check
  <2> HIDE DEF m
  <2>4. n = Pop(m)
    BY <1>4, <2>2, <2>3
  <2>5. n.st = k.st /\ n.gen = k.gen /\ n.fp = k.fp /\ n.steps = Tail(k.steps)
    BY <2>2, <2>4, PopKeeps
  <2>6. nft' = nft /\ route' = route /\ receipt' = receipt
    BY <1>10 DEF Check, kernel
  <2> QED BY <1>c, <1>f, <2>1, <2>5, <2>6
<1>11. CASE Prove("sup")
  <2>1. Busy("sup") /\ Head(k.steps) = "prove"
    BY <1>11 DEF Prove, At
  <2>2. n = Pop(k)
    BY <1>1, <1>4, <1>5, <1>11 DEF Prove
  <2>3. nft' = nft /\ route' = route /\ receipt' = receipt
    BY <1>11 DEF Prove, kernel
  <2> QED BY <1>c, <1>f, <1>p, <2>1, <2>2, <2>3
<1>12. CASE Verify("sup")
  <2>1. Busy("sup") /\ Head(k.steps) = "verify"
    BY <1>12 DEF Verify, At
  <2>2. n = [Pop(k) EXCEPT !.fp = nft] /\ PolicyVisible
    BY <1>1, <1>4, <1>5, <1>12 DEF Verify
  <2>3. Pop(k) \in Commands
    BY <1>1, <2>1, PopType DEF Busy
  <2>4. n.st = k.st /\ n.gen = k.gen /\ n.fp = nft /\ n.steps = Tail(k.steps)
    BY <1>p, <2>2, <2>3 DEF Commands
  <2>5. n.fp.mode # "none" /\ (sup.term \/ n.fp.rules = k.st.rules)
    BY <1>h, <1>k, <2>1, <2>2, <2>4 DEF PolicyVisible, Installed
  <2>6. nft' = nft /\ route' = route /\ receipt' = receipt
    BY <1>12 DEF Verify, kernel, files
  <2> QED BY <1>c, <1>f, <2>1, <2>4, <2>5, <2>6
<1>13. CASE Final("sup")
  <2>1. Busy("sup") /\ Head(k.steps) = "final"
    BY <1>13 DEF Final, At
  <2>2. n = Pop(k) /\ FinalFence(k)
    BY <1>1, <1>4, <1>5, <1>13 DEF Final
  <2>3. launched[k.gen] = k.st.config
    BY <1>1, <1>h, <2>1, <2>2, FenceMatches DEF RunInv
  <2>4. nft' = nft /\ route' = route /\ receipt' = receipt
    BY <1>13 DEF Final, kernel, files
  <2> QED BY <1>c, <1>f, <1>p, <2>1, <2>2, <2>3, <2>4
<1>14. CASE Receipt("sup")
  <2>1. Busy("sup") /\ Head(k.steps) = "receipt"
    BY <1>14 DEF Receipt, At
  <2>2. n = Pop(k) /\ receipt' = {[gen |-> k.gen, ident |-> k.st, fp |-> k.fp]}
    BY <1>5, <1>14 DEF Receipt
  <2>3. nft' = nft /\ route' = route
    BY <1>14 DEF Receipt, kernel
  <2> QED BY <1>c, <1>f, <1>p, <2>1, <2>2, <2>3
<1>15. CASE WriteStatus("sup")
  <2>1. Busy("sup") /\ Head(k.steps) = "status"
    BY <1>15 DEF WriteStatus, At
  <2>2. n = Pop(k) /\ status' = Status("connected", TRUE, k.st.active)
    BY <1>3, <1>5, <1>15 DEF WriteStatus, StatusOf
  <2>3. nft' = nft /\ route' = route /\ receipt' = receipt
    BY <1>15 DEF WriteStatus, kernel
  <2> QED BY <1>c, <1>f, <1>p, <2>1, <2>2, <2>3
<1>16. CASE Collect("sup") \/ Fail("sup")
  BY <1>1, <1>4, <1>5, <1>16 DEF Collect, Fail
<1> QED
  BY <1>6, <1>7, <1>8, <1>9, <1>10, <1>11, <1>12, <1>13, <1>14, <1>15, <1>16
  DEF Controller

\* Each step of the supervisor's prepare.
LEMMA PrepareStepsKept ==
  ASSUME TypeOK, ClosedInv, RunInv, Controller("sup") \/ Fail("sup")
  PROVE  PrepareKnows'
<1> DEFINE k == ctl["sup"]
           n == ctl'["sup"]
<1> SUFFICES ASSUME HasRead(n, "prepare") PROVE PrepareKnows'
  BY DEF PrepareKnows
<1>1. "sup" \in Owners /\ k \in Commands /\ n.cmd = "prepare" /\ n.steps # <<"read">>
  BY DEF Owners, TypeOK, ProcsOK, HasRead
<1>2. /\ UNCHANGED <<desired, sup, child, init, procd, pending, launched>>
      /\ Undisturbed' <=> Undisturbed
  BY <1>1, ControllerTurns, ControllerRuns
<1>3. k.cmd = "prepare"
  BY <1>1, ControllerTurns DEF Turns, TypeOK, ProcsOK, NoCommand
<1>4. ASSUME NEW m \in Commands, n = Raise(m) PROVE FALSE
  BY <1>1, <1>4, RaiseTurns
<1>5. \A m : Advance("sup", m) => n = m
  BY <1>1 DEF Advance, TypeOK, ProcsOK
<1> HIDE DEF n
<1>6. CASE Read("sup")
  <2> DEFINE r == [k EXCEPT !.st = desired]
             g == IF r.cmd = "connect" /\ Native(r.st) THEN child.gen ELSE 0
             m == [r EXCEPT !.steps = Plan(r), !.gen = g]
  <2>1. r \in Commands /\ r.cmd = "prepare" /\ r.st = desired
    BY <1>1, <1>3 DEF Commands, TypeOK
  <2>2. n = m
    BY <1>4, <1>5, <1>6, <2>1 DEF Read
  <2>3. n.st = desired /\ n.steps = Plan(r)
    <3> HIDE DEF g
    <3> QED BY <2>1, <2>2 DEF Commands
  <2> HIDE DEF r
  <2>4. Plan(r) \in PrepareSteps /\ Len(Plan(r)) \in {2, 4}
    BY <2>1, PlansKnown
  <2>5. n.steps \in PrepareSteps /\ ~FilesDone(n)
    <3>1. ~(Len(Plan(r)) <= 1)
      BY <2>4
    <3> QED BY <2>3, <2>4, <3>1 DEF FilesDone
  <2> QED BY <1>2, <2>3, <2>5 DEF PrepareKnows, n, FilesDone
<1>k. ASSUME Busy("sup"), Head(k.steps) # "read"
      PROVE  /\ k.steps # <<>> /\ k.steps \in PrepareSteps
             /\ Undisturbed => k.st = desired
             /\ Undisturbed /\ FilesDone(k) => confFile[Engine(desired)] = desired.config
  <2>1. Head(<<"read">>) = "read"
    OBVIOUS
  <2>2. k.steps # <<>> /\ HasRead(k, "prepare")
    BY <1>3, <1>k, <2>1 DEF Busy, HasRead
  <2> QED BY <2>2 DEF RunInv, PrepareKnows
<1>h. ASSUME Busy("sup"), Head(k.steps) # "read"
      PROVE  Head(k.steps) \in {"nft", "routes", "files", "status"}
  BY <1>h, <1>k, PrepareStep
<1>c. ASSUME Busy("sup"), Head(k.steps) # "read", n = Pop(k),
             IF Head(k.steps) = "files"
             THEN confFile' = [confFile EXCEPT ![Engine(k.st)] = k.st.config]
             ELSE confFile' = confFile
      PROVE  PrepareKnows'
  <2>1. n.st = k.st /\ n.steps = Tail(k.steps)
    BY <1>1, <1>c, PopKeeps
  <2>2. /\ n.steps \in PrepareSteps
        /\ FilesDone(n) => FilesDone(k) \/ Head(k.steps) = "files"
    <3>1. /\ Tail(k.steps) \in PrepareSteps /\ Len(k.steps) \in 1 .. 4
          /\ Len(Tail(k.steps)) = Len(k.steps) - 1
          /\ Head(k.steps) = "files" <=> Len(k.steps) = 2
      BY <1>c, <1>k, PrepareStep
    <3>2. PICK i \in 1 .. 4 : Len(k.steps) = i
      BY <3>1
    <3>3. PICK j \in 0 .. 3 : j = i - 1
      OBVIOUS
    <3>4. Len(n.steps) = j
      BY <2>1, <3>1, <3>2, <3>3
    <3> QED BY <2>1, <3>1, <3>2, <3>3, <3>4 DEF FilesDone
  <2>3. Undisturbed => k.st = desired
    BY <1>c, <1>k
  <2>4. Undisturbed /\ FilesDone(n) => confFile'[Engine(desired)] = desired.config
    <3>1. CASE Head(k.steps) = "files"
      <4>1. Engine(desired) \in Engines /\ confFile \in [Engines -> AnyConfig]
        BY DEF Engine, Engines, TypeOK, FilesOK
      <4> QED BY <1>c, <2>3, <3>1, <4>1
    <3>2. CASE Head(k.steps) # "files"
      BY <1>c, <1>k, <2>2, <3>2
    <3> QED BY <3>1, <3>2
  <2> QED
    BY <1>2, <2>1, <2>2, <2>3, <2>4 DEF PrepareKnows, n, FilesDone, Engine, Native
<1>7. CASE PolicyTable("sup")
  BY <1>1, <1>3, <1>4, <1>5, <1>7, <1>c DEF PolicyTable, At, files
<1>8. CASE PolicyRoutes("sup")
  BY <1>1, <1>3, <1>4, <1>5, <1>8, <1>c DEF PolicyRoutes, At, files
<1>9. CASE Files("sup")
  BY <1>1, <1>3, <1>5, <1>9, <1>c DEF Files, At
<1>10. CASE WriteStatus("sup")
  BY <1>1, <1>5, <1>10, <1>c DEF WriteStatus, At
<1>11. CASE \/ ProofRoutes("sup") \/ Mark("sup") \/ Check("sup") \/ Prove("sup")
            \/ Verify("sup") \/ Final("sup") \/ Receipt("sup")
  BY <1>11, <1>h DEF ProofRoutes, Mark, Check, Prove, Verify, Final, Receipt, At
<1>12. CASE Collect("sup") \/ Fail("sup")
  BY <1>1, <1>4, <1>5, <1>12 DEF Collect, Fail
<1> QED BY <1>6, <1>7, <1>8, <1>9, <1>10, <1>11, <1>12 DEF Controller

\* Only connect of the supervisor writes a receipt, and only from its fence on.
LEMMA ReceiptsFenced ==
  ASSUME TypeOK, ClosedInv, RunInv, NEW c \in Owners, Receipt(c)
  PROVE  /\ c = "sup" /\ HasRead(ctl["sup"], "connect") /\ Native(ctl["sup"].st)
         /\ Fenced(ctl["sup"]) /\ Verified(ctl["sup"])
<1> DEFINE k == ctl[c]
<1>1. k \in Commands /\ k.cmd # "none" /\ k.steps # <<>> /\ Head(k.steps) = "receipt"
  BY DEF Receipt, At, Busy, TypeOK, ProcsOK
<1>2. k.cmd \in ReadCommands
  BY <1>1, HeadType DEF ProbeSteps
<1>3. k.cmd \notin StopCommands
  BY <1>1, StopStep DEF RunInv, StopPlanned
<1>4. k.cmd \in {"prepare", "connect"}
  BY <1>2, <1>3 DEF ReadCommands, StopCommands
<1>5. c = "sup"
  BY <1>4 DEF ClosedInv, PhoneProbes, NoOrphans, Idle, RunInv, InitRuns, Owners
<1>6. k.steps # <<"read">>
  <2>1. Head(<<"read">>) = "read"
    OBVIOUS
  <2> QED BY <1>1, <2>1
<1>7. k.cmd # "prepare"
  <2> SUFFICES ASSUME k.cmd = "prepare" PROVE FALSE
    OBVIOUS
  <2>1. k.steps \in PrepareSteps
    BY <1>5, <1>6 DEF RunInv, PrepareKnows, HasRead
  <2> QED BY <1>1, <2>1, PrepareStep
<1>8. HasRead(k, "connect")
  BY <1>4, <1>6, <1>7 DEF HasRead
<1>9. k.steps \in IF Native(k.st) THEN NativeSteps ELSE HysteriaSteps
  BY <1>5, <1>8 DEF RunInv, ConnectKnows
<1> DEFINE n == Pop(k)
<1>10. n.st = k.st /\ n.steps = Tail(k.steps)
  BY <1>1, PopKeeps
<1> HIDE DEF n
<1> QED BY <1>1, <1>5, <1>8, <1>9, <1>10, ConnectPops DEF HasRead

\* A step of the supervisor's command keeps the rest.
LEMMA SupCommandKeeps ==
  ASSUME TypeOK, ClosedInv, RunInv, Controller("sup") \/ Fail("sup")
  PROVE  SecretMatches' /\ SupKnows' /\ ReceiptIsSound'
<1> DEFINE k == ctl["sup"]
<1>1. "sup" \in Owners /\ k \in Commands
  BY DEF Owners, TypeOK, ProcsOK
<1>2. /\ UNCHANGED <<desired, sup, child, init, procd, pending, launched>>
      /\ Undisturbed' <=> Undisturbed
      /\ k.cmd # "none"
  BY <1>1, ControllerTurns, ControllerRuns
<1>3. sup.pc \notin {"engine", "binary", "launch", "bridge", "run"}
  BY <1>2 DEF RunInv, SupRuns, CommandAt
<1>4. SupKnows'
  BY <1>2, <1>3 DEF RunInv, SupKnows, Active, Engine, Native
<1>5. SecretMatches'
  <2>1. CASE Files("sup")
    <3>1. CASE k.cmd = "prepare"
      <4>1. sup.pc = "prepare"
        BY <3>1 DEF RunInv, SupRuns, CommandAt
      <4> QED BY <1>2, <4>1 DEF RunInv, ChildKnown, Launched, SecretMatches
    <3>2. CASE k.cmd # "prepare"
      BY <2>1, <3>2 DEF Files, CleanupSecret, NoFiles, SecretMatches
    <3> QED BY <3>1, <3>2
  <2>2. CASE ~Files("sup")
    <3>1. confFile' = confFile
      BY <2>2
      DEF Controller, Read, PolicyTable, PolicyRoutes, ProofRoutes, Mark, Check, Prove,
          Verify, Final, Receipt, WriteStatus, Collect, Fail, files
    <3> QED BY <1>2, <3>1 DEF RunInv, SecretMatches
  <2> QED BY <2>1, <2>2
<1>6. ReceiptIsSound'
  <2>1. CASE Receipt("sup")
    <3>1. receipt' = {[gen |-> k.gen, ident |-> k.st, fp |-> k.fp]}
      BY <2>1 DEF Receipt
    <3>2. /\ Native(k.st) /\ Fenced(k) /\ Verified(k) /\ HasRead(k, "connect")
      BY <1>1, <2>1, ReceiptsFenced
    <3>3. /\ k.gen = child.gen /\ k.fp.mode # "none" /\ (sup.term \/ k.fp.rules = k.st.rules)
          /\ launched[k.gen] = k.st.config
      BY <3>2 DEF RunInv, FenceKnows
    <3>4. sup.pc = "connect"
      BY <3>2 DEF RunInv, SupRuns, CommandAt, HasRead
    <3>5. k.gen \in 1 .. Len(launched)
      BY <3>3, <3>4 DEF RunInv, ChildKnown, Launched
    <3> QED BY <1>2, <3>1, <3>2, <3>3, <3>5 DEF ReceiptIsSound, Native
  <2>2. CASE ~Receipt("sup")
    <3>1. receipt' = receipt \/ receipt' = {}
      BY <2>2
      DEF Controller, Read, PolicyTable, PolicyRoutes, ProofRoutes, Files, CleanupSecret,
          Mark, Check, Prove, Verify, Final, WriteStatus, Collect, Fail, files
    <3> QED BY <1>2, <3>1 DEF RunInv, ReceiptIsSound, Native
  <2> QED BY <2>1, <2>2
<1> QED BY <1>4, <1>5, <1>6

\* A step of a phone's probe writes the proof and the probe's lock; one of the init
\* script's commands may write all of it, when the supervisor is gone or told to stop.
LEMMA OthersKeep ==
  ASSUME TypeOK, ClosedInv, RunInv, NEW c \in Owners \ {"sup"}, Controller(c) \/ Fail(c)
  PROVE  /\ SecretMatches' /\ ConnectKnows' /\ FenceKnows' /\ PrepareKnows' /\ SupKnows'
         /\ ReceiptIsSound'
<1> DEFINE k == ctl[c]
<1>1. /\ UNCHANGED <<desired, sup, child, init, procd, pending, launched>>
      /\ Undisturbed' <=> Undisturbed
      /\ k.cmd # "none"
  BY ControllerTurns, ControllerRuns
<1>2. ctl'["sup"] = ctl["sup"]
  BY ControllerTurns DEF TypeOK, ProcsOK, Owners
<1>3. c \in {"phone", "init"}
  BY <1>1 DEF Owners, ClosedInv, NoOrphans, Idle
<1>4. ~Receipt(c)
  BY ReceiptsFenced
<1>5. receipt' = receipt \/ receipt' = {}
  BY <1>4
  DEF Controller, Read, PolicyTable, PolicyRoutes, ProofRoutes, Files, CleanupSecret,
      Mark, Check, Prove, Verify, Final, WriteStatus, Collect, Fail, files
<1>6. ReceiptIsSound'
  BY <1>1, <1>5 DEF RunInv, ReceiptIsSound, Native
<1>7. confFile' = confFile \/ confFile' = NoFiles
  <2>1. Files(c) => k.cmd # "prepare"
    BY <1>1, <1>3 DEF RunInv, InitRuns, ClosedInv, PhoneProbes
  <2> QED BY <2>1
    DEF Controller, Read, PolicyTable, PolicyRoutes, ProofRoutes, Files, CleanupSecret,
        Mark, Check, Prove, Verify, Final, Receipt, WriteStatus, Collect, Fail, files
<1>8. SecretMatches'
  BY <1>1, <1>7 DEF RunInv, SecretMatches, NoFiles
<1>9. CASE c = "phone"
  <2>1. k.cmd = "probe" /\ k \in Commands
    BY <1>1, <1>9 DEF ClosedInv, PhoneProbes, TypeOK, ProcsOK
  <2>2. k.steps # <<>> => Head(k.steps) \in ProbeSteps
    BY <2>1, HeadType DEF ReadCommands
  <2>3. UNCHANGED <<nft, route, confFile, receipt, status>>
    BY <2>2
    DEF Controller, Read, PolicyTable, PolicyRoutes, ProofRoutes, Files, CleanupSecret,
        Mark, Check, Prove, Verify, Final, Receipt, WriteStatus, Collect, Fail, files,
        kernel, At, Busy, ProbeSteps
  <2>4. ConnectKnows'
    BY <1>1, <1>2, <2>3
    DEF RunInv, ConnectKnows, HasRead, TableDone, RoutesDone, Connected, Installed, Routed,
        Native
  <2>5. FenceKnows'
    BY <1>1, <1>2, <2>3
    DEF RunInv, FenceKnows, HasRead, Verified, Fenced, Recorded, Native
  <2>6. PrepareKnows'
    BY <1>1, <1>2, <2>3 DEF RunInv, PrepareKnows, HasRead, FilesDone, Engine, Native
  <2>7. SupKnows'
    BY <1>1, <2>3
    DEF RunInv, SupKnows, Connected, Installed, Routed, Active, Engine, Native
  <2> QED BY <1>6, <1>8, <2>4, <2>5, <2>6, <2>7
<1>10. CASE c = "init"
  <2>1. init # "idle" /\ ~Undisturbed
    BY <1>1, <1>10 DEF ClosedInv, InitWaits, Idle, Undisturbed, Settled
  <2>2. sup.pc = "absent" \/ sup.term
    BY <2>1 DEF RunInv, HaltTerms
  <2>3. HasRead(ctl["sup"], "connect") => sup.term
    BY <2>2 DEF ClosedInv, SupAbsent, NoCommand, HasRead
  <2>4. ConnectKnows'
    BY <1>1, <1>2, <2>1, <2>3 DEF RunInv, ConnectKnows, HasRead, TableDone, RoutesDone, Native
  <2>5. FenceKnows'
    BY <1>1, <1>2, <2>1 DEF RunInv, FenceKnows, HasRead, Verified, Fenced, Recorded, Native
  <2>6. PrepareKnows' /\ SupKnows'
    BY <1>1, <1>2, <2>1 DEF RunInv, PrepareKnows, SupKnows, HasRead, FilesDone
  <2> QED BY <1>6, <1>8, <2>4, <2>5, <2>6
<1> QED BY <1>3, <1>9, <1>10

\* Controller steps keep RunInv.
LEMMA ControllerRun ==
  ASSUME TypeOK, ClosedInv, RunInv, NEW c \in Owners, Controller(c) \/ Fail(c)
  PROVE  RunInv'
<1>1. /\ HaltTerms' /\ SupRuns' /\ InitRuns' /\ HandlersFailed' /\ ChildKnown'
      /\ StopPlanned'
  BY ControllerRuns
<1>2. CASE c = "sup"
  BY <1>1, <1>2, ConnectSteps, PrepareStepsKept, SupCommandKeeps DEF RunInv
<1>3. CASE c # "sup"
  BY <1>1, <1>3, OthersKeep DEF RunInv
<1> QED BY <1>2, <1>3

------------------------------------------------------------------------------
(* The supervisor *)

\* A supervisor step waits for no command, or starts the one its next place calls
\* for, or goes on without one.
Moves(n) ==
  \/ n = ctl["sup"] /\ (Trap \/ CommandAt(sup.pc) = "none") /\ CommandAt(sup'.pc) = CommandAt(sup.pc)
  \/ n = NoCommand /\ CommandAt(sup'.pc) = "none"
  \/ \E why \in Reasons :
       CommandAt(sup'.pc) # "none" /\ n = Command(CommandAt(sup'.pc), why)

\* That is how the supervisor's steps change its command; they change nothing it reads.
LEMMA SupervisorMoves ==
  ASSUME TypeOK, NoOrphans, Supervisor
  PROVE  /\ \E n : ctl' = [ctl EXCEPT !["sup"] = n] /\ Moves(n)
         /\ UNCHANGED <<desired, nft, confFile, receipt, status, init, procd, pending>>
         /\ sup' = NoSup \/ (sup'.term = sup.term /\ sup'.pc # "absent")
         /\ sup.pc # "absent"
<1> USE DEF TypeOK, ProcsOK, Sups, kernel, files, procs, ghosts, ReadsOnly, Advance, Start,
            Here, Returned, CommandAt, Moves
<1>0. \A pc : Sup(pc).pc = pc /\ Sup(pc).term = sup.term
  BY DEF Sup
<1>e. \A why : Exit(why).pc = "exit" /\ Exit(why).term = sup.term
  BY DEF Exit
<1>u. UNCHANGED ctl => ctl' = [ctl EXCEPT !["sup"] = ctl["sup"]]
  OBVIOUS
<1>n. NoSup.pc = "absent" /\ "none" \in Reasons /\ sup.reason \in Reasons
  BY DEF NoSup, Reasons
<1>1. CASE Trap
  BY <1>1, <1>u DEF Trap, KillChild
<1>2. CASE SupMode
  <2>m. Mode(desired) \in {"off", "block", "tunnel"}
    BY DEF Mode
  <2>1. CASE Mode(desired) = "off"
    <3>1. sup' = Sup("off") /\ ctl' = [ctl EXCEPT !["sup"] = Command("cleanup", "none")]
      BY <1>2, <2>1 DEF SupMode
    <3> QED BY <1>2, <1>0, <1>n, <3>1 DEF SupMode
  <2>2. CASE Mode(desired) = "block"
    <3>1. sup' = Sup("block") /\ ctl' = [ctl EXCEPT !["sup"] = Command("block", "none")]
      BY <1>2, <2>2 DEF SupMode
    <3> QED BY <1>2, <1>0, <1>n, <3>1 DEF SupMode
  <2>3. CASE Mode(desired) = "tunnel"
    <3>1. sup' = Sup("prepare") /\ ctl' = [ctl EXCEPT !["sup"] = Command("prepare", "none")]
      BY <1>2, <2>3 DEF SupMode
    <3> QED BY <1>2, <1>0, <1>n, <3>1 DEF SupMode
  <2> QED BY <2>m, <2>1, <2>2, <2>3
<1>3. CASE SupOff
  BY <1>3, <1>n DEF SupOff
<1>4. CASE SupBlock
  BY <1>4, <1>0 DEF SupBlock
<1>5. CASE SupWaitBlock
  BY <1>5, <1>0, <1>u DEF SupWaitBlock
<1>6. CASE SupPrepare
  BY <1>6, <1>0 DEF SupPrepare
<1>7. CASE SupEngine
  BY <1>7, <1>u DEF SupEngine
<1>8. CASE SupBinary
  BY <1>8, <1>0, <1>u DEF SupBinary
<1>9. CASE SupLaunch
  BY <1>9, <1>u DEF SupLaunch
<1>10. CASE SupWaitTun
  BY <1>10, <1>0, <1>e, <1>u, <1>n DEF SupWaitTun
<1>11. CASE SupProofRoutes
  BY <1>11, <1>0 DEF SupProofRoutes
<1>12. CASE SupProbing
  BY <1>12, <1>0, <1>e, <1>u, <1>n DEF SupProbing
<1>13. CASE SupProbe
  BY <1>13, <1>0, <1>e, <1>n DEF SupProbe
<1>14. CASE SupConnect
  <2>1. sup.pc = "connect" /\ ctl' = [ctl EXCEPT !["sup"] = NoCommand]
    BY <1>14 DEF SupConnect
  <2>2. UNCHANGED <<desired, nft, confFile, receipt, status, init, procd, pending>>
    BY <1>14 DEF SupConnect
  <2>3. sup' = Exit("policy_apply_failed") \/ sup' = Sup("bridge") \/ sup' = Sup("run")
    BY <1>14 DEF SupConnect
  <2>4. sup'.term = sup.term /\ sup'.pc \in {"exit", "bridge", "run"}
    BY <1>0, <1>e, <2>3
  <2>5. Moves(NoCommand)
    BY <2>4
  <2> QED BY <2>1, <2>2, <2>4, <2>5
<1>15. CASE SupBridge
  BY <1>15, <1>0, <1>e, <1>u DEF SupBridge
<1>16. CASE SupRun
  BY <1>16, <1>0, <1>e, <1>u DEF SupRun
<1>17. CASE SupExit
  BY <1>17, <1>0, <1>u DEF SupExit, KillChild
<1>18. CASE SupReap
  BY <1>18, <1>0, <1>n DEF SupReap
<1>19. CASE SupDown
  BY <1>19, <1>n DEF SupDown
<1>20. CASE SupDies
  <2>1. ctl' = [ctl EXCEPT !["sup"] = NoCommand] /\ sup.pc # "absent"
    BY <1>20 DEF SupDies, NoOrphans, Dying, Untrapped
  <2> QED BY <1>20, <1>n, <2>1 DEF SupDies
<1> QED
  BY <1>1, <1>2, <1>3, <1>4, <1>5, <1>6, <1>7, <1>8, <1>9, <1>10,
     <1>11, <1>12, <1>13, <1>14, <1>15, <1>16, <1>17, <1>18, <1>19, <1>20
  DEF Supervisor

\* The command a supervisor starts, and having none.
LEMMA StartsFresh ==
  /\ \A name \in CommandNames \ {"none"}, why \in Reasons :
       /\ Command(name, why).cmd = name /\ Command(name, why).ok
       /\ name \notin {"probe", "proofroutes"} => Command(name, why).steps = <<"read">>
  /\ NoCommand.cmd = "none" /\ NoCommand.ok
BY DEF Command, NoCommand

\* A step of the supervisor waits for its command, or starts the one of its next place.
LEMMA SupervisorRuns ==
  ASSUME TypeOK, ClosedInv, RunInv, Supervisor
  PROVE  /\ HaltTerms' /\ SupRuns' /\ InitRuns' /\ HandlersFailed' /\ StopPlanned'
         /\ Undisturbed' /\ sup'.pc # "absent" => Undisturbed
         /\ ConnectKnows' /\ FenceKnows' /\ PrepareKnows'
<1>1. PICK n : ctl' = [ctl EXCEPT !["sup"] = n] /\ Moves(n)
  BY SupervisorMoves DEF ClosedInv
<1>2. /\ UNCHANGED <<desired, nft, confFile, receipt, status, init, procd, pending>>
      /\ sup' = NoSup \/ (sup'.term = sup.term /\ sup'.pc # "absent")
      /\ sup.pc # "absent"
  BY SupervisorMoves DEF ClosedInv
<1>3. ctl'["sup"] = n /\ \A d \in Owners \ {"sup"} : ctl'[d] = ctl[d]
  BY <1>1 DEF TypeOK, ProcsOK, Owners
<1>4. Owners = {"sup", "init", "orphan", "phone"}
  BY DEF Owners
<1>5. NoSup.pc = "absent" /\ ~NoSup.term
  BY DEF NoSup
<1>6. HaltTerms' /\ (Undisturbed' /\ sup'.pc # "absent" => Undisturbed)
  BY <1>2, <1>5 DEF RunInv, HaltTerms, Undisturbed, Settled
<1>7. CommandAt(sup'.pc) \in CommandNames /\ (CommandAt(sup'.pc) # "none" => sup'.pc \in SupPcs)
  BY DEF CommandAt, CommandNames, ReadCommands, SupPcs
<1>8. \A why \in Reasons : CommandAt(sup'.pc) # "none" =>
        /\ Command(CommandAt(sup'.pc), why).cmd = CommandAt(sup'.pc)
        /\ Command(CommandAt(sup'.pc), why).ok
        /\ CommandAt(sup'.pc) \notin {"probe", "proofroutes"} =>
             Command(CommandAt(sup'.pc), why).steps = <<"read">>
  BY <1>7, StartsFresh
<1>9. SupRuns'
  BY <1>1, <1>3, <1>8, StartsFresh DEF Moves, SupRuns, RunInv
<1>10. InitRuns'
  BY <1>3, <1>4 DEF RunInv, InitRuns
<1>11. HandlersFailed' /\ StopPlanned'
  <2>1. /\ n = ctl["sup"] \/ (n.ok /\ n.cmd # "handler")
        /\ n = ctl["sup"] \/ (n.cmd \in StopCommands => n.steps \in StopSteps)
    BY <1>1, <1>7, <1>8, StartsFresh DEF Moves, StopCommands, StopSteps, CommandAt
  <2>2. HandlersFailed'
    BY <1>3, <1>4, <2>1 DEF RunInv, HandlersFailed
  <2>3. StopPlanned'
    BY <1>3, <1>4, <2>1 DEF RunInv, StopPlanned
  <2> QED BY <2>2, <2>3
<1>12. ASSUME NEW name \in {"connect", "prepare"}, HasRead(n, name)
       PROVE  n = ctl["sup"] /\ Trap
  <2>1. n = ctl["sup"]
    BY <1>1, <1>8, <1>12, StartsFresh DEF Moves, HasRead
  <2>2. CommandAt(sup.pc) # "none"
    BY <1>12, <2>1 DEF RunInv, SupRuns, HasRead
  <2>3. n # NoCommand /\ ~\E why \in Reasons :
       CommandAt(sup'.pc) # "none" /\ n = Command(CommandAt(sup'.pc), why)
    BY <1>8, <1>12, StartsFresh DEF HasRead
  <2> QED BY <1>1, <2>1, <2>2, <2>3 DEF Moves
<1>13. Trap => /\ sup.term /\ sup'.term /\ ~Undisturbed' /\ UNCHANGED <<nft, launched>>
               /\ child'.gen = child.gen
  BY <1>2 DEF Trap, TrapDue, Undisturbed, TypeOK, ProcsOK, Sups, Children, KillChild, Dead,
              kernel, ghosts
<1>14. ConnectKnows'
  BY <1>2, <1>3, <1>12, <1>13 DEF RunInv, ConnectKnows, HasRead, TableDone, RoutesDone, Native
<1>15. FenceKnows'
  BY <1>2, <1>3, <1>12, <1>13 DEF RunInv, FenceKnows, HasRead, Verified, Fenced, Recorded, Native
<1>16. PrepareKnows'
  BY <1>3, <1>12, <1>13 DEF RunInv, PrepareKnows, HasRead, FilesDone
<1> QED BY <1>6, <1>9, <1>10, <1>11, <1>14, <1>15, <1>16

\* The supervisor starts a tunnel only when it has none, and leaves the places where
\* it has one only without it.
LEMMA SupervisorChild ==
  ASSUME TypeOK, ClosedInv, RunInv, Supervisor
  PROVE  ChildKnown' /\ SecretMatches' /\ ReceiptIsSound'
<1> USE DEF TypeOK, ProcsOK, Sups, Here, Returned, ReadsOnly, Launched, ChildKnown
<1>1. /\ UNCHANGED <<desired, nft, confFile, receipt, status, init, procd, pending>>
      /\ sup' = NoSup \/ (sup'.term = sup.term /\ sup'.pc # "absent")
      /\ sup.pc # "absent"
  BY SupervisorMoves DEF ClosedInv
<1>2. \A pc : Sup(pc).pc = pc /\ Sup(pc).mine = sup.mine /\ Sup(pc).engine = sup.engine
  BY DEF Sup
<1>3. \A why : Exit(why).pc = "exit" /\ Exit(why).mine = sup.mine
  BY DEF Exit
<1>4. NoSup.pc = "absent" /\ ~NoSup.term
  BY DEF NoSup
<1>5. ChildKnown /\ SecretMatches /\ ReceiptIsSound
  BY DEF RunInv
<1>6. CASE SupLaunch
  <2>1. ~child.alive /\ sup.pc = "launch"
    BY <1>5, <1>6 DEF SupLaunch
  <2>2. /\ child' = [alive |-> confFile[sup.engine] # NoConfig, tun |-> FALSE,
                     gen |-> Len(launched) + 1,
                     config |-> confFile[sup.engine], engine |-> sup.engine]
        /\ launched' = Append(launched, confFile[sup.engine])
        /\ sup' = [sup EXCEPT !.pc = "waittun", !.mine = ~child.alive]
    BY <1>6, <2>1 DEF SupLaunch
  <2>3. /\ child'.gen = Len(launched) + 1 /\ child'.config = confFile[sup.engine]
        /\ child'.engine = sup.engine /\ ~child'.tun
        /\ child'.alive <=> child'.config # NoConfig
        /\ sup'.pc = "waittun" /\ sup'.mine /\ sup'.engine = sup.engine
    BY <2>1, <2>2
  <2>4. /\ Len(launched') = Len(launched) + 1 /\ Len(launched) \in Nat
        /\ launched'[Len(launched) + 1] = confFile[sup.engine]
        /\ \A i \in 1 .. Len(launched) : launched'[i] = launched[i]
    <3>1. launched \in Seq(AnyConfig) /\ confFile[sup.engine] \in AnyConfig
      BY DEF GhostsOK, FilesOK
    <3> QED BY <2>2, <3>1, AppendProperties, LenProperties
  <2>5. ChildKnown'
    BY <2>3, <2>4
  <2>6. SecretMatches'
    BY <1>1, <2>3 DEF SecretMatches
  <2>7. ReceiptIsSound'
    BY <1>1, <1>5, <2>3, <2>4 DEF ReceiptIsSound, Native
  <2> QED BY <2>5, <2>6, <2>7
<1>7. CASE Trap \/ SupExit
  <2>1. UNCHANGED launched
    BY <1>7 DEF Trap, SupExit, ghosts
  <2>2. child' = Dead(child) \/ (child' = child /\ ~child.alive)
    BY <1>5, <1>7 DEF Trap, SupExit, KillChild
  <2>3. /\ ~child'.alive /\ ~child'.tun /\ child'.gen = child.gen
        /\ child'.config = child.config /\ child'.engine = child.engine
    BY <1>5, <2>2 DEF Dead, Children
  <2>4. sup'.pc \in Launched => sup.pc \in Launched /\ sup'.engine = sup.engine
    <3>1. Trap => sup'.pc = sup.pc /\ sup'.engine = sup.engine
      BY DEF Trap
    <3>2. SupExit => sup'.pc = "reap"
      BY <1>2 DEF SupExit
    <3> QED BY <1>7, <3>1, <3>2
  <2>5. ChildKnown' /\ SecretMatches'
    BY <1>1, <1>5, <2>1, <2>3, <2>4 DEF SecretMatches
  <2>6. ReceiptIsSound'
    BY <1>1, <1>5, <2>1, <2>3 DEF ReceiptIsSound, Native
  <2> QED BY <2>5, <2>6
<1>8. ASSUME UNCHANGED <<child, launched>>,
             sup'.pc \in Launched => sup.pc \in Launched /\ sup'.engine = sup.engine,
             child.alive => sup'.mine /\ sup'.pc \in Launched \union {"exit"} /\ sup'.term = sup.term
      PROVE  ChildKnown' /\ SecretMatches' /\ ReceiptIsSound'
  BY <1>1, <1>5, <1>8 DEF SecretMatches, ReceiptIsSound, Native
<1>9. ASSUME UNCHANGED <<child, launched>>, sup.pc \notin Launched \union {"exit"},
             sup'.pc \notin Launched
      PROVE  ChildKnown' /\ SecretMatches' /\ ReceiptIsSound'
  BY <1>5, <1>8, <1>9
<1>10. ASSUME UNCHANGED <<child, launched>>, sup.pc \in Launched,
              NEW pc \in Launched \union {"exit"},
              sup' = Sup(pc) \/ \E why : sup' = Exit(why)
       PROVE  ChildKnown' /\ SecretMatches' /\ ReceiptIsSound'
  <2>1. /\ sup'.pc \in Launched \union {"exit"} /\ sup'.mine = sup.mine /\ sup'.term = sup.term
        /\ sup'.pc \in Launched => sup'.engine = sup.engine
    BY <1>1, <1>2, <1>3, <1>4, <1>10
  <2> QED BY <1>5, <1>8, <1>10, <2>1
<1>11. CASE \/ SupMode \/ SupOff \/ SupBlock \/ SupWaitBlock \/ SupPrepare
            \/ SupEngine \/ SupBinary \/ SupReap \/ SupDown \/ SupDies
  <2>1. UNCHANGED <<child, launched>>
    BY <1>11
    DEF SupMode, SupOff, SupBlock, SupWaitBlock, SupPrepare, SupEngine, SupBinary,
        SupReap, SupDown, SupDies, ghosts
  <2>2. sup.pc \in {"mode", "off", "block", "waitblock", "prepare", "engine", "binary", "reap",
                    "down"}
    BY <1>11
    DEF SupMode, SupOff, SupBlock, SupWaitBlock, SupPrepare, SupEngine, SupBinary,
        SupReap, SupDown, SupDies, Dying, Untrapped
  <2>3. sup'.pc \notin Launched
    <3>1. CASE SupMode
      <4>1. Mode(desired) \in {"off", "block", "tunnel"}
        BY DEF Mode
      <4>2. sup' = Sup("off") \/ sup' = Sup("block") \/ sup' = Sup("prepare")
        <5>1. CASE Mode(desired) = "off"
          BY <3>1, <5>1 DEF SupMode
        <5>2. CASE Mode(desired) = "block"
          BY <3>1, <5>2 DEF SupMode
        <5>3. CASE Mode(desired) = "tunnel"
          BY <3>1, <5>3 DEF SupMode
        <5> QED BY <4>1, <5>1, <5>2, <5>3
      <4>3. sup'.pc \in {"off", "block", "prepare"}
        BY <1>2, <4>2
      <4> QED BY <4>3 DEF Launched
    <3>2. CASE SupEngine
      BY <3>2 DEF SupEngine
    <3>3. CASE ~SupMode /\ ~SupEngine
      BY <1>2, <1>4, <1>11, <3>3
      DEF SupOff, SupBlock, SupWaitBlock, SupPrepare, SupBinary, SupReap, SupDown, SupDies
    <3> QED BY <3>1, <3>2, <3>3
  <2> QED BY <1>9, <2>1, <2>2, <2>3
<1>12. CASE SupWaitTun
  BY <1>10, <1>12 DEF SupWaitTun, ghosts
<1>13. CASE SupProofRoutes
  BY <1>10, <1>13 DEF SupProofRoutes, ghosts
<1>14. CASE SupProbing
  BY <1>10, <1>14 DEF SupProbing, ghosts
<1>15. CASE SupProbe
  BY <1>10, <1>15 DEF SupProbe, ghosts
<1>16. CASE SupConnect
  BY <1>10, <1>16 DEF SupConnect, ghosts
<1>17. CASE SupBridge
  BY <1>10, <1>17 DEF SupBridge, ghosts
<1>18. CASE SupRun
  BY <1>10, <1>18 DEF SupRun, ghosts
<1> QED
  BY <1>6, <1>7, <1>11, <1>12, <1>13, <1>14, <1>15, <1>16, <1>17, <1>18 DEF Supervisor

\* Each place of the script hands on what it read, of the same state.
LEMMA SupervisorKnows ==
  ASSUME TypeOK, ClosedInv, RunInv, Supervisor
  PROVE  SupKnows'
<1> USE DEF TypeOK, ProcsOK, Sups, Here, Returned, ReadsOnly, Launched, Advance
<1>1. /\ UNCHANGED <<desired, nft, confFile, receipt, status, init, procd, pending>>
      /\ sup.pc # "absent"
  BY SupervisorMoves DEF ClosedInv
<1> SUFFICES ASSUME Undisturbed', sup'.pc # "absent" PROVE SupKnows'
  BY DEF SupKnows
<1>2. Undisturbed /\ ~sup.term
  BY SupervisorRuns DEF Undisturbed
<1>3. \A pc : Sup(pc).pc = pc /\ Sup(pc).engine = sup.engine
  BY DEF Sup
<1>4. \A why : Exit(why).pc = "exit"
  BY DEF Exit
<1>5. /\ sup.pc \in {"prepare", "engine", "binary", "launch"} \union Launched =>
           Active(desired)
      /\ sup.pc \in {"engine", "binary", "launch"} =>
           confFile[Engine(desired)] = desired.config
      /\ sup.pc \in {"binary", "launch"} \union Launched => sup.engine = Engine(desired)
      /\ sup.pc \in Launched => child.config = desired.config
      /\ sup.pc \in {"bridge", "run"} =>
           Connected(desired) /\ Installed(desired) /\ Routed
  BY <1>2 DEF RunInv, SupKnows
<1>6. /\ (Active(desired))' = Active(desired) /\ (Engine(desired))' = Engine(desired)
      /\ (Connected(desired))' = Connected(desired) /\ (Installed(desired))' = Installed(desired)
  BY <1>1 DEF Active, Engine, Native, Connected, Installed
<1>7. CASE Trap
  BY <1>2, <1>7 DEF Trap, TrapDue
<1>8. CASE SupMode
  <2>1. Mode(desired) \in {"off", "block", "tunnel"}
    BY DEF Mode
  <2>2. sup'.pc \in {"off", "block"} \/ (sup'.pc = "prepare" /\ Active(desired))
    BY <1>3, <1>8, <2>1 DEF SupMode, Mode
  <2> QED BY <1>6, <2>2 DEF SupKnows
<1>9. CASE SupOff \/ SupBlock \/ SupWaitBlock \/ SupReap \/ SupDown \/ SupDies \/ SupExit \/ SupRun
  <2>1. sup'.pc \in {"absent", "waitblock", "exit", "down", "reap"}
    <3>1. NoSup.pc = "absent"
      BY DEF NoSup
    <3> QED BY <1>3, <1>4, <1>9, <3>1
        DEF SupOff, SupBlock, SupWaitBlock, SupReap, SupDown, SupDies, SupExit, SupRun
  <2> QED BY <2>1 DEF SupKnows
<1>10. CASE SupPrepare
  <2>1. CASE sup'.pc = "engine"
    <3>1. ctl["sup"].ok /\ sup.pc = "prepare" /\ ctl["sup"].steps = <<>> /\ UNCHANGED confFile
      BY <1>3, <1>10, <2>1 DEF SupPrepare, Finished, files
    <3>2. ctl["sup"].cmd = "prepare"
      BY <3>1 DEF RunInv, SupRuns, CommandAt, HandlersFailed, Owners
    <3>3. HasRead(ctl["sup"], "prepare") /\ FilesDone(ctl["sup"])
      BY <3>1, <3>2 DEF HasRead, FilesDone
    <3>4. confFile[Engine(desired)] = desired.config
      BY <1>2, <3>3 DEF RunInv, PrepareKnows
    <3> QED BY <1>1, <1>5, <1>6, <2>1, <3>1, <3>4 DEF SupKnows
  <2>2. CASE sup'.pc = "exit"
    BY <2>2 DEF SupKnows
  <2> QED BY <1>3, <1>10, <2>1, <2>2 DEF SupPrepare
<1>11. CASE SupEngine
  <2>1. sup'.pc \in {"binary", "launch"} /\ sup'.engine = Engine(desired) /\ sup.pc = "engine"
    BY <1>11 DEF SupEngine
  <2> QED BY <1>1, <1>5, <1>6, <2>1 DEF SupKnows
<1>12. CASE SupBinary
  <2>1. sup'.pc \in {"launch", "exit"} /\ sup'.engine = sup.engine /\ sup.pc = "binary"
    BY <1>3, <1>12 DEF SupBinary
  <2> QED BY <1>1, <1>5, <1>6, <2>1 DEF SupKnows
<1>13. CASE SupLaunch
  <2>1. ~child.alive /\ sup.pc = "launch"
    BY <1>13 DEF SupLaunch, RunInv, ChildKnown
  <2>2. child'.config = confFile[sup.engine]
    BY <1>13, <2>1 DEF SupLaunch
  <2>3. sup'.pc = "waittun" /\ sup'.engine = sup.engine
    BY <1>13 DEF SupLaunch
  <2> QED BY <1>1, <1>5, <1>6, <2>1, <2>2, <2>3 DEF SupKnows
<1>14. ASSUME UNCHANGED child, sup.pc \in Launched,
              sup'.pc \in (Launched \ {"bridge", "run"}) \union {"exit"},
              sup'.engine = sup.engine
       PROVE  SupKnows'
  <2>1. /\ Active(desired) /\ sup'.engine = Engine(desired)
        /\ child'.config = desired.config
    BY <1>5, <1>14
  <2>2. sup'.pc \notin {"prepare", "engine", "binary", "launch", "bridge", "run"}
    BY <1>14
  <2> QED BY <1>1, <1>6, <2>1, <2>2 DEF SupKnows
<1>x. \A why : Exit(why).engine = sup.engine
  BY DEF Exit
<1>15. CASE SupWaitTun
  BY <1>3, <1>4, <1>x, <1>14, <1>15 DEF SupWaitTun
<1>16. CASE SupProofRoutes
  BY <1>3, <1>14, <1>16 DEF SupProofRoutes
<1>17. CASE SupProbing
  BY <1>3, <1>4, <1>x, <1>14, <1>17 DEF SupProbing
<1>18. CASE SupProbe
  BY <1>3, <1>4, <1>x, <1>14, <1>18 DEF SupProbe
<1>19. CASE SupConnect
  <2>1. CASE sup'.pc = "exit"
    BY <2>1 DEF SupKnows
  <2>2. CASE sup'.pc # "exit"
    <3>1. /\ ctl["sup"].ok /\ sup.pc = "connect" /\ ctl["sup"].steps = <<>>
          /\ UNCHANGED <<child, route>> /\ sup'.pc \in {"bridge", "run"}
          /\ sup'.engine = sup.engine
      BY <1>3, <1>4, <1>19, <2>2 DEF SupConnect, Finished, kernel
    <3>2. ctl["sup"].cmd = "connect"
      BY <3>1 DEF RunInv, SupRuns, CommandAt, HandlersFailed, Owners
    <3>3. /\ HasRead(ctl["sup"], "connect") /\ TableDone(ctl["sup"])
          /\ RoutesDone(ctl["sup"])
      BY <3>1, <3>2 DEF HasRead, TableDone, RoutesDone
    <3>4. Connected(desired) /\ Installed(desired) /\ Routed
      BY <1>2, <3>1, <3>3 DEF RunInv, ConnectKnows
    <3>5. Routed'
      BY <3>1, <3>4 DEF Routed
    <3>6. Active(desired) /\ sup'.engine = Engine(desired) /\ child'.config = desired.config
      BY <1>5, <3>1
    <3> QED BY <1>1, <1>6, <3>1, <3>4, <3>5, <3>6 DEF SupKnows
  <2> QED BY <2>1, <2>2
<1>20. CASE SupBridge
  <2>1. CASE sup' = Sup("run")
    <3>1. sup.pc = "bridge" /\ UNCHANGED <<child, route>>
      BY <1>20 DEF SupBridge, kernel
    <3>2. Routed'
      <4>1. Routed
        BY <1>5, <3>1
      <4> QED BY <3>1, <4>1 DEF Routed
    <3>3. /\ Active(desired) /\ sup'.engine = Engine(desired)
          /\ child'.config = desired.config /\ sup'.pc = "run"
          /\ Connected(desired) /\ Installed(desired)
      BY <1>3, <1>5, <2>1, <3>1
    <3> QED BY <1>1, <1>6, <3>2, <3>3 DEF SupKnows
  <2>2. CASE sup'.pc = "exit"
    BY <2>2 DEF SupKnows
  <2> QED BY <1>4, <1>20, <2>1, <2>2 DEF SupBridge
<1> QED
  BY <1>7, <1>8, <1>9, <1>10, <1>11, <1>12, <1>13, <1>14, <1>15, <1>16, <1>17, <1>18,
     <1>19, <1>20
  DEF Supervisor

\* The supervisor's steps keep RunInv.
LEMMA SupervisorRun ==
  ASSUME TypeOK, ClosedInv, RunInv, Supervisor
  PROVE  RunInv'
BY SupervisorRuns, SupervisorChild, SupervisorKnows DEF RunInv

------------------------------------------------------------------------------
(* procd, the init script and what comes from outside *)

\* The parts of RunInv that are about the supervisor, its command and its tunnel.
SupInv ==
  /\ SupRuns /\ ChildKnown /\ SecretMatches /\ ConnectKnows /\ FenceKnows
  /\ PrepareKnows /\ SupKnows /\ ReceiptIsSound

\* Telling the supervisor to stop, or starting one where none is, keeps them: who is
\* told to stop has nothing to show any more, who starts has nothing to show yet.
LEMMA HaltKeeps ==
  ASSUME TypeOK, ClosedInv, RunInv,
         UNCHANGED <<desired, nft, route, confFile, receipt, child, launched>>,
         ctl'["sup"] = ctl["sup"],
         \/ sup.pc = "absent" /\ sup' \in {NoSup, Fresh}
         \/ sup' = [sup EXCEPT !.term = TRUE]
  PROVE  SupInv'
<1>1. CASE sup.pc = "absent" /\ sup' \in {NoSup, Fresh}
  <2>1. ctl'["sup"] = NoCommand /\ NoCommand.cmd = "none"
    BY <1>1 DEF ClosedInv, SupAbsent, NoCommand
  <2>2. sup'.pc \in {"absent", "mode"}
    BY <1>1 DEF NoSup, Fresh
  <2>3. ~child.alive
    BY <1>1 DEF RunInv, ChildKnown, Launched
  <2>4. SupRuns' /\ ConnectKnows' /\ FenceKnows' /\ PrepareKnows' /\ SupKnows'
    BY <2>1, <2>2
    DEF SupRuns, CommandAt, ConnectKnows, FenceKnows, PrepareKnows, HasRead, SupKnows, Launched
  <2>5. ChildKnown' /\ SecretMatches' /\ ReceiptIsSound'
    BY <2>2, <2>3 DEF RunInv, ChildKnown, SecretMatches, ReceiptIsSound, Launched, Native
  <2> QED BY <2>4, <2>5 DEF SupInv
<1>2. CASE sup' = [sup EXCEPT !.term = TRUE]
  <2>1. sup'.pc = sup.pc /\ sup'.mine = sup.mine /\ sup'.engine = sup.engine
    BY <1>2
  <2>2. sup'.term /\ ~Undisturbed'
    BY <1>2 DEF TypeOK, ProcsOK, Sups, Undisturbed
  <2>3. SupRuns' /\ ChildKnown' /\ SecretMatches' /\ SupKnows' /\ ReceiptIsSound'
    BY <2>1, <2>2
    DEF RunInv, SupRuns, ChildKnown, SecretMatches, SupKnows, ReceiptIsSound, Native
  <2>4. ConnectKnows' /\ FenceKnows' /\ PrepareKnows'
    BY <2>2
    DEF RunInv, ConnectKnows, FenceKnows, PrepareKnows, HasRead, TableDone, RoutesDone,
        Verified, Fenced, Recorded, FilesDone, Native
  <2> QED BY <2>3, <2>4 DEF SupInv
<1> QED BY <1>1, <1>2

\* procd starts a supervisor only when none is left.
LEMMA ProcdRun ==
  ASSUME TypeOK, ClosedInv, RunInv, ProcdExit \/ ProcdKill
  PROVE  RunInv'
<1>1. ProcdExit
  BY DEF ProcdKill, ClosedInv, NoOrphans
<1>2. /\ sup.pc = "absent" /\ sup = NoSup
      /\ UNCHANGED <<desired, kernel, files, ctl, child, init, pending, budget, ghosts>>
  BY <1>1 DEF ProcdExit, ClosedInv, SupAbsent
<1>3. SupInv'
  BY <1>1, <1>2, HaltKeeps DEF ProcdExit, kernel, files, ghosts
<1>4. HaltTerms'
  <2>1. CASE procd.state = "halting" /\ procd.again
    <3>1. init' = "idle"
      BY <1>2, <2>1 DEF RunInv, HaltTerms
    <3>2. procd'.state = "running"
      BY <1>1, <2>1 DEF ProcdExit
    <3> QED BY <3>1, <3>2 DEF HaltTerms
  <2>2. CASE procd.state = "halting" /\ ~procd.again
    <3>1. procd'.state = "idle" /\ ~procd'.again /\ sup'.pc = "absent"
      BY <1>1, <1>2, <2>2 DEF ProcdExit, TypeOK, ProcsOK, Procds
    <3> QED BY <3>1 DEF HaltTerms
  <2>3. CASE procd.state \in {"running", "respawn"}
    <3>1. init' = "idle"
      BY <1>2, <2>3 DEF RunInv, HaltTerms
    <3>2. procd'.state \in {"respawn", "gaveup", "running"}
      BY <1>1, <2>3 DEF ProcdExit, TypeOK, ProcsOK, Procds
    <3> QED BY <3>1, <3>2 DEF HaltTerms
  <2> QED BY <1>1, <2>1, <2>2, <2>3 DEF ProcdExit
<1>5. InitRuns' /\ HandlersFailed' /\ StopPlanned'
  BY <1>2 DEF RunInv, InitRuns, HandlersFailed, StopPlanned
<1> QED BY <1>3, <1>4, <1>5 DEF RunInv, SupInv

\* The init script tells the supervisor to stop first, and works with nobody or with
\* a supervisor that has been told.
LEMMA InitScriptRun ==
  ASSUME TypeOK, ClosedInv, RunInv, InitScript
  PROVE  RunInv'
<1> USE DEF kernel, files, ghosts
<1>1. /\ UNCHANGED <<desired, nft, route, confFile, receipt, child, launched>>
      /\ ctl'["sup"] = ctl["sup"]
  BY DEF InitScript, InitStop, InitRecover, InitStart, InitReturn, InitRun, TypeOK, ProcsOK, Owners
<1>2. Owners = {"sup", "init", "orphan", "phone"}
  BY DEF Owners
<1>3. ASSUME init # "idle", sup' = sup
      PROVE  \/ sup.pc = "absent" /\ sup' \in {NoSup, Fresh}
             \/ sup' = [sup EXCEPT !.term = TRUE]
  <2>1. sup.pc = "absent" \/ sup.term
    BY <1>3 DEF RunInv, HaltTerms
  <2>2. CASE sup.pc = "absent"
    BY <1>3, <2>2 DEF ClosedInv, SupAbsent
  <2>3. CASE sup.term
    BY <1>3, <2>3 DEF TypeOK, ProcsOK, Sups
  <2> QED BY <2>1, <2>2, <2>3
<1>4. CASE InitStop
  <2>1. /\ init' = "recover" /\ ctl' = ctl
        /\ sup' = [sup EXCEPT !.term = sup.pc # "absent"]
        /\ procd' = [procd EXCEPT !.state = IF sup.pc # "absent" THEN "halting" ELSE "idle",
                                  !.again = FALSE]
    BY <1>4 DEF InitStop
  <2>2. CASE sup.pc = "absent"
    <3>1. sup = NoSup /\ ~NoSup.term
      BY <2>2 DEF ClosedInv, SupAbsent, NoSup
    <3>2. sup' = NoSup
      BY <2>1, <2>2, <3>1 DEF TypeOK, ProcsOK, Sups
    <3> QED
      <4>1. SupInv'
        BY <1>1, <2>2, <3>2, HaltKeeps
      <4>2. procd'.state = "idle" /\ ~procd'.again /\ sup'.pc = "absent"
        BY <2>1, <2>2, <3>1, <3>2 DEF TypeOK, ProcsOK, Procds
      <4>3. HaltTerms' /\ InitRuns' /\ HandlersFailed' /\ StopPlanned'
        BY <2>1, <4>2 DEF RunInv, HaltTerms, InitRuns, HandlersFailed, StopPlanned
      <4> QED BY <4>1, <4>3 DEF RunInv, SupInv
  <2>3. CASE sup.pc # "absent"
    <3>1. sup' = [sup EXCEPT !.term = TRUE]
      BY <2>1, <2>3
    <3>2. SupInv'
      BY <1>1, <3>1, HaltKeeps
    <3>3. procd'.state = "halting" /\ ~procd'.again /\ sup'.term
      BY <2>1, <2>3, <3>1 DEF TypeOK, ProcsOK, Procds, Sups
    <3>4. HaltTerms' /\ InitRuns' /\ HandlersFailed' /\ StopPlanned'
      BY <2>1, <3>3 DEF RunInv, HaltTerms, InitRuns, HandlersFailed, StopPlanned
    <3> QED BY <3>2, <3>4 DEF RunInv, SupInv
  <2> QED BY <2>2, <2>3
<1>5. CASE InitRecover
  <2>1. init = "recover" /\ UNCHANGED <<ctl, sup, procd>>
    BY <1>5 DEF InitRecover
  <2>2. SupInv'
    BY <1>1, <1>3, <2>1, HaltKeeps
  <2>3. HaltTerms' /\ InitRuns' /\ HandlersFailed' /\ StopPlanned'
    BY <2>1 DEF RunInv, HaltTerms, InitRuns, HandlersFailed, StopPlanned
  <2> QED BY <2>2, <2>3 DEF RunInv, SupInv
<1>6. ASSUME NEW name \in {"cleanup", "block"}, InitRun(name), init # "idle"
      PROVE  RunInv'
  <2>1. /\ UNCHANGED <<sup, procd>> /\ ctl'["init"] = Command(name, "none")
        /\ \A d \in Owners \ {"init"} : ctl'[d] = ctl[d]
    BY <1>6 DEF InitRun, TypeOK, ProcsOK, Owners
  <2>2. /\ Command(name, "none").cmd = name /\ Command(name, "none").ok
        /\ Command(name, "none").steps = <<"read">>
    BY <1>6, StartsFresh DEF CommandNames, ReadCommands, Reasons
  <2>3. SupInv'
    BY <1>1, <1>3, <1>6, <2>1, HaltKeeps
  <2>4. HaltTerms'
    BY <1>6, <2>1 DEF RunInv, HaltTerms
  <2>5. InitRuns' /\ HandlersFailed'
    BY <1>2, <2>1, <2>2 DEF RunInv, InitRuns, HandlersFailed
  <2>6. StopPlanned'
    BY <1>2, <2>1, <2>2 DEF RunInv, StopPlanned, StopSteps
  <2> QED BY <2>3, <2>4, <2>5, <2>6 DEF RunInv, SupInv
<1>7. CASE InitStart
  <2>1. init \in {"mode", "stopped"}
    BY <1>7 DEF InitStart
  <2>2. CASE /\ init' = "idle" /\ UNCHANGED <<ctl, sup>>
             /\ procd' = procd \/ (procd.state = "halting" /\ procd' = [procd EXCEPT !.again = TRUE])
    <3>1. SupInv'
      BY <1>1, <1>3, <2>1, <2>2, HaltKeeps
    <3>2. sup.pc = "absent" \/ sup.term
      BY <2>1 DEF RunInv, HaltTerms
    <3>3. HaltTerms' /\ InitRuns' /\ HandlersFailed' /\ StopPlanned'
      BY <2>2, <3>2 DEF RunInv, HaltTerms, InitRuns, HandlersFailed, StopPlanned
    <3> QED BY <3>1, <3>3 DEF RunInv, SupInv
  <2>3. CASE /\ init' = "idle" /\ UNCHANGED ctl /\ procd.state # "halting" /\ sup' = Fresh
             /\ procd' = [state |-> "running", again |-> FALSE, left |-> Respawns]
    <3>1. sup.pc = "absent"
      BY <2>1, <2>3 DEF ClosedInv, InitHalted
    <3>2. SupInv'
      BY <1>1, <2>3, <3>1, HaltKeeps
    <3>3. HaltTerms' /\ InitRuns' /\ HandlersFailed' /\ StopPlanned'
      BY <2>3 DEF RunInv, HaltTerms, InitRuns, HandlersFailed, StopPlanned
    <3> QED BY <3>2, <3>3 DEF RunInv, SupInv
  <2> QED BY <1>6, <1>7, <2>1, <2>2, <2>3 DEF InitStart, StartFailed
<1>8. CASE InitReturn
  <2>1. /\ init = "command" /\ init' = "idle" /\ UNCHANGED <<sup, procd>>
        /\ ctl'["init"] = NoCommand
        /\ \A d \in Owners \ {"init"} : ctl'[d] = ctl[d]
    BY <1>8 DEF InitReturn, StartFailed, TypeOK, ProcsOK, Owners
  <2>2. SupInv'
    BY <1>1, <1>3, <2>1, HaltKeeps
  <2>3. HaltTerms' /\ InitRuns' /\ HandlersFailed'
    BY <1>2, <2>1, StartsFresh DEF RunInv, HaltTerms, InitRuns, HandlersFailed
  <2>4. StopPlanned'
    BY <1>2, <2>1, StartsFresh DEF RunInv, StopPlanned, StopCommands
  <2> QED BY <2>2, <2>3, <2>4 DEF RunInv, SupInv
<1> QED BY <1>4, <1>5, <1>7, <1>8 DEF InitScript

\* Edits and reloads ask for a restart; polls, time and the tunnel's own coming and
\* going change nothing the invariant is about.
LEMMA OutsideRun ==
  ASSUME TypeOK, ClosedInv, RunInv,
         ChildUp \/ ChildDies \/ (\E s \in Desired : Edit(s)) \/ Reload \/ Poll \/ Age
  PROVE  RunInv'
<1> USE DEF kernel, files, procs, ghosts
<1>1. CASE (\E s \in Desired : Edit(s)) \/ Reload
  <2>1. /\ UNCHANGED <<nft, route, confFile, receipt, status, ctl, sup, child, init, procd, launched>>
        /\ pending' = pending + 1
    BY <1>1 DEF Edit, Reload, Asked
  <2>2. ~Undisturbed'
    BY <2>1 DEF Undisturbed, Settled, TypeOK, ProcsOK
  <2>3. HaltTerms' /\ SupRuns' /\ InitRuns' /\ HandlersFailed' /\ ChildKnown' /\ SecretMatches'
        /\ StopPlanned' /\ ReceiptIsSound' /\ SupKnows'
    BY <2>1, <2>2
    DEF RunInv, HaltTerms, SupRuns, InitRuns, HandlersFailed, ChildKnown, SecretMatches,
        StopPlanned, ReceiptIsSound, SupKnows, Native
  <2>4. ConnectKnows'
    BY <2>1, <2>2
    DEF RunInv, ConnectKnows, HasRead, TableDone, RoutesDone, Installed, Routed, Native
  <2>5. FenceKnows' /\ PrepareKnows'
    BY <2>1, <2>2
    DEF RunInv, FenceKnows, PrepareKnows, HasRead, Verified, Fenced, Recorded, FilesDone, Native
  <2> QED BY <2>3, <2>4, <2>5 DEF RunInv
<1>2. CASE Poll \/ Age
  <2>1. /\ UNCHANGED <<desired, nft, route, confFile, receipt, status, sup, child, init, procd,
                       pending, launched>>
        /\ \A d \in Owners \ {"phone"} : ctl'[d] = ctl[d]
        /\ ctl'["phone"] = ctl["phone"] \/ ctl'["phone"] = Command("probe", "none")
    BY <1>2 DEF Poll, Age, TypeOK, ProcsOK, Owners
  <2>2. Command("probe", "none").cmd = "probe" /\ Command("probe", "none").ok
    BY StartsFresh DEF CommandNames, ReadCommands, Reasons
  <2>3. Owners = {"sup", "init", "orphan", "phone"}
    BY DEF Owners
  <2>4. ctl'["sup"] = ctl["sup"] /\ ctl'["init"] = ctl["init"] /\ (Undisturbed' <=> Undisturbed)
    BY <2>1, <2>3 DEF Undisturbed, Settled
  <2>5. HaltTerms' /\ SupRuns' /\ InitRuns' /\ ChildKnown' /\ SecretMatches' /\ ReceiptIsSound'
    BY <2>1, <2>4
    DEF RunInv, HaltTerms, SupRuns, InitRuns, ChildKnown, SecretMatches, ReceiptIsSound, Native
  <2>6. HandlersFailed' /\ StopPlanned'
    BY <2>1, <2>2, <2>3 DEF RunInv, HandlersFailed, StopPlanned, StopCommands
  <2>7. ConnectKnows'
    BY <2>1, <2>4
    DEF RunInv, ConnectKnows, HasRead, TableDone, RoutesDone, Connected, Installed, Routed, Native
  <2>8. FenceKnows' /\ PrepareKnows'
    BY <2>1, <2>4
    DEF RunInv, FenceKnows, PrepareKnows, HasRead, Verified, Fenced, Recorded, FilesDone, Engine,
        Native
  <2>9. SupKnows'
    BY <2>1, <2>4 DEF RunInv, SupKnows, Connected, Installed, Routed, Active, Engine, Native
  <2> QED BY <2>5, <2>6, <2>7, <2>8, <2>9 DEF RunInv
<1>3. CASE ChildUp \/ ChildDies
  <2>1. /\ UNCHANGED <<desired, nft, confFile, receipt, status, ctl, sup, init, procd, pending,
                       launched>>
        /\ Undisturbed' <=> Undisturbed
    BY <1>3 DEF ChildUp, ChildDies, Undisturbed, Settled
  <2>2. /\ child'.gen = child.gen /\ child'.config = child.config
        /\ child'.engine = child.engine
        /\ child'.alive => child.alive /\ route' = route
        /\ child'.tun => child'.alive
        /\ child'.alive => child'.tun
    BY <1>3 DEF ChildUp, ChildDies, Dead, TypeOK, ProcsOK, Children
  <2>3. Routed => Routed'
    BY <2>2 DEF Routed
  <2>4. HaltTerms' /\ SupRuns' /\ InitRuns' /\ HandlersFailed' /\ ChildKnown' /\ SecretMatches'
        /\ StopPlanned' /\ ReceiptIsSound'
    BY <2>1, <2>2
    DEF RunInv, HaltTerms, SupRuns, InitRuns, HandlersFailed, ChildKnown, SecretMatches,
        StopPlanned, ReceiptIsSound, Native
  <2>5. ConnectKnows'
    BY <2>1, <2>3
    DEF RunInv, ConnectKnows, HasRead, TableDone, RoutesDone, Connected, Installed, Native
  <2>6. FenceKnows' /\ PrepareKnows'
    BY <2>1, <2>2
    DEF RunInv, FenceKnows, PrepareKnows, HasRead, Verified, Fenced, Recorded, FilesDone, Engine,
        Native
  <2>7. SupKnows'
    BY <2>1, <2>2, <2>3 DEF RunInv, SupKnows, Connected, Installed, Active, Engine, Native
  <2> QED BY <2>4, <2>5, <2>6, <2>7 DEF RunInv
<1> QED BY <1>1, <1>2, <1>3

\* A router that has just booted has nothing to show.
LEMMA BootRun ==
  ASSUME \A c \in Owners : ctl[c] = NoCommand, sup = NoSup, child = NoChild, init = "idle",
         receipt = {}
  PROVE  RunInv
<1>1. /\ NoCommand.cmd = "none" /\ NoCommand.ok /\ NoSup.pc = "absent" /\ ~NoSup.term
      /\ ~NoChild.alive /\ ~NoChild.tun
  BY DEF NoCommand, NoSup, NoChild
<1>2. ctl["sup"] = NoCommand /\ ctl["init"] = NoCommand
  BY DEF Owners
<1>3. HaltTerms /\ SupRuns /\ InitRuns /\ HandlersFailed /\ StopPlanned
  BY <1>1, <1>2
  DEF HaltTerms, SupRuns, CommandAt, InitRuns, HandlersFailed, StopPlanned, StopCommands
<1>4. ChildKnown /\ SecretMatches /\ SupKnows /\ ReceiptIsSound
  BY <1>1 DEF ChildKnown, Launched, SecretMatches, SupKnows, ReceiptIsSound
<1>5. ConnectKnows /\ FenceKnows /\ PrepareKnows
  BY <1>1, <1>2 DEF ConnectKnows, FenceKnows, PrepareKnows, HasRead
<1> QED BY <1>3, <1>4, <1>5 DEF RunInv

\* A reboot starts over.
LEMMA RebootRun ==
  ASSUME TypeOK, Reboot
  PROVE  RunInv'
<1>0. /\ ctl' = [c \in Owners |-> NoCommand] /\ sup' = NoSup /\ child' = NoChild
      /\ init' = "idle" /\ receipt' = {}
  BY DEF Reboot
<1>1. /\ NoCommand.cmd = "none" /\ NoCommand.ok /\ NoSup.pc = "absent" /\ ~NoSup.term
      /\ ~NoChild.alive /\ ~NoChild.tun
  BY DEF NoCommand, NoSup, NoChild
<1>2. \A c \in Owners : ctl'[c] = NoCommand
  BY <1>0
<1>3. ctl'["sup"] = NoCommand /\ ctl'["init"] = NoCommand
  BY <1>2 DEF Owners
<1>4. HaltTerms' /\ SupRuns' /\ InitRuns' /\ HandlersFailed' /\ StopPlanned'
  BY <1>0, <1>1, <1>2, <1>3
  DEF HaltTerms, SupRuns, CommandAt, InitRuns, HandlersFailed, StopPlanned, StopCommands
<1>5. ChildKnown' /\ SecretMatches' /\ SupKnows' /\ ReceiptIsSound'
  BY <1>0, <1>1 DEF ChildKnown, Launched, SecretMatches, SupKnows, ReceiptIsSound
<1>6. ConnectKnows' /\ FenceKnows' /\ PrepareKnows'
  BY <1>1, <1>3 DEF ConnectKnows, FenceKnows, PrepareKnows, HasRead
<1> QED BY <1>4, <1>5, <1>6 DEF RunInv

\* The invariant is about variables of the specification only.
LEMMA StutterRun ==
  ASSUME RunInv, UNCHANGED vars
  PROVE  RunInv'
<1>1. UNCHANGED <<desired, nft, route, confFile, receipt, status, ctl, sup, child, init, procd,
                  pending, launched>>
  BY DEF vars, kernel, files, procs, ghosts
<1>2. Undisturbed' <=> Undisturbed
  BY <1>1 DEF Undisturbed, Settled
<1>3. HaltTerms' /\ SupRuns' /\ InitRuns' /\ HandlersFailed' /\ ChildKnown' /\ SecretMatches'
      /\ StopPlanned' /\ ReceiptIsSound'
  BY <1>1
  DEF RunInv, HaltTerms, SupRuns, InitRuns, HandlersFailed, ChildKnown, SecretMatches,
      StopPlanned, ReceiptIsSound, Native
<1>4. ConnectKnows'
  BY <1>1, <1>2
  DEF RunInv, ConnectKnows, HasRead, TableDone, RoutesDone, Connected, Installed, Routed, Native
<1>5. FenceKnows' /\ PrepareKnows'
  BY <1>1, <1>2
  DEF RunInv, FenceKnows, PrepareKnows, HasRead, Verified, Fenced, Recorded, FilesDone, Engine,
      Native
<1>6. SupKnows'
  BY <1>1, <1>2 DEF RunInv, SupKnows, Connected, Installed, Routed, Active, Engine, Native
<1> QED BY <1>3, <1>4, <1>5, <1>6 DEF RunInv

\* RunInv holds in every behaviour in which no command outlives its supervisor.
THEOREM RunInvariant ==
  ASSUME MaxOrphans = 0
  PROVE  Spec => []RunInv
<1>1. Init => RunInv
  BY BootRun DEF Init
<1>2. TypeOK /\ ClosedInv /\ RunInv /\ [Next]_vars => RunInv'
  <2> SUFFICES ASSUME TypeOK, ClosedInv, RunInv, [Next]_vars PROVE RunInv'
    OBVIOUS
  <2>1. ASSUME NEW c \in Owners, Controller(c) \/ Fail(c) PROVE RunInv'
    BY <2>1, ControllerRun
  <2>2. CASE Supervisor
    BY <2>2, SupervisorRun
  <2>3. CASE ProcdExit \/ ProcdKill
    BY <2>3, ProcdRun
  <2>4. CASE InitScript
    BY <2>4, InitScriptRun
  <2>5. CASE Reboot
    BY <2>5, RebootRun
  <2>6. CASE ChildUp \/ ChildDies \/ (\E s \in Desired : Edit(s)) \/ Reload \/ Poll \/ Age
    BY <2>6, OutsideRun
  <2>7. CASE UNCHANGED vars
    BY <2>7, StutterRun
  <2> QED BY <2>1, <2>2, <2>3, <2>4, <2>5, <2>6, <2>7 DEF Next, System, Environment
<1> QED BY <1>1, <1>2, TypeCorrect, ClosedInvariant, PTL DEF Spec

\* When every restart is through and the supervisor waits for a live tunnel, status,
\* policy, route and tunnel are those of the state the owner last saved: init script,
\* engine, binary and each command have read state.json on their own, but a change of
\* it is followed by a restart that was asked for before it could be acted upon.
THEOREM RunningAsDesired ==
  ASSUME MaxOrphans = 0
  PROVE  Spec => []RunningIsDesired
<1>1. RunInv => RunningIsDesired
  <2> SUFFICES ASSUME RunInv, Settled, sup.pc = "run", ~sup.term, child.alive
               PROVE  RunningIsDesired
    BY DEF RunningIsDesired
  <2>1. /\ Connected(desired) /\ Installed(desired) /\ Routed /\ child.config = desired.config
        /\ sup.engine = Engine(desired)
    BY DEF RunInv, SupKnows, Undisturbed, Launched
  <2>2. child.engine = sup.engine
    BY DEF RunInv, ChildKnown, Launched
  <2> QED BY <2>1, <2>2 DEF RunningIsDesired, Connected, Installed, Routed
<1> QED BY <1>1, RunInvariant, PTL

\* A receipt is of a generation that was started with the configuration of the state it
\* records, and while that generation runs undisturbed, of a policy with its rules.
THEOREM ReceiptsAreSound ==
  ASSUME MaxOrphans = 0
  PROVE  Spec => []ReceiptIsSound
<1>1. RunInv => ReceiptIsSound
  BY DEF RunInv
<1> QED BY <1>1, RunInvariant, PTL

\* Nothing but the last step of apply connected publishes a profile as connected.
LEMMA PublishedByConnect ==
  ASSUME TypeOK, ClosedInv, RunInv, [Next]_vars,
         status'.phase = "connected", status.phase # "connected"
  PROVE  \E c \in Owners : WriteStatus(c) /\ ctl[c].cmd = "connect"
<1>1. ASSUME NEW c \in Owners, Controller(c) \/ Fail(c)
      PROVE  WriteStatus(c) /\ ctl[c].cmd = "connect"
  <2>a. ~Mark(c)
    BY DEF Mark, Status
  <2>b. /\ ~Read(c) /\ ~PolicyTable(c) /\ ~PolicyRoutes(c) /\ ~ProofRoutes(c) /\ ~Files(c)
        /\ ~Check(c) /\ ~Prove(c) /\ ~Verify(c) /\ ~Final(c) /\ ~Receipt(c)
        /\ ~Collect(c) /\ ~Fail(c)
    BY DEF Read, PolicyTable, PolicyRoutes, ProofRoutes, Files, Check, Prove, Verify, Final,
           Receipt, Collect, Fail, files
  <2>1. WriteStatus(c)
    BY <1>1, <2>a, <2>b DEF Controller
  <2>2. status' = StatusOf(ctl[c]) /\ ctl[c] \in Commands /\ ctl[c].steps # <<>>
        /\ Head(ctl[c].steps) = "status"
    BY <2>1 DEF WriteStatus, At, Busy, TypeOK, ProcsOK
  <2>3. ctl[c].cmd \in ReadCommands
    BY <2>2, HeadType DEF ProbeSteps
  <2> QED BY <2>1, <2>2, <2>3 DEF StatusOf, Status, ReadCommands
<1>2. ASSUME \/ Supervisor \/ ProcdExit \/ ProcdKill \/ InitScript \/ Reboot
             \/ ChildUp \/ ChildDies \/ (\E s \in Desired : Edit(s)) \/ Reload \/ Poll \/ Age
             \/ UNCHANGED vars
      PROVE  FALSE
  <2>1. ~Supervisor
    BY SupervisorMoves DEF ClosedInv
  <2>2. ~InitScript
    BY DEF InitScript, InitStop, InitRecover, InitStart, InitReturn, InitRun, StartFailed, Status,
           files
  <2> QED BY <1>2, <2>1, <2>2
      DEF ProcdExit, ProcdKill, Reboot, ChildUp, ChildDies, Edit, Reload, Poll, Age, vars, files,
          Status
<1> QED BY <1>1, <1>2 DEF Next, System, Environment

\* Unless a restart is already replacing it, the step that publishes a core profile as
\* connected finds the receipt of the running generation, of the state as it is now and
\* of a policy with its rules: the receipt is written right before, and whatever else
\* runs at that time leaves state, generation and receipt alone or asks for a restart.
THEOREM PublishedAfterReceipt ==
  ASSUME MaxOrphans = 0
  PROVE  Spec => PublishedWithReceipt
<1> DEFINE Published ==
      status'.phase = "connected" /\ status.phase # "connected"
       /\ Native(desired) /\ Settled /\ ~sup.term
     => \E r \in receipt : /\ r.ident = desired /\ r.gen = Len(launched)
                             /\ r.fp.rules = desired.rules
<1>1. TypeOK /\ ClosedInv /\ RunInv /\ [Next]_vars => [Published]_vars
  <2> SUFFICES ASSUME TypeOK, ClosedInv, RunInv, [Next]_vars,
                      status'.phase = "connected", status.phase # "connected",
                      Native(desired), Settled, ~sup.term
               PROVE  \E r \in receipt : /\ r.ident = desired /\ r.gen = Len(launched)
                                           /\ r.fp.rules = desired.rules
    OBVIOUS
  <2>1. PICK c \in Owners : WriteStatus(c) /\ ctl[c].cmd = "connect"
    BY PublishedByConnect
  <2>2. c = "sup"
    BY <2>1 DEF ClosedInv, PhoneProbes, NoOrphans, Idle, RunInv, InitRuns, Owners
  <2> DEFINE k == ctl["sup"]
  <2>3. k.cmd = "connect" /\ k \in Commands /\ k.steps # <<>> /\ Head(k.steps) = "status"
    BY <2>1, <2>2 DEF WriteStatus, At, Busy, TypeOK, ProcsOK
  <2>4. HasRead(k, "connect")
    <3>1. Head(<<"read">>) = "read"
      OBVIOUS
    <3> QED BY <2>3, <3>1 DEF HasRead
  <2>5. /\ k.steps \in IF Native(k.st) THEN NativeSteps ELSE HysteriaSteps
        /\ k.st = desired
    BY <2>4 DEF RunInv, ConnectKnows, Undisturbed
  <2>6. Len(k.steps) = 1
    BY <2>3, <2>5, NativeStep
  <2>7. Recorded(k) /\ Verified(k)
    BY <2>5, <2>6 DEF Recorded, Verified
  <2>8. /\ receipt = {[gen |-> k.gen, ident |-> k.st, fp |-> k.fp]}
        /\ k.fp.rules = k.st.rules /\ k.gen = child.gen
    BY <2>4, <2>5, <2>7 DEF RunInv, FenceKnows, Undisturbed
  <2>9. child.gen = Len(launched)
    <3>1. sup.pc = "connect"
      BY <2>3 DEF RunInv, SupRuns, CommandAt
    <3> QED BY <3>1 DEF RunInv, ChildKnown, Launched
  <2> QED BY <2>5, <2>8, <2>9
<1> QED BY <1>1, TypeCorrect, ClosedInvariant, RunInvariant, PTL DEF Spec, PublishedWithReceipt

------------------------------------------------------------------------------
(* A stop that is through *)

\* At most one step has failed so far, or none.
MostlyWorks == budget.failures + 1 >= MaxFailures
Faultless   == budget.failures = MaxFailures
FailuresLeft == budget.failures \in Nat /\ budget.failures <= MaxFailures

\* Only a supervisor that has set its traps is stopping, and what prepare leaves is
\* then taken back by a down() that knows it was asked for.
StopsLate ==
  sup.stopping => /\ sup.pc \notin {"absent", "mode", "off"}
                  /\ sup.pc = "prepare" => sup.reason = "runtime_stopped"

\* The error handler of a command that takes a policy back has cost a failure.
HandlersCost ==
  \A c \in {"sup", "init"} :
    ctl[c].cmd = "handler" /\ (c = "init" \/ sup.pc = "down") => ~Faultless

\* While the status claims a tunnel and none is wanted, somebody is still to write it.
ProcdGoesOn == \/ procd.state \notin {"idle", "halting"}
               \/ procd.state = "halting" /\ procd.again
InitWrites  == \/ init \in {"recover", "mode", "stopped"}
               \/ init = "command" /\ ctl["init"].steps # <<>>
SupWrites   == \/ sup.pc \notin Untrapped \union {"absent"}
               \/ sup.pc = "reap" /\ sup.stopping
               \/ sup.pc = "down" /\ ctl["sup"].steps # <<>>
ClaimEnds ==
  status.phase = "connected" /\ MostlyWorks =>
    Active(desired) \/ pending # 0 \/ ProcdGoesOn \/ InitWrites \/ SupWrites

\* The supervisor is on its way to a down() that removes the files first.
FilesDue ==
  \/ /\ sup.term /\ sup.pc \in {"prepare", "exit"}
     /\ sup.stopping => sup.reason = "runtime_stopped"
  \/ sup.stopping /\ sup.pc = "reap" /\ sup.reason = "runtime_stopped"
  \/ LET k == ctl["sup"] IN
     /\ k.cmd = "down" /\ k.reason = "runtime_stopped"
     /\ k.steps # <<>> /\ Head(k.steps) \in {"read", "files"}

\* prepare has written the files and is about to write its status.
Preparing ==
  LET k == ctl["sup"] IN
  /\ sup.pc = "prepare" /\ k.steps # <<>>
  /\ \/ k.cmd = "prepare" /\ Head(k.steps) = "status"
     \/ k.cmd = "handler" /\ ~Faultless

AfterFiles ==
  {<<"mark", "nft", "routes", "status">>, <<"nft", "routes", "status">>,
   <<"routes", "status">>, <<"status">>, <<>>}
SecretsGo ==
  /\ ctl["sup"].cmd \in {"down", "cleanup"} /\ ctl["sup"].steps \in AfterFiles =>
       confFile = NoFiles
  /\ ctl["init"].cmd = "cleanup" /\ ctl["init"].steps \in AfterFiles =>
       confFile = NoFiles \/ FilesDue
  /\ status.phase = "disconnected" /\ MostlyWorks =>
       confFile = NoFiles \/ FilesDue \/ Preparing

StopInv == FailuresLeft /\ StopsLate /\ HandlersCost /\ ClaimEnds /\ SecretsGo

\* A failure is one more than before.
LEMMA FailuresCost ==
  ASSUME TypeOK, FailuresLeft, NEW c \in Owners, Fail(c)
  PROVE  /\ FailuresLeft' /\ ~Faultless'
         /\ MostlyWorks' => MostlyWorks /\ Faultless
<1>1. /\ budget.failures \in Nat /\ budget.failures > 0 /\ budget.failures <= MaxFailures
      /\ budget'.failures = budget.failures - 1 /\ MaxFailures \in Nat
  BY RuntimeAssumption DEF Fail, TypeOK, GhostsOK, Budgets, FailuresLeft
<1> QED BY <1>1 DEF FailuresLeft, Faultless, MostlyWorks

\* The steps that take a policy back, and those after its files.
LEMMA StopHeads ==
  ASSUME NEW s \in StopSteps, s # <<>>
  PROVE  /\ Head(s) # "read" /\ Tail(s) = <<>> => Head(s) = "status"
         /\ Head(s) # "files" /\ Tail(s) \in AfterFiles => s \in AfterFiles \union {<<"read">>}
         /\ s \in AfterFiles => Head(s) \notin {"read", "files"}
         /\ Head(s) = "status" => s = <<"status">>
<1> USE DEF StopSteps, AfterFiles
<1>1. CASE s = <<"read">>
  <2>1. Head(s) = "read" /\ Tail(s) = <<>>
    BY <1>1
  <2> QED BY <1>1, <2>1
<1>2. CASE s = <<"nft", "routes", "files", "status">>
  <2>1. Head(s) = "nft" /\ Tail(s) = <<"routes", "files", "status">> /\ Len(s) = 4
        /\ Tail(s) \notin AfterFiles /\ Tail(s) # <<>> /\ s \notin AfterFiles
    BY <1>2
  <2> QED BY <2>1
<1>3. CASE s = <<"routes", "files", "status">>
  <2>1. Head(s) = "routes" /\ Tail(s) = <<"files", "status">>
        /\ Tail(s) \notin AfterFiles /\ Tail(s) # <<>> /\ s \notin AfterFiles
    BY <1>3
  <2> QED BY <2>1
<1>4. CASE s = <<"files", "status">>
  <2>1. Head(s) = "files" /\ Tail(s) # <<>> /\ s \notin AfterFiles
    BY <1>4
  <2> QED BY <2>1
<1>5. CASE s = <<"status">>
  <2>1. Head(s) = "status" /\ s \in AfterFiles
    BY <1>5
  <2> QED BY <1>5, <2>1
<1>6. CASE s = <<"files", "mark", "nft", "routes", "status">>
  <2>1. Head(s) = "files" /\ Tail(s) # <<>> /\ s \notin AfterFiles
    BY <1>6
  <2> QED BY <2>1
<1>7. CASE s = <<"mark", "nft", "routes", "status">>
  <2>1. Head(s) = "mark" /\ Tail(s) # <<>> /\ s \in AfterFiles
    BY <1>7
  <2> QED BY <2>1
<1>8. CASE s = <<"files", "nft", "routes", "status">>
  <2>1. Head(s) = "files" /\ Tail(s) # <<>> /\ s \notin AfterFiles
    BY <1>8
  <2> QED BY <2>1
<1>9. CASE s = <<"nft", "routes", "status">>
  <2>1. Head(s) = "nft" /\ Tail(s) # <<>> /\ s \in AfterFiles
    BY <1>9
  <2> QED BY <2>1
<1>10. CASE s = <<"routes", "status">>
  <2>1. Head(s) = "routes" /\ Tail(s) # <<>> /\ s \in AfterFiles
    BY <1>10
  <2> QED BY <2>1
<1> QED BY <1>1, <1>2, <1>3, <1>4, <1>5, <1>6, <1>7, <1>8, <1>9, <1>10

\* The plans of the commands that take a policy back: all of them have steps, the files
\* are before the status, and first where down() was asked for.
LEMMA StopPlans ==
  ASSUME NEW r \in Commands, r.cmd \in StopCommands
  PROVE  /\ Plan(r) # <<>>
         /\ r.cmd \in {"down", "cleanup"} => Plan(r) \notin AfterFiles
         /\ r.cmd = "down" /\ r.reason = "runtime_stopped" => Head(Plan(r)) = "files"
<1> DEFINE a == <<"nft", "routes", "files", "status">>
           b == <<"files", "mark", "nft", "routes", "status">>
           d == <<"files", "nft", "routes", "status">>
<1>1. /\ a \notin AfterFiles /\ b \notin AfterFiles /\ d \notin AfterFiles
      /\ a # <<>> /\ b # <<>> /\ d # <<>> /\ Head(b) = "files" /\ Head(d) = "files"
  BY DEF AfterFiles
<1> HIDE DEF a, b, d
<1>2. r.cmd = "cleanup" => Plan(r) = a
  BY DEF Plan, a
<1>3. r.cmd = "down" => Plan(r) \in {a, b, d}
  BY DEF Plan, a, b, d
<1>4. r.cmd = "down" /\ r.reason = "runtime_stopped" => Plan(r) \in {b, d}
  BY DEF Plan, CoreLoss, b, d
<1>5. r.cmd \in {"block", "handler"} => Plan(r) # <<>>
  BY DEF Plan
<1> QED BY <1>1, <1>2, <1>3, <1>4, <1>5 DEF StopCommands

\* How a step of such a command goes on, and what it writes.
LEMMA StopTurns ==
  ASSUME TypeOK, NEW c \in Owners, Controller(c), c \in {"sup", "init"},
         ctl[c].cmd \in StopCommands, ctl[c].steps \in StopSteps
  PROVE  LET k == ctl[c]
             n == ctl'[c]
         IN  /\ k.steps # <<>> /\ n.cmd = k.cmd /\ n.reason = k.reason
             /\ \/ /\ Head(k.steps) = "read"
                   /\ \E r \in Commands : /\ r.cmd = k.cmd /\ r.reason = k.reason
                                          /\ n.steps = Plan(r)
                \/ Head(k.steps) # "read" /\ n.steps = Tail(k.steps)
             /\ Head(k.steps) = "files" => confFile' = NoFiles
             /\ Head(k.steps) # "files" => confFile' = confFile
             /\ Head(k.steps) # "status" => status'.phase \in {status.phase, "blocked"}
             /\ Head(k.steps) = "status" =>
                  /\ status'.phase # "connected"
                  /\ status'.phase = "disconnected" => k.cmd \in {"down", "cleanup"}
<1> DEFINE k == ctl[c]
           n == ctl'[c]
<1>1. k \in Commands /\ k.cmd # "none" /\ k.cmd \in ReadCommands
  BY DEF TypeOK, ProcsOK, StopCommands, ReadCommands
<1>2. k.steps # <<>> => Head(k.steps) \in {"read", "nft", "routes", "files", "mark", "status"}
  BY StopStep
<1>3. \A m : Advance(c, m) => n = m
  BY DEF Advance, TypeOK, ProcsOK
<1>p. /\ Pop(k).cmd = k.cmd /\ Pop(k).steps = Tail(k.steps)
      /\ k.steps # <<>> => Pop(k).reason = k.reason
  BY <1>1, PopKeeps, PopType
<1> HIDE DEF n
<1>4. CASE Read(c)
  <2> DEFINE r == [k EXCEPT !.st = desired]
             g == IF r.cmd = "connect" /\ Native(r.st) THEN child.gen ELSE 0
             m == [r EXCEPT !.steps = Plan(r), !.gen = g]
  <2>1. r \in Commands /\ r.cmd = k.cmd /\ r.reason = k.reason
    BY <1>1 DEF Commands, TypeOK
  <2>2. Admitted(r)
    BY <2>1 DEF Admitted, StopCommands
  <2>3. n = m
    BY <1>3, <1>4, <2>2 DEF Read
  <2>4. n.cmd = k.cmd /\ n.reason = k.reason /\ n.steps = Plan(r)
    <3> HIDE DEF g
    <3> QED BY <2>1, <2>3 DEF Commands
  <2> HIDE DEF r
  <2>5. k.steps # <<>> /\ Head(k.steps) = "read" /\ confFile' = confFile /\ status' = status
    BY <1>4 DEF Read, At, Busy, files
  <2> QED BY <2>1, <2>4, <2>5 DEF n
<1>5. CASE PolicyTable(c) \/ PolicyRoutes(c)
  <2>1. n = Pop(k) /\ k.steps # <<>> /\ Head(k.steps) \in {"nft", "routes"}
        /\ confFile' = confFile /\ status' = status
    BY <1>3, <1>5 DEF PolicyTable, PolicyRoutes, At, Busy, files, StopCommands
  <2> QED BY <1>p, <2>1 DEF n
<1>6. CASE Files(c)
  <2>1. n = Pop(k) /\ k.steps # <<>> /\ Head(k.steps) = "files"
        /\ confFile' = NoFiles /\ status' = status
    BY <1>3, <1>6 DEF Files, CleanupSecret, At, Busy, StopCommands
  <2> QED BY <1>p, <2>1 DEF n
<1>7. CASE Mark(c)
  <2>1. n = Pop(k) /\ k.steps # <<>> /\ Head(k.steps) = "mark"
        /\ confFile' = confFile /\ status'.phase = "blocked"
    BY <1>3, <1>7 DEF Mark, At, Busy, Status
  <2> QED BY <1>p, <2>1 DEF n
<1>8. CASE WriteStatus(c)
  <2>1. n = Pop(k) /\ k.steps # <<>> /\ Head(k.steps) = "status"
        /\ confFile' = confFile /\ status' = StatusOf(k)
    BY <1>3, <1>8 DEF WriteStatus, At, Busy
  <2>2. /\ StatusOf(k).phase # "connected"
        /\ StatusOf(k).phase = "disconnected" => k.cmd \in {"down", "cleanup"}
    BY DEF StatusOf, Status, StopCommands
  <2> QED BY <1>p, <2>1, <2>2 DEF n
<1>9. CASE \/ ProofRoutes(c) \/ Check(c) \/ Prove(c) \/ Verify(c) \/ Final(c) \/ Receipt(c)
           \/ Collect(c)
  BY <1>2, <1>9 DEF ProofRoutes, Check, Prove, Verify, Final, Receipt, Collect, At, Busy
<1> QED BY <1>4, <1>5, <1>6, <1>7, <1>8, <1>9 DEF Controller, n

\* A step of a command that takes a policy back keeps StopInv.
LEMMA StopsKept ==
  ASSUME TypeOK, ClosedInv, RunInv, StopInv, NEW c \in Owners, Controller(c),
         c = "init" \/ (c = "sup" /\ ctl["sup"].cmd \in StopCommands)
  PROVE  StopInv'
<1> DEFINE k == ctl[c]
           n == ctl'[c]
<1>1. /\ UNCHANGED <<desired, sup, child, init, procd, pending, launched>>
      /\ k.cmd # "none"
  BY ControllerTurns
<1>2. k.cmd \in StopCommands /\ k.steps \in StopSteps /\ c \in {"sup", "init"}
  BY <1>1 DEF RunInv, InitRuns, StopPlanned, StopCommands
<1>3. /\ k.steps # <<>> /\ n.cmd = k.cmd /\ n.reason = k.reason
      /\ \/ /\ Head(k.steps) = "read"
            /\ \E r \in Commands : r.cmd = k.cmd /\ r.reason = k.reason /\ n.steps = Plan(r)
         \/ Head(k.steps) # "read" /\ n.steps = Tail(k.steps)
      /\ Head(k.steps) = "files" => confFile' = NoFiles
      /\ Head(k.steps) # "files" => confFile' = confFile
      /\ Head(k.steps) # "status" => status'.phase \in {status.phase, "blocked"}
      /\ Head(k.steps) = "status" =>
           /\ status'.phase # "connected"
           /\ status'.phase = "disconnected" => k.cmd \in {"down", "cleanup"}
  BY <1>2, StopTurns
<1>4. \A d \in Owners \ {c} : ctl'[d] = ctl[d]
  BY ControllerTurns DEF TypeOK, ProcsOK
<1>5. UNCHANGED budget
  BY DEF Controller, Read, PolicyTable, PolicyRoutes, ProofRoutes, Files, Mark, Check, Prove,
         Verify, Final, Receipt, WriteStatus, Collect
<1>6. {"sup", "init"} \subseteq Owners
  BY DEF Owners
<1> HIDE DEF k, n
<1>7. FailuresLeft' /\ StopsLate' /\ HandlersCost' /\ (MostlyWorks' <=> MostlyWorks)
      /\ (Faultless' <=> Faultless)
  <2>1. FailuresLeft' /\ StopsLate' /\ (MostlyWorks' <=> MostlyWorks) /\ (Faultless' <=> Faultless)
    BY <1>1, <1>5 DEF StopInv, FailuresLeft, StopsLate, MostlyWorks, Faultless
  <2>2. HandlersCost'
    BY <1>1, <1>2, <1>3, <1>4, <1>6, <2>1 DEF StopInv, HandlersCost, k, n
  <2> QED BY <2>1, <2>2
<1>8. /\ Head(k.steps) # "status" => n.steps # <<>>
      /\ Head(k.steps) # "files" /\ n.steps \in AfterFiles =>
           k.steps \in AfterFiles \/ k.cmd \notin {"down", "cleanup"}
      /\ Head(k.steps) \in {"read"} /\ k.cmd = "down" /\ k.reason = "runtime_stopped" =>
           n.steps # <<>> /\ Head(n.steps) = "files"
  <2>1. CASE Head(k.steps) = "read"
    BY <1>2, <1>3, <2>1, StopPlans
  <2>2. CASE Head(k.steps) # "read"
    <3>1. Head(<<"read">>) = "read"
      OBVIOUS
    <3> QED BY <1>2, <1>3, <2>2, <3>1, StopHeads
  <2> QED BY <2>1, <2>2
<1>9. /\ k.steps \in AfterFiles => Head(k.steps) \notin {"read", "files"}
      /\ Head(k.steps) = "status" => k.steps \in AfterFiles
  BY <1>2, <1>3, StopHeads DEF AfterFiles
<1>10. ClaimEnds'
  <2> SUFFICES ASSUME status'.phase = "connected", MostlyWorks PROVE ClaimEnds'
    BY <1>7 DEF ClaimEnds
  <2>1. status.phase = "connected" /\ n.steps # <<>>
    BY <1>3, <1>8
  <2>2. Active(desired) \/ pending # 0 \/ ProcdGoesOn \/ InitWrites \/ SupWrites
    BY <2>1 DEF StopInv, ClaimEnds
  <2>3. InitWrites => InitWrites'
    BY <1>1, <1>2, <1>4, <1>6, <2>1 DEF InitWrites, n
  <2>4. SupWrites => SupWrites'
    BY <1>1, <1>2, <1>4, <1>6, <2>1 DEF SupWrites, n
  <2> QED BY <1>1, <2>2, <2>3, <2>4 DEF ClaimEnds, Active, ProcdGoesOn
<1>11. SecretsGo'
  <2>1. CASE c = "init"
    <3>1. ctl'["sup"] = ctl["sup"] /\ confFile' \in {confFile, NoFiles}
      BY <1>3, <1>4, <1>6, <2>1
    <3>2. (FilesDue' <=> FilesDue) /\ (Preparing' <=> Preparing)
      BY <1>1, <1>7, <3>1 DEF FilesDue, Preparing
    <3>3. n.cmd = "cleanup" /\ n.steps \in AfterFiles => confFile' = NoFiles \/ FilesDue
      <4>1. CASE Head(k.steps) = "files"
        BY <1>3, <4>1
      <4>2. CASE Head(k.steps) # "files"
        BY <1>3, <1>8, <2>1, <4>2 DEF StopInv, SecretsGo, k
      <4> QED BY <4>1, <4>2
    <3>4. status'.phase = "disconnected" /\ MostlyWorks =>
            confFile' = NoFiles \/ FilesDue \/ Preparing
      <4>1. CASE Head(k.steps) = "status"
        <5>1. status'.phase = "disconnected" => k.cmd = "cleanup"
          BY <1>1, <1>3, <2>1, <4>1 DEF RunInv, InitRuns, k
        <5> QED BY <1>3, <1>9, <2>1, <4>1, <5>1 DEF StopInv, SecretsGo, k
      <4>2. CASE Head(k.steps) # "status"
        BY <1>3, <4>2 DEF StopInv, SecretsGo
      <4> QED BY <4>1, <4>2
    <3> QED BY <1>7, <2>1, <3>1, <3>2, <3>3, <3>4 DEF StopInv, SecretsGo, n
  <2>2. CASE c = "sup"
    <3>1. ctl'["init"] = ctl["init"] /\ confFile' \in {confFile, NoFiles}
      BY <1>3, <1>4, <1>6, <2>2
    <3>2. FilesDue => FilesDue' \/ confFile' = NoFiles
      BY <1>1, <1>3, <1>8, <2>2 DEF FilesDue, k, n
    <3>3. n.cmd \in {"down", "cleanup"} /\ n.steps \in AfterFiles => confFile' = NoFiles
      <4>1. CASE Head(k.steps) = "files"
        BY <1>3, <4>1
      <4>2. CASE Head(k.steps) # "files"
        BY <1>3, <1>8, <2>2, <4>2 DEF StopInv, SecretsGo, k
      <4> QED BY <4>1, <4>2
    <3>4. status'.phase = "disconnected" /\ MostlyWorks =>
            confFile' = NoFiles \/ FilesDue' \/ Preparing'
      <4>1. CASE Head(k.steps) = "status"
        BY <1>3, <1>9, <2>2, <4>1 DEF StopInv, SecretsGo, k
      <4>2. CASE Head(k.steps) # "status"
        <5>1. Preparing => Preparing'
          BY <1>1, <1>3, <1>7, <1>8, <2>2, <4>2 DEF Preparing, k, n
        <5> QED BY <1>3, <3>1, <3>2, <4>2, <5>1 DEF StopInv, SecretsGo
      <4> QED BY <4>1, <4>2
    <3> QED BY <1>7, <2>2, <3>1, <3>2, <3>3, <3>4 DEF StopInv, SecretsGo, n
  <2> QED BY <1>2, <2>1, <2>2
<1> QED BY <1>7, <1>10, <1>11 DEF StopInv
\* The other commands of the supervisor: while they run it is still to end with down(),
\* and what prepare writes it publishes, or removes once it was told to stop.
LEMMA StartsKept ==
  ASSUME TypeOK, ClosedInv, RunInv, StopInv, Controller("sup"),
         ctl["sup"].cmd \notin StopCommands
  PROVE  StopInv'
<1> DEFINE k == ctl["sup"]
           n == ctl'["sup"]
<1>0. "sup" \in Owners /\ "init" \in Owners
  BY DEF Owners
<1>1. /\ UNCHANGED <<desired, sup, child, init, procd, pending, launched>>
      /\ k.cmd # "none"
  BY <1>0, ControllerTurns
<1>2. \A d \in Owners \ {"sup"} : ctl'[d] = ctl[d]
  BY <1>0, ControllerTurns DEF TypeOK, ProcsOK
<1>3. UNCHANGED budget
  BY DEF Controller, Read, PolicyTable, PolicyRoutes, ProofRoutes, Files, Mark, Check, Prove,
         Verify, Final, Receipt, WriteStatus, Collect
<1>4. k.cmd \in {"prepare", "connect", "probe", "proofroutes"} /\ sup.pc = k.cmd /\ k \in Commands
  BY <1>0, <1>1 DEF TypeOK, ProcsOK, Commands, CommandNames, ReadCommands, StopCommands, RunInv,
                    SupRuns, CommandAt
<1>5. n.cmd \in {k.cmd, "handler"} /\ k.steps # <<>>
  <2>1. PICK m : /\ ctl' = [ctl EXCEPT !["sup"] = m]
                 /\ Turns(m, k) /\ k.steps # <<>>
    BY <1>0, ControllerTurns
  <2> QED BY <1>0, <2>1 DEF Turns, TypeOK, ProcsOK
<1>6. \A m : Advance("sup", m) => n = m
  BY <1>0 DEF Advance, TypeOK, ProcsOK
<1>7. UNCHANGED confFile \/ (Files("sup") /\ k.cmd = "prepare")
  <2>1. Files("sup") => k.cmd = "prepare"
    <3> SUFFICES ASSUME Files("sup"), k.cmd # "prepare" PROVE FALSE
      OBVIOUS
    <3>1. Head(k.steps) = "files"
      BY DEF Files, At
    <3>2. k.cmd = "connect"
      BY <1>4, <1>5, <3>1, HeadType DEF ReadCommands, ProbeSteps
    <3>3. HasRead(k, "connect")
      <4>1. Head(<<"read">>) = "read"
        OBVIOUS
      <4> QED BY <3>1, <3>2, <4>1 DEF HasRead
    <3>4. k.steps \in IF Native(k.st) THEN NativeSteps ELSE HysteriaSteps
      BY <3>3 DEF RunInv, ConnectKnows
    <3> QED BY <1>5, <3>1, <3>4, NativeStep, HysteriaStep
  <2> QED BY <2>1
      DEF Controller, Read, PolicyTable, PolicyRoutes, ProofRoutes, Files, Mark, Check, Prove,
          Verify, Final, Receipt, WriteStatus, Collect, files
<1>8. \/ UNCHANGED status \/ status'.phase = "blocked"
      \/ /\ status'.phase # "disconnected" /\ Head(k.steps) = "status"
  <2>1. WriteStatus("sup") => status'.phase # "disconnected" /\ Head(k.steps) = "status"
    <3>1. StatusOf(k).phase # "disconnected" \/ k.cmd \in {"probe", "proofroutes"}
      BY <1>4 DEF StatusOf, Status
    <3>2. k.steps # <<>> /\ k.cmd \in {"probe", "proofroutes"} => Head(k.steps) # "status"
      BY <1>4, HeadType DEF ReadCommands, ProbeSteps
    <3> QED BY <3>1, <3>2 DEF WriteStatus, At, Busy
  <2>2. Mark("sup") => status'.phase = "blocked"
    BY DEF Mark, Status
  <2> QED BY <2>1, <2>2
      DEF Controller, Read, PolicyTable, PolicyRoutes, ProofRoutes, Files, Check, Prove,
          Verify, Final, Receipt, Collect, files
<1> HIDE DEF n
<1>9. FailuresLeft' /\ StopsLate' /\ HandlersCost' /\ (MostlyWorks' <=> MostlyWorks)
      /\ (Faultless' <=> Faultless)
  BY <1>0, <1>1, <1>2, <1>3, <1>4
  DEF StopInv, FailuresLeft, StopsLate, HandlersCost, MostlyWorks, Faultless
<1>10. ClaimEnds'
  BY <1>1, <1>4 DEF ClaimEnds, SupWrites, Untrapped
<1>11. FilesDue => FilesDue'
  BY <1>1, <1>4 DEF FilesDue
<1>12. /\ n.cmd \notin {"down", "cleanup"} /\ ctl'["init"] = ctl["init"]
  BY <1>0, <1>2, <1>4, <1>5
<1>13. CASE Files("sup") /\ k.cmd = "prepare"
  <2>1. ctl["init"].cmd = "cleanup" => FilesDue'
    <3> SUFFICES ASSUME ctl["init"].cmd = "cleanup" PROVE FilesDue'
      OBVIOUS
    <3>1. init # "idle"
      BY DEF ClosedInv, InitWaits, Idle
    <3>2. sup.term /\ sup.pc = "prepare"
      BY <1>4, <1>13, <3>1 DEF RunInv, HaltTerms
    <3> QED BY <1>1, <3>2 DEF FilesDue, StopInv, StopsLate
  <2>2. Preparing'
    <3>1. /\ k.steps # <<>> /\ Head(k.steps) = "files"
          /\ n = Pop(k)
      BY <1>6, <1>13 DEF Files, At, Busy
    <3>2. HasRead(k, "prepare")
      <4>1. Head(<<"read">>) = "read"
        OBVIOUS
      <4> QED BY <1>13, <3>1, <4>1 DEF HasRead
    <3>3. k.steps \in PrepareSteps
      BY <3>2 DEF RunInv, PrepareKnows
    <3>4. Tail(k.steps) \in PrepareSteps /\ Len(Tail(k.steps)) = 1 /\ Tail(k.steps) # <<>>
      BY <3>1, <3>3, PrepareStep
    <3>5. Head(Tail(k.steps)) = "status"
      BY <3>4, PrepareStep
    <3>6. n.cmd = "prepare" /\ n.steps = Tail(k.steps)
      BY <1>4, <1>13, <3>1, PopKeeps
    <3> QED BY <1>1, <1>4, <1>13, <3>4, <3>5, <3>6 DEF Preparing, n
  <2>3. /\ ctl'["sup"].cmd \notin {"down", "cleanup"}
        /\ ctl'["init"].cmd = "cleanup" => FilesDue'
    BY <1>12, <2>1 DEF n
  <2> QED BY <1>9, <1>10, <2>2, <2>3 DEF SecretsGo, StopInv
<1>14. CASE UNCHANGED confFile
  <2>1. status'.phase = "disconnected" /\ MostlyWorks =>
          confFile = NoFiles \/ FilesDue
    <3> SUFFICES ASSUME status'.phase = "disconnected", Preparing PROVE FALSE
      BY <1>8 DEF StopInv, SecretsGo
    <3>1. k.cmd = "prepare" /\ Head(k.steps) = "status"
      BY <1>4 DEF Preparing
    <3>2. WriteStatus("sup")
      BY <1>1, <3>1
      DEF Controller, Read, PolicyTable, PolicyRoutes, ProofRoutes, Files, Mark, Check, Prove,
          Verify, Final, Receipt, WriteStatus, Collect, At
    <3> QED BY <3>1, <3>2 DEF WriteStatus, StatusOf, Status
  <2>2. ctl'["sup"].cmd \notin {"down", "cleanup"}
    BY <1>12 DEF n
  <2>3. ctl'["init"].cmd = "cleanup" /\ ctl'["init"].steps \in AfterFiles =>
          confFile' = NoFiles \/ FilesDue'
    BY <1>11, <1>12, <1>14 DEF StopInv, SecretsGo
  <2>4. status'.phase = "disconnected" /\ MostlyWorks' => confFile' = NoFiles \/ FilesDue'
    BY <1>9, <1>11, <1>14, <2>1
  <2> QED BY <1>9, <1>10, <2>2, <2>3, <2>4 DEF SecretsGo, StopInv
<1> QED BY <1>7, <1>13, <1>14

\* A step that fails: at most the second failure leaves a claim or a file behind.
LEMMA FailKept ==
  ASSUME TypeOK, ClosedInv, RunInv, StopInv, NEW c \in Owners, Fail(c)
  PROVE  StopInv'
<1> DEFINE k == ctl[c]
           n == ctl'[c]
<1>1. /\ UNCHANGED <<desired, sup, child, init, procd, pending, launched, confFile, status>>
      /\ k.cmd # "none" /\ k.steps # <<>> /\ k \in Commands
      /\ n = Raise(k) /\ \A d \in Owners \ {c} : ctl'[d] = ctl[d]
  BY DEF Fail, Busy, Advance, TypeOK, ProcsOK, ghosts
<1>2. FailuresLeft' /\ ~Faultless' /\ (MostlyWorks' => MostlyWorks /\ Faultless)
  BY FailuresCost DEF StopInv
<1>3. /\ n.cmd = IF k.cmd = "probe" THEN "probe" ELSE "handler"
      /\ k.cmd \notin {"probe", "handler"} => n.steps = <<"read">> /\ n.steps # <<>>
  BY <1>1 DEF Raise, Commands
<1>4. {"sup", "init"} \subseteq Owners
  BY DEF Owners
<1>5. Fallible(k)
  BY DEF Fail
<1> HIDE DEF k, n
<1>6. StopsLate' /\ HandlersCost'
  BY <1>1, <1>2 DEF StopInv, StopsLate, HandlersCost
<1>7. c = "init" => init = "command" /\ k.cmd \in {"cleanup", "block", "handler"}
  BY <1>1 DEF ClosedInv, InitWaits, Idle, RunInv, InitRuns, k
<1>8. MostlyWorks' /\ (c = "init" \/ (c = "sup" /\ sup.pc = "down")) =>
        n.steps # <<>>
  <2>1. c = "sup" /\ sup.pc = "down" => k.cmd \in {"down", "handler"}
    BY <1>1 DEF RunInv, SupRuns, CommandAt, k
  <2> QED BY <1>1, <1>2, <1>3, <1>7, <2>1 DEF StopInv, HandlersCost, k
<1>9. ClaimEnds'
  <2> SUFFICES ASSUME status.phase = "connected", MostlyWorks' PROVE ClaimEnds'
    BY <1>1 DEF ClaimEnds
  <2>1. Active(desired) \/ pending # 0 \/ ProcdGoesOn \/ InitWrites \/ SupWrites
    BY <1>2 DEF StopInv, ClaimEnds
  <2>2. InitWrites => InitWrites'
    BY <1>1, <1>4, <1>8 DEF InitWrites, n
  <2>3. SupWrites => SupWrites'
    BY <1>1, <1>4, <1>8 DEF SupWrites, n
  <2> QED BY <1>1, <2>1, <2>2, <2>3 DEF ClaimEnds, Active, ProcdGoesOn
<1>10. FilesDue => FilesDue'
  <2>1. CASE c = "sup" /\ k.cmd = "down"
    <3>1. Head(k.steps) \notin {"read", "files"}
      BY <1>5, <2>1 DEF Fallible
    <3> QED BY <1>1, <2>1, <3>1 DEF FilesDue, k
  <2>2. CASE c # "sup" \/ k.cmd # "down"
    BY <1>1, <1>4, <2>2 DEF FilesDue, k
  <2> QED BY <2>1, <2>2
<1>11. MostlyWorks' /\ Preparing => Preparing'
  <2> SUFFICES ASSUME MostlyWorks', Preparing PROVE Preparing'
    OBVIOUS
  <2>1. ctl["sup"].cmd = "prepare" /\ sup.pc = "prepare" /\ Head(ctl["sup"].steps) = "status"
        /\ ctl["sup"].steps # <<>>
    BY <1>2 DEF Preparing
  <2>2. CASE c = "sup"
    BY <1>1, <1>2, <1>3, <2>1, <2>2 DEF Preparing, k, n
  <2>3. CASE c # "sup"
    BY <1>1, <1>4, <2>1, <2>3 DEF Preparing
  <2> QED BY <2>2, <2>3
<1>12. SecretsGo'
  <2>1. n.cmd \notin {"down", "cleanup"}
    BY <1>3
  <2> QED BY <1>1, <1>2, <1>4, <1>10, <1>11, <2>1 DEF StopInv, SecretsGo, n
<1> QED BY <1>2, <1>6, <1>9, <1>12 DEF StopInv

\* A phone's probe writes neither status nor files.
LEMMA PhoneKept ==
  ASSUME TypeOK, ClosedInv, RunInv, StopInv, Controller("phone")
  PROVE  StopInv'
<1>0. "phone" \in Owners /\ "sup" \in Owners /\ "init" \in Owners
  BY DEF Owners
<1>1. /\ UNCHANGED <<desired, sup, child, init, procd, pending, launched>>
      /\ ctl["phone"].cmd # "none"
  BY <1>0, ControllerTurns
<1>2. ctl'["sup"] = ctl["sup"] /\ ctl'["init"] = ctl["init"]
  BY <1>0, ControllerTurns DEF TypeOK, ProcsOK
<1>3. ctl["phone"].cmd = "probe" /\ ctl["phone"] \in Commands
  BY <1>0, <1>1 DEF ClosedInv, PhoneProbes, TypeOK, ProcsOK
<1>4. ctl["phone"].steps # <<>> => Head(ctl["phone"].steps) \in ProbeSteps
  BY <1>3, HeadType DEF ReadCommands
<1>5. UNCHANGED <<confFile, status, budget>>
  BY <1>4
  DEF Controller, Read, PolicyTable, PolicyRoutes, ProofRoutes, Files, Mark, Check, Prove,
      Verify, Final, Receipt, WriteStatus, Collect, files, At, Busy, ProbeSteps
<1>6. FailuresLeft' /\ StopsLate' /\ HandlersCost'
  BY <1>1, <1>2, <1>5 DEF StopInv, FailuresLeft, StopsLate, HandlersCost, Faultless
<1>7. ClaimEnds'
  BY <1>1, <1>2, <1>5
  DEF StopInv, ClaimEnds, MostlyWorks, Active, ProcdGoesOn, InitWrites, SupWrites
<1>8. SecretsGo'
  BY <1>1, <1>2, <1>5 DEF StopInv, SecretsGo, MostlyWorks, FilesDue, Preparing, Faultless
<1> QED BY <1>6, <1>7, <1>8 DEF StopInv

\* Controller steps keep StopInv.
LEMMA ControllerStop ==
  ASSUME TypeOK, ClosedInv, RunInv, StopInv, NEW c \in Owners, Controller(c) \/ Fail(c)
  PROVE  StopInv'
<1>1. c = "orphan" => ~Controller(c)
  BY ControllerTurns DEF ClosedInv, NoOrphans, Idle
<1> QED BY <1>1, StopsKept, StartsKept, FailKept, PhoneKept DEF Owners

\* The supervisor's way to its end: what each step does to place, traps and command.
LEMMA SupervisorPath ==
  ASSUME TypeOK, ClosedInv, RunInv, StopInv, Supervisor
  PROVE  LET n == ctl'["sup"] IN
         \/ /\ sup.term /\ ~sup.stopping /\ sup.pc \notin Untrapped /\ n = ctl["sup"]
            /\ ~Busy("sup") /\ sup'.pc = sup.pc /\ sup'.stopping /\ sup'.term
            /\ sup'.reason = "runtime_stopped"
         \/ /\ sup.pc = "mode" /\ sup'.pc \in {"off", "block", "prepare"}
            /\ sup'.stopping = sup.stopping
         \/ /\ sup.pc \notin Untrapped \union {"absent", "exit"} /\ ~TrapDue /\ ~Busy("sup")
            /\ sup'.pc \notin Untrapped \union {"absent", "prepare"}
            /\ sup'.stopping = sup.stopping /\ sup'.term = sup.term
            /\ sup.pc = "prepare" => /\ sup'.reason = sup.reason
                                     /\ sup.stopping => sup'.pc = "exit"
         \/ /\ sup.pc = "exit" /\ sup'.pc = "reap" /\ ~TrapDue /\ n = ctl["sup"]
            /\ sup'.stopping = sup.stopping /\ sup'.term = sup.term /\ sup'.reason = sup.reason
         \/ /\ sup.pc = "reap" /\ sup'.pc = "down" /\ n = Command("down", sup.reason)
            /\ sup'.stopping = sup.stopping
         \/ /\ sup' = NoSup /\ sup.pc \in {"off", "down"} /\ n = NoCommand
            /\ Finished("sup")
         \/ /\ sup' = NoSup /\ sup.pc \in Untrapped /\ ~sup.stopping /\ ~Busy("sup")
            /\ n = NoCommand
<1> USE DEF TypeOK, ProcsOK, Sups, Here, Returned, ReadsOnly, Advance, Start, Owners, Untrapped
<1>1. \A pc : /\ Sup(pc).pc = pc /\ Sup(pc).stopping = sup.stopping /\ Sup(pc).term = sup.term
              /\ Sup(pc).reason = sup.reason
  BY DEF Sup
<1>2. \A why : Exit(why).pc = "exit" /\ Exit(why).stopping = sup.stopping
               /\ Exit(why).term = sup.term
  BY DEF Exit
<1>3. Idle("sup") \/ Finished("sup") => ~Busy("sup")
  BY DEF Idle, Finished, Busy
<1>4. CASE Trap
  BY <1>4 DEF Trap, TrapDue
<1>5. CASE SupMode
  <2>1. sup.pc = "mode" /\ Mode(desired) \in {"off", "block", "tunnel"}
    BY <1>5 DEF SupMode, Mode
  <2>2. \E pc \in {"off", "block", "prepare"} : sup' = Sup(pc)
    <3>1. CASE Mode(desired) = "off"
      BY <1>5, <3>1 DEF SupMode
    <3>2. CASE Mode(desired) = "block"
      BY <1>5, <3>2 DEF SupMode
    <3>3. CASE Mode(desired) = "tunnel"
      BY <1>5, <3>3 DEF SupMode
    <3> QED BY <2>1, <3>1, <3>2, <3>3
  <2> QED BY <1>1, <2>1, <2>2
<1>6. CASE SupOff \/ SupDown
  BY <1>6 DEF SupOff, SupDown
<1>7. CASE SupExit
  BY <1>1, <1>7 DEF SupExit
<1>8. CASE SupReap
  <2>1. sup.pc = "reap" /\ sup' = Sup("down")
        /\ ctl' = [ctl EXCEPT !["sup"] = Command("down", sup.reason)]
    BY <1>8 DEF SupReap
  <2>2. ctl'["sup"] = Command("down", sup.reason)
    BY <2>1
  <2> QED BY <1>1, <2>1, <2>2
<1>9. CASE SupDies
  <2>1. sup' = NoSup /\ sup.pc \in Untrapped /\ ~sup.stopping
    BY <1>9 DEF SupDies, Dying
  <2>2. ~Busy("sup") /\ ctl' = [ctl EXCEPT !["sup"] = NoCommand]
    BY <1>9 DEF SupDies, ClosedInv, NoOrphans
  <2>3. ctl'["sup"] = NoCommand
    BY <2>2
  <2> QED BY <2>1, <2>2, <2>3
<1>10. ASSUME sup.pc \notin Untrapped \union {"absent", "exit", "prepare"}, ~TrapDue,
              Idle("sup") \/ Finished("sup"),
              NEW pc \in SupPcs \ (Untrapped \union {"absent", "prepare"}),
              sup' = Sup(pc) \/ \E why : sup' = Exit(why)
       PROVE  /\ sup.pc \notin Untrapped \union {"absent", "exit"} /\ ~TrapDue /\ ~Busy("sup")
              /\ sup'.pc \notin Untrapped \union {"absent", "prepare"}
              /\ sup'.stopping = sup.stopping /\ sup'.term = sup.term
              /\ sup.pc # "prepare"
  BY <1>1, <1>2, <1>3, <1>10
<1>11. CASE SupPrepare
  BY <1>1, <1>3, <1>11 DEF SupPrepare
<1>12. CASE SupEngine
  <2>1. /\ sup.pc = "engine" /\ sup'.pc \in {"binary", "launch"} /\ sup'.stopping = sup.stopping
        /\ sup'.term = sup.term /\ ~TrapDue /\ Idle("sup")
    BY <1>12 DEF SupEngine
  <2> QED BY <1>3, <2>1
<1>13. CASE SupLaunch
  <2>1. /\ sup.pc = "launch" /\ sup'.pc = "waittun" /\ sup'.stopping = sup.stopping
        /\ sup'.term = sup.term /\ ~TrapDue /\ Idle("sup")
    BY <1>13 DEF SupLaunch
  <2> QED BY <1>3, <2>1
<1>14. CASE SupBlock \/ SupWaitBlock \/ SupBinary
  BY <1>10, <1>14 DEF SupBlock, SupWaitBlock, SupBinary, SupPcs
<1>15. CASE SupWaitTun
  BY <1>10, <1>15 DEF SupWaitTun, SupPcs
<1>16. CASE SupProofRoutes \/ SupProbing
  BY <1>10, <1>16 DEF SupProofRoutes, SupProbing, SupPcs
<1>17. CASE SupProbe
  BY <1>10, <1>17 DEF SupProbe, SupPcs
<1>18. CASE SupConnect
  BY <1>10, <1>18 DEF SupConnect, SupPcs
<1>19. CASE SupBridge \/ SupRun
  BY <1>10, <1>19 DEF SupBridge, SupRun, SupPcs
<1> QED
  BY <1>4, <1>5, <1>6, <1>7, <1>8, <1>9, <1>11, <1>12, <1>13, <1>14, <1>15, <1>16, <1>17,
     <1>18, <1>19
  DEF Supervisor

\* Its own failures count like those of a command.
LEMMA SupervisorBudget ==
  ASSUME TypeOK, FailuresLeft, Supervisor
  PROVE  /\ FailuresLeft' /\ (MostlyWorks' => MostlyWorks) /\ (Faultless' => Faultless)
<1>1. /\ budget \in [Budgets -> Nat] /\ budget.failures \in Nat
      /\ "failures" \in Budgets /\ "orphans" \in Budgets /\ MaxFailures \in Nat
  BY RuntimeAssumption DEF TypeOK, GhostsOK, Budgets
<1>2. \/ budget'.failures = budget.failures
      \/ budget.failures > 0 /\ budget'.failures = budget.failures - 1
  <2>1. CASE SupWaitTun \/ SupBridge
    BY <1>1, <2>1 DEF SupWaitTun, SupBridge
  <2>2. CASE SupDies
    BY <1>1, <2>2 DEF SupDies
  <2>3. CASE ~(SupWaitTun \/ SupBridge \/ SupDies)
    BY <2>3
    DEF Supervisor, Trap, SupMode, SupOff, SupBlock, SupWaitBlock, SupPrepare, SupEngine,
        SupBinary, SupLaunch, SupProofRoutes, SupProbing, SupProbe, SupConnect, SupRun,
        SupExit, SupReap, SupDown, ReadsOnly
  <2> QED BY <2>1, <2>2, <2>3
<1> QED BY <1>1, <1>2 DEF FailuresLeft, MostlyWorks, Faultless

\* Only a supervisor that procd goes on with leaves without a last word.
LEMMA SupervisorStop ==
  ASSUME TypeOK, ClosedInv, RunInv, StopInv, Supervisor
  PROVE  StopInv'
<1> DEFINE k == ctl["sup"]
           n == ctl'["sup"]
<1>1. PICK m : ctl' = [ctl EXCEPT !["sup"] = m] /\ Moves(m)
  BY SupervisorMoves DEF ClosedInv
<1>2. UNCHANGED <<desired, confFile, status, init, procd, pending>> /\ sup.pc # "absent"
  BY SupervisorMoves DEF ClosedInv
<1>3. m = n /\ ctl'["init"] = ctl["init"]
  BY <1>1 DEF TypeOK, ProcsOK, Owners
<1>4. FailuresLeft' /\ (MostlyWorks' => MostlyWorks) /\ (Faultless' => Faultless)
  BY SupervisorBudget DEF StopInv
<1>5. /\ NoSup.pc = "absent" /\ ~NoSup.stopping /\ ~NoSup.term
      /\ NoCommand.cmd = "none" /\ NoCommand.steps = <<>>
  BY DEF NoSup, NoCommand
<1>6. \A why \in Reasons : /\ Command("down", why).cmd = "down"
                           /\ Command("down", why).reason = why
                           /\ Command("down", why).steps = <<"read">>
  BY DEF Command, NoCommand
<1>7. sup.reason \in Reasons /\ <<"read">> # <<>> /\ Head(<<"read">>) = "read"
  BY DEF TypeOK, ProcsOK, Sups
<1>8. \/ k.cmd = CommandAt(sup.pc)
      \/ k.cmd = "handler" /\ CommandAt(sup.pc) \notin {"none", "probe"}
  BY DEF RunInv, SupRuns
<1> HIDE DEF n
<1>p. \/ /\ sup.term /\ ~sup.stopping /\ sup.pc \notin Untrapped /\ n = k
         /\ ~Busy("sup") /\ sup'.pc = sup.pc /\ sup'.stopping /\ sup'.term
         /\ sup'.reason = "runtime_stopped"
      \/ /\ sup.pc = "mode" /\ sup'.pc \in {"off", "block", "prepare"}
         /\ sup'.stopping = sup.stopping
      \/ /\ sup.pc \notin Untrapped \union {"absent", "exit"} /\ ~TrapDue /\ ~Busy("sup")
         /\ sup'.pc \notin Untrapped \union {"absent", "prepare"}
         /\ sup'.stopping = sup.stopping /\ sup'.term = sup.term
         /\ sup.pc = "prepare" => /\ sup'.reason = sup.reason
                                  /\ sup.stopping => sup'.pc = "exit"
      \/ /\ sup.pc = "exit" /\ sup'.pc = "reap" /\ ~TrapDue /\ n = k
         /\ sup'.stopping = sup.stopping /\ sup'.term = sup.term /\ sup'.reason = sup.reason
      \/ /\ sup.pc = "reap" /\ sup'.pc = "down" /\ n = Command("down", sup.reason)
         /\ sup'.stopping = sup.stopping
      \/ /\ sup' = NoSup /\ sup.pc \in {"off", "down"} /\ n = NoCommand
         /\ Finished("sup")
      \/ /\ sup' = NoSup /\ sup.pc \in Untrapped /\ ~sup.stopping /\ ~Busy("sup")
         /\ n = NoCommand
  BY SupervisorPath DEF n
<1>9. StopsLate'
  BY <1>2, <1>5, <1>p DEF StopInv, StopsLate, Untrapped
<1>10. HandlersCost'
  <2>1. ctl'["init"].cmd = "handler" => ~Faultless'
    BY <1>3, <1>4 DEF StopInv, HandlersCost
  <2>2. sup'.pc = "down" => n.cmd = "down"
    BY <1>5, <1>6, <1>7, <1>p DEF Untrapped
  <2> QED BY <2>1, <2>2 DEF HandlersCost, n
<1>11. ClaimEnds'
  <2> SUFFICES ASSUME status.phase = "connected", MostlyWorks, SupWrites
               PROVE  SupWrites' \/ ProcdGoesOn
    BY <1>2, <1>3, <1>4 DEF StopInv, ClaimEnds, Active, ProcdGoesOn, InitWrites
  <2>1. CASE sup.pc = "exit" /\ sup'.pc = "reap" /\ ~TrapDue /\ sup'.stopping = sup.stopping
    <3>1. sup.stopping \/ ~sup.term
      BY <2>1 DEF TrapDue, Untrapped
    <3>2. ~sup.term => ProcdGoesOn
      BY <1>2 DEF RunInv, HaltTerms, ProcdGoesOn
    <3> QED BY <2>1, <3>1, <3>2 DEF SupWrites
  <2>2. CASE sup.pc \in Untrapped /\ sup' = NoSup
    <3>1. sup.pc = "down" => k.cmd # "none"
      BY <1>8 DEF CommandAt
    <3> QED BY <1>p, <1>5, <2>2, <3>1 DEF SupWrites, Busy, Finished, Untrapped
  <2>3. CASE sup'.pc = "down" /\ n = Command("down", sup.reason)
    BY <1>6, <1>7, <2>3 DEF SupWrites, n
  <2>4. CASE sup'.pc \notin Untrapped \union {"absent"}
    BY <2>4 DEF SupWrites
  <2>5. CASE sup.pc = "mode"
    BY <2>5 DEF SupWrites, StopInv, StopsLate, Untrapped
  <2> QED BY <1>2, <1>p, <2>1, <2>2, <2>3, <2>4, <2>5 DEF Untrapped
<1>12. FilesDue => FilesDue'
  <2>1. ASSUME k.cmd = "down", k.steps # <<>> PROVE FALSE
    <3>1. sup.pc = "down" /\ Busy("sup")
      BY <1>8, <2>1 DEF CommandAt, Busy
    <3> QED BY <1>p, <3>1 DEF Untrapped, Finished, Busy
  <2>2. CASE sup.pc = "prepare" /\ sup.term /\ (sup.stopping => sup.reason = "runtime_stopped")
    BY <1>p, <2>2 DEF FilesDue, TrapDue, Untrapped
  <2>3. CASE sup.pc = "exit" /\ sup.term /\ (sup.stopping => sup.reason = "runtime_stopped")
    BY <1>p, <2>3 DEF FilesDue, TrapDue, Untrapped
  <2>4. CASE sup.pc = "reap" /\ sup.stopping /\ sup.reason = "runtime_stopped"
    BY <1>p, <1>6, <1>7, <2>4 DEF FilesDue, Untrapped, n
  <2> QED BY <2>1, <2>2, <2>3, <2>4 DEF FilesDue
<1>13. ~Preparing
  <2> SUFFICES ASSUME Preparing PROVE FALSE
    OBVIOUS
  <2>1. sup.pc = "prepare" /\ Busy("sup")
    BY DEF Preparing, Busy
  <2> QED BY <1>p, <2>1 DEF Untrapped
<1>14. n.cmd \in {"down", "cleanup"} /\ n.steps \in AfterFiles => n = k
  <2>1. \A why \in Reasons :
          CommandAt(sup'.pc) # "none" => Command(CommandAt(sup'.pc), why).cmd = CommandAt(sup'.pc)
            /\ (CommandAt(sup'.pc) \in {"down", "cleanup"} =>
                  Command(CommandAt(sup'.pc), why).steps = <<"read">>)
    BY DEF Command, NoCommand
  <2>2. <<"read">> \notin AfterFiles
    BY DEF AfterFiles
  <2> QED BY <1>1, <1>3, <1>5, <2>1, <2>2 DEF Moves
<1>15. SecretsGo'
  <2>1. n.cmd \in {"down", "cleanup"} /\ n.steps \in AfterFiles => confFile' = NoFiles
    BY <1>2, <1>14 DEF StopInv, SecretsGo
  <2>2. ctl'["init"].cmd = "cleanup" /\ ctl'["init"].steps \in AfterFiles =>
          confFile' = NoFiles \/ FilesDue'
    BY <1>2, <1>3, <1>12 DEF StopInv, SecretsGo
  <2>3. status'.phase = "disconnected" /\ MostlyWorks' => confFile' = NoFiles \/ FilesDue'
    BY <1>2, <1>4, <1>12, <1>13 DEF StopInv, SecretsGo
  <2> QED BY <2>1, <2>2, <2>3 DEF SecretsGo, n
<1> QED BY <1>4, <1>9, <1>10, <1>11, <1>15 DEF StopInv

\* Without a supervisor nothing of it is due.
LEMMA NothingDue ==
  ASSUME ClosedInv, sup.pc = "absent"
  PROVE  ~FilesDue /\ ~Preparing /\ ~SupWrites
<1>1. sup = NoSup /\ ctl["sup"] = NoCommand
  BY DEF ClosedInv, SupAbsent
<1>2. ~NoSup.stopping /\ NoCommand.cmd = "none"
  BY DEF NoSup, NoCommand
<1> QED BY <1>1, <1>2 DEF FilesDue, Preparing, SupWrites

\* procd starts the next supervisor, or had not been asked to.
LEMMA ProcdStop ==
  ASSUME TypeOK, ClosedInv, RunInv, StopInv, ProcdExit \/ ProcdKill
  PROVE  StopInv'
<1>1. ProcdExit
  BY DEF ProcdKill, ClosedInv, NoOrphans
<1>2. /\ sup.pc = "absent"
      /\ UNCHANGED <<desired, kernel, files, ctl, child, init, pending, budget, ghosts>>
      /\ sup' = sup \/ sup' = Fresh
  BY <1>1 DEF ProcdExit
<1>3. sup'.pc \in {"absent", "mode"} /\ ~sup'.stopping
  <2>1. sup = NoSup
    BY <1>2 DEF ClosedInv, SupAbsent
  <2> QED BY <1>2, <2>1 DEF NoSup, Fresh
<1>4. ~FilesDue /\ ~Preparing /\ ~SupWrites
  BY <1>2, NothingDue
<1>5. FailuresLeft' /\ StopsLate' /\ HandlersCost'
  BY <1>2, <1>3 DEF StopInv, FailuresLeft, StopsLate, HandlersCost, Faultless
<1>6. ProcdGoesOn => ProcdGoesOn'
  <2>1. procd \in Procds
    BY DEF TypeOK, ProcsOK
  <2>2. CASE procd.state = "halting" /\ procd.again
    <3>1. procd'.state = "running"
      BY <1>1, <2>2 DEF ProcdExit
    <3> QED BY <3>1 DEF ProcdGoesOn
  <2>3. CASE procd.state = "running"
    <3>1. procd' = [procd EXCEPT !.state = IF RespawnLeft THEN "respawn" ELSE "gaveup"]
      BY <1>1, <2>3 DEF ProcdExit
    <3>2. procd'.state \in {"respawn", "gaveup"}
      BY <2>1, <3>1 DEF Procds
    <3> QED BY <3>2 DEF ProcdGoesOn
  <2>4. CASE procd.state = "respawn"
    <3>1. procd' = [procd EXCEPT !.state = "running", !.left = @ - 1]
      BY <1>1, <2>4 DEF ProcdExit
    <3>2. procd'.state = "running"
      BY <2>1, <3>1 DEF Procds
    <3> QED BY <3>2 DEF ProcdGoesOn
  <2> QED BY <1>1, <2>2, <2>3, <2>4 DEF ProcdExit, ProcdGoesOn
<1>7. ClaimEnds'
  BY <1>2, <1>4, <1>6 DEF StopInv, ClaimEnds, MostlyWorks, Active, InitWrites, files
<1>8. SecretsGo'
  BY <1>2, <1>4 DEF StopInv, SecretsGo, MostlyWorks, files
<1> QED BY <1>5, <1>7, <1>8 DEF StopInv

\* The init script: as long as it does not refuse to start, it leaves a policy command
\* behind, or a supervisor.
LEMMA InitScriptStop ==
  ASSUME TypeOK, ClosedInv, RunInv, StopInv, InitScript, 1 \notin RecoveryCodes
  PROVE  StopInv'
<1> USE DEF kernel, files, ghosts
<1>1. /\ UNCHANGED <<desired, confFile, budget>> /\ ctl'["sup"] = ctl["sup"]
  BY DEF InitScript, InitStop, InitRecover, InitStart, InitReturn, InitRun, TypeOK, ProcsOK, Owners
<1>2. FailuresLeft' /\ (MostlyWorks' <=> MostlyWorks) /\ (Faultless' <=> Faultless)
  BY <1>1 DEF StopInv, FailuresLeft, MostlyWorks, Faultless
<1>3. status' = status \/ status'.phase = "error"
  BY DEF InitScript, InitStop, InitRecover, InitStart, InitReturn, InitRun, StartFailed, Status
<1>4. ASSUME sup' = sup, ctl'["init"] = ctl["init"] \/ ctl'["init"] = NoCommand
      PROVE  StopsLate' /\ HandlersCost' /\ SecretsGo'
  <2>1. StopsLate' /\ HandlersCost'
    BY <1>1, <1>2, <1>4 DEF StopInv, StopsLate, HandlersCost, NoCommand
  <2>2. (FilesDue' <=> FilesDue) /\ (Preparing' <=> Preparing)
    BY <1>1, <1>2, <1>4 DEF FilesDue, Preparing
  <2>3. SecretsGo'
    BY <1>1, <1>2, <1>3, <1>4, <2>2 DEF StopInv, SecretsGo, NoCommand
  <2> QED BY <2>1, <2>3
<1>5. CASE InitStop
  <2>1. /\ init' = "recover" /\ ctl' = ctl /\ status' = status
        /\ sup'.pc = sup.pc /\ sup'.stopping = sup.stopping /\ sup'.reason = sup.reason
        /\ sup.pc # "absent" => sup'.term
    BY <1>5 DEF InitStop, TypeOK, ProcsOK, Sups
  <2>2. StopsLate' /\ HandlersCost' /\ ClaimEnds'
    BY <1>2, <2>1 DEF StopInv, StopsLate, HandlersCost, ClaimEnds, InitWrites
  <2>3. (FilesDue => FilesDue') /\ (Preparing => Preparing')
    BY <1>2, <2>1 DEF FilesDue, Preparing
  <2>4. SecretsGo'
    BY <1>1, <1>2, <2>1, <2>3 DEF StopInv, SecretsGo
  <2> QED BY <1>2, <2>2, <2>4 DEF StopInv
<1>6. CASE InitRecover
  <2>1. init' \in {"mode", "stopped"} /\ ctl' = ctl /\ sup' = sup
    BY <1>6 DEF InitRecover
  <2>2. ClaimEnds'
    BY <2>1 DEF ClaimEnds, InitWrites
  <2> QED BY <1>2, <1>4, <2>1, <2>2 DEF StopInv
<1>7. ASSUME NEW name \in {"cleanup", "block"}, InitRun(name) PROVE StopInv'
  <2>1. /\ init' = "command" /\ sup' = sup /\ ctl'["init"] = Command(name, "none")
    BY <1>7 DEF InitRun, TypeOK, ProcsOK, Owners
  <2>2. Command(name, "none").cmd = name /\ Command(name, "none").steps = <<"read">>
    BY DEF Command, NoCommand
  <2>3. <<"read">> # <<>> /\ <<"read">> \notin AfterFiles
    BY DEF AfterFiles
  <2>4. StopsLate' /\ HandlersCost' /\ ClaimEnds'
    BY <1>1, <1>2, <2>1, <2>2, <2>3
    DEF StopInv, StopsLate, HandlersCost, ClaimEnds, InitWrites
  <2>5. (FilesDue' <=> FilesDue) /\ (Preparing' <=> Preparing)
    BY <1>1, <1>2, <2>1 DEF FilesDue, Preparing
  <2>6. SecretsGo'
    BY <1>1, <1>2, <1>3, <2>1, <2>2, <2>3, <2>5 DEF StopInv, SecretsGo
  <2> QED BY <1>2, <2>4, <2>6 DEF StopInv
<1>8. CASE InitStart
  <2>1. init \in {"mode", "stopped"}
    BY <1>8 DEF InitStart
  <2>2. CASE /\ ctl' = ctl /\ procd.state = "halting"
             /\ procd' = [procd EXCEPT !.again = TRUE] /\ sup' = sup
    <3>1. ProcdGoesOn'
      BY <2>2 DEF ProcdGoesOn, TypeOK, ProcsOK, Procds
    <3> QED BY <1>2, <1>4, <2>2, <3>1 DEF StopInv, ClaimEnds
  <2>3. CASE /\ ctl' = ctl /\ procd.state # "halting" /\ sup' = Fresh
             /\ procd' = [state |-> "running", again |-> FALSE, left |-> Respawns]
    <3>1. sup.pc = "absent"
      BY <2>1, <2>3 DEF ClosedInv, InitHalted
    <3>2. ~FilesDue /\ ~Preparing
      BY <3>1, NothingDue
    <3>3. ~sup'.stopping /\ sup'.pc = "mode"
      BY <2>3 DEF Fresh, NoSup
    <3>4. StopsLate' /\ HandlersCost' /\ ClaimEnds'
      BY <1>2, <2>3, <3>3 DEF StopInv, StopsLate, HandlersCost, ClaimEnds, ProcdGoesOn
    <3>5. SecretsGo'
      BY <1>1, <1>2, <1>3, <2>3, <3>2 DEF StopInv, SecretsGo
    <3> QED BY <1>2, <3>4, <3>5 DEF StopInv
  <2>4. CASE ctl' = ctl /\ sup' = sup /\ Mode(desired) = "tunnel"
    <3>1. Active(desired)
      BY <2>4 DEF Mode
    <3>2. ClaimEnds'
      BY <1>1, <3>1 DEF ClaimEnds, Active
    <3> QED BY <1>2, <1>4, <2>4, <3>2 DEF StopInv
  <2> QED BY <1>7, <1>8, <2>2, <2>3, <2>4 DEF InitStart
<1>9. CASE InitReturn
  <2>1. /\ init = "command" /\ sup' = sup /\ ctl'["init"] = NoCommand /\ ctl["init"].steps = <<>>
        /\ UNCHANGED <<procd, pending>>
    BY <1>9 DEF InitReturn, Finished, TypeOK, ProcsOK, Owners
  <2>2. ClaimEnds'
    BY <1>1, <1>2, <1>3, <2>1
    DEF StopInv, ClaimEnds, Active, ProcdGoesOn, InitWrites, SupWrites
  <2> QED BY <1>2, <1>4, <2>1, <2>2 DEF StopInv
<1> QED BY <1>5, <1>6, <1>8, <1>9 DEF InitScript

\* What comes from outside asks for a restart or touches none of it.
LEMMA OutsideStop ==
  ASSUME TypeOK, ClosedInv, RunInv, StopInv,
         ChildUp \/ ChildDies \/ (\E s \in Desired : Edit(s)) \/ Reload \/ Poll \/ Age
  PROVE  StopInv'
<1>1. /\ UNCHANGED <<confFile, status, sup, init, procd>>
      /\ ctl'["sup"] = ctl["sup"] /\ ctl'["init"] = ctl["init"]
      /\ budget'.failures = budget.failures
  BY DEF ChildUp, ChildDies, Edit, Reload, Poll, Age, kernel, files, procs, TypeOK, ProcsOK,
         GhostsOK, Budgets, Owners
<1>2. UNCHANGED <<desired, pending>> \/ pending' = pending + 1
  BY DEF ChildUp, ChildDies, Edit, Reload, Poll, Age, Asked
<1>3. pending' = pending + 1 => pending' # 0
  BY DEF TypeOK, ProcsOK
<1>4. FailuresLeft' /\ StopsLate' /\ HandlersCost'
  BY <1>1 DEF StopInv, FailuresLeft, StopsLate, HandlersCost, Faultless
<1>5. ClaimEnds'
  BY <1>1, <1>2, <1>3
  DEF StopInv, ClaimEnds, MostlyWorks, Active, ProcdGoesOn, InitWrites, SupWrites
<1>6. SecretsGo'
  BY <1>1 DEF StopInv, SecretsGo, MostlyWorks, FilesDue, Preparing, Faultless
<1> QED BY <1>4, <1>5, <1>6 DEF StopInv

\* A boot leaves no files, no claim and no process.
LEMMA InitStopped ==
  ASSUME Init
  PROVE  StopInv
<1>1. /\ ctl["sup"] = NoCommand /\ ctl["init"] = NoCommand /\ sup = NoSup /\ confFile = NoFiles
      /\ status.phase = "connecting" /\ budget.failures = MaxFailures /\ MaxFailures \in Nat
  BY RuntimeAssumption DEF Init, Owners, Status
<1>2. NoCommand.cmd = "none" /\ ~NoSup.stopping
  BY DEF NoCommand, NoSup
<1> QED BY <1>1, <1>2 DEF StopInv, FailuresLeft, StopsLate, HandlersCost, ClaimEnds, SecretsGo

\* A reboot is a boot, with what has failed so far.
LEMMA RebootStop ==
  ASSUME TypeOK, StopInv, Reboot
  PROVE  StopInv'
<1>1. /\ ctl'["sup"] = NoCommand /\ ctl'["init"] = NoCommand /\ sup' = NoSup
      /\ confFile' = NoFiles /\ status'.phase = "connecting"
      /\ budget'.failures = budget.failures
  BY DEF Reboot, Owners, Status, TypeOK, GhostsOK, Budgets
<1>2. NoCommand.cmd = "none" /\ ~NoSup.stopping
  BY DEF NoCommand, NoSup
<1> QED BY <1>1, <1>2 DEF StopInv, FailuresLeft, StopsLate, HandlersCost, ClaimEnds, SecretsGo

\* Stuttering changes none of it.
LEMMA StutterStop ==
  ASSUME StopInv, UNCHANGED vars
  PROVE  StopInv'
<1>1. UNCHANGED <<desired, confFile, status, ctl, sup, init, procd, pending, budget>>
  BY DEF vars, files, procs
<1>2. FailuresLeft' /\ StopsLate' /\ HandlersCost'
  BY <1>1 DEF StopInv, FailuresLeft, StopsLate, HandlersCost, Faultless
<1>3. ClaimEnds'
  BY <1>1 DEF StopInv, ClaimEnds, MostlyWorks, Active, ProcdGoesOn, InitWrites, SupWrites
<1>4. SecretsGo'
  BY <1>1 DEF StopInv, SecretsGo, MostlyWorks, FilesDue, Preparing, Faultless
<1> QED BY <1>2, <1>3, <1>4 DEF StopInv

\* When a stop is through, no tunnel runs, and as long as at most one step has failed and
\* the recovery of backups never refused a start, no status claims one and a status that
\* reports success left no credential file.  Both conditions are needed: with two failures
\* a step and the handler's own status write may fail, and where the recovery refuses,
\* a supervisor that gets TERM between its traps and its down() ends without either.
THEOREM StopsAreStopped ==
  ASSUME MaxOrphans = 0, 1 \notin RecoveryCodes
  PROVE  Spec => []((Quiet /\ ~Active(desired) => ~child.alive)
                    /\ (MostlyWorks => StoppedIsStopped))
<1>1. Init => StopInv
  BY InitStopped
<1>2. TypeOK /\ ClosedInv /\ RunInv /\ StopInv /\ [Next]_vars => StopInv'
  <2> SUFFICES ASSUME TypeOK, ClosedInv, RunInv, StopInv, [Next]_vars PROVE StopInv'
    OBVIOUS
  <2>1. ASSUME NEW c \in Owners, Controller(c) \/ Fail(c) PROVE StopInv'
    BY <2>1, ControllerStop
  <2>2. CASE Supervisor
    BY <2>2, SupervisorStop
  <2>3. CASE ProcdExit \/ ProcdKill
    BY <2>3, ProcdStop
  <2>4. CASE InitScript
    BY <2>4, InitScriptStop
  <2>5. CASE Reboot
    BY <2>5, RebootStop
  <2>6. CASE ChildUp \/ ChildDies \/ (\E s \in Desired : Edit(s)) \/ Reload \/ Poll \/ Age
    BY <2>6, OutsideStop
  <2>7. CASE UNCHANGED vars
    BY <2>7, StutterStop
  <2> QED BY <2>1, <2>2, <2>3, <2>4, <2>5, <2>6, <2>7 DEF Next, System, Environment
<1>3. ClosedInv /\ RunInv /\ StopInv =>
        (Quiet /\ ~Active(desired) => ~child.alive) /\ (MostlyWorks => StoppedIsStopped)
  <2> SUFFICES ASSUME ClosedInv, RunInv, StopInv, Quiet, ~Active(desired)
               PROVE  /\ ~child.alive
                      /\ MostlyWorks => /\ status.phase # "connected"
                                        /\ status.phase = "disconnected" => confFile = NoFiles
    BY DEF StoppedIsStopped
  <2>1. sup.pc = "absent" /\ procd.state = "idle" /\ pending = 0 /\ init = "idle"
    BY DEF Quiet, Settled
  <2>2. ~child.alive
    BY <2>1 DEF RunInv, ChildKnown, Launched
  <2>3. ~FilesDue /\ ~Preparing /\ ~SupWrites
    BY <2>1, NothingDue
  <2> QED BY <2>1, <2>2, <2>3 DEF StopInv, ClaimEnds, SecretsGo, ProcdGoesOn, InitWrites
<1> QED BY <1>1, <1>2, <1>3, TypeCorrect, ClosedInvariant, RunInvariant, PTL DEF Spec
=============================================================================
