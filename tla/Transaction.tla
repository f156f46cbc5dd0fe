---------------------------- MODULE Transaction ----------------------------
(* The native transaction helper on its way into the BASE package.         *)
(*                                                                         *)
(* native/transaction/build.py rebuilds the helper: it runs the build      *)
(* tools one after another, each in a process group of its own, and        *)
(* records the identity of what they left.  tools/check-transaction-       *)
(* inputs.py reads an external manifest and two gzip files and installs    *)
(* the three into the package tree.                                        *)
(*                                                                         *)
(* The inputs may be rewritten in place or replaced while they are read,   *)
(* a build tool may leave children behind, ignore SIGTERM or hang in the   *)
(* kernel, two installations may meet in one package tree, and any of the  *)
(* Python processes may be killed.  A digest is the version of the bytes   *)
(* it was taken of; a file is two halves, so that a read may be torn.      *)
EXTENDS Naturals, Sequences

CONSTANTS
  Installers,    \* runs of check-transaction-inputs.py --install-dir
  Attempts,      \* runs of native/transaction/build.py
  Works,         \* the --work directories they may be given
  BuildSteps,    \* the run_step calls of one build, the strip step last
  MaxVersion,    \* versions of an input file
  MaxWrites,     \* writes to one work directory by build tools
  MaxKills       \* deaths of Python processes

ASSUME TransactionAssumption ==
  /\ BuildSteps \in Seq(STRING) /\ Len(BuildSteps) > 0
  /\ {MaxVersion, MaxWrites, MaxKills} \subseteq Nat /\ MaxVersion > 0
  /\ "nobody" \notin Installers \cup Attempts

VARIABLES
  file,      \* the external inputs: inode, time stamps, the two halves
  writer,    \* the input somebody has half rewritten in place
  installer, \* the installing processes
  dest,      \* the three package data files: who created them, what they hold
  build,     \* the building processes
  group,     \* the process group of the build step an attempt is in
  work,      \* the work directories
  kills      \* deaths so far

tvars == <<file, writer, installer, dest, build, group, work, kills>>

Inputs == <<"manifest", "x86_64", "aarch64_cortex-a53">>
InputNames == {Inputs[n] : n \in DOMAIN Inputs}
Nobody == "nobody"
Absent == [by |-> Nobody, data |-> 0]
NoGroup == [leader |-> "none", child |-> "none", temper |-> "mild"]
NoWork == [by |-> Nobody, apk |-> 0, out |-> 0, gz |-> 0, id |-> 0]

NewInstaller(v) ==
  [pc |-> "lstat", at |-> 1, expect |-> v, before |-> <<0, 0>>, lo |-> 0,
   raw |-> [p \in InputNames |-> 0]]
NewBuild == [pc |-> "start", dir |-> Nobody, step |-> 0, raised |-> FALSE, rc |-> 0, elf |-> 0]

TInit ==
  /\ file = [p \in InputNames |-> [ino |-> 1, stamp |-> 0, lo |-> 1, hi |-> 1]]
  /\ writer = Nobody
  /\ installer \in [Installers -> {NewInstaller(v) : v \in 1..MaxVersion}]
  /\ dest = [p \in InputNames |-> Absent]
  /\ build = [a \in Attempts |-> NewBuild]
  /\ group = [a \in Attempts |-> NoGroup]
  /\ work = [d \in Works |-> NoWork]
  /\ kills = 0

-----------------------------------------------------------------------------
(* Whoever produces the inputs: a rewrite in place shows in the time stamps  *)
(* at worst when it ends, or not at all if the clock of the file system has  *)
(* not ticked; a replacement by rename is another inode.                     *)

RewriteBegin(p) ==
  /\ writer = Nobody
  /\ file[p].lo < MaxVersion
  /\ file' = [file EXCEPT ![p].lo = @ + 1]
  /\ writer' = p
  /\ UNCHANGED <<installer, dest, build, group, work, kills>>

RewriteEnd ==
  /\ writer # Nobody
  /\ \E tick \in {0, 1} :
       file' = [file EXCEPT ![writer].hi = file[writer].lo, ![writer].stamp = @ + tick]
  /\ writer' = Nobody
  /\ UNCHANGED <<installer, dest, build, group, work, kills>>

Replace(p) ==
  /\ writer # p
  /\ file[p].lo < MaxVersion
  /\ file' = [file EXCEPT ![p] = [ino |-> @.ino + 1, stamp |-> @.stamp + 1,
                                  lo |-> @.lo + 1, hi |-> @.lo + 1]]
  /\ UNCHANGED <<writer, installer, dest, build, group, work, kills>>

-----------------------------------------------------------------------------
(* typed_read(): what lstat() and fstat() tell must be the same before,      *)
(* during and after the read.  The path stays the name of one inode or the   *)
(* facts differ, so a read through a descriptor whose path has been          *)
(* replaced may return anything.                                             *)

Facts(p) == <<file[p].ino, file[p].stamp>>
Reading(i) == Inputs[installer[i].at]
Goto(i, pc) == installer' = [installer EXCEPT ![i].pc = pc]
InstallEnds(i, pc) ==
  installer' = [installer EXCEPT ![i] = [NewInstaller(@.expect) EXCEPT !.pc = pc]]
OthersThanInstaller == UNCHANGED <<file, writer, build, group, work, kills>>

ReadLstat(i) ==
  /\ installer[i].pc = "lstat"
  /\ installer' = [installer EXCEPT ![i].pc = "open", ![i].before = Facts(Reading(i))]
  /\ UNCHANGED dest /\ OthersThanInstaller

ReadOpen(i) ==
  /\ installer[i].pc = "open"
  /\ IF Facts(Reading(i)) = installer[i].before
       THEN installer' = [installer EXCEPT ![i].pc = "read", ![i].lo = file[Reading(i)].lo]
       ELSE InstallEnds(i, "refused")
  /\ UNCHANGED dest /\ OthersThanInstaller

(* Every version pins its two targets by its own number.  A target that      *)
(* passes has the gzip digest of the manifest's row, so its expansion and    *)
(* its ELF closure, functions of those bytes, are the recorded ones.         *)
VerifyInput(i, lo, hi) ==
  /\ lo = hi
  /\ IF Reading(i) = "manifest"
       THEN lo = installer[i].expect
       ELSE lo = installer[i].raw["manifest"]

(* Reads the second half, compares the facts and the pinned digest and goes  *)
(* on to the next input: only bytes that passed stay in memory.              *)
ReadRest(i) ==
  LET p == Reading(i) IN
  /\ installer[i].pc = "read"
  /\ IF Facts(p) = installer[i].before /\ VerifyInput(i, installer[i].lo, file[p].hi)
       THEN installer' = [installer EXCEPT
              ![i].raw[p] = file[p].hi,
              ![i].pc = IF installer[i].at = Len(Inputs) THEN "check" ELSE "lstat",
              ![i].at = IF @ = Len(Inputs) THEN 1 ELSE @ + 1]
       ELSE InstallEnds(i, "refused")
  /\ UNCHANGED dest /\ OthersThanInstaller

(* install(): all three names must be free, then one exclusive creation      *)
(* after the other.                                                          *)
InstallCheck(i) ==
  /\ installer[i].pc = "check"
  /\ IF \A p \in InputNames : dest[p] = Absent THEN Goto(i, "create")
     ELSE InstallEnds(i, "refused")
  /\ UNCHANGED dest /\ OthersThanInstaller

InstallCreate(i) ==
  /\ installer[i].pc = "create"
  /\ IF dest[Reading(i)] = Absent
       THEN /\ Goto(i, "data")
            /\ dest' = [dest EXCEPT ![Reading(i)] = [by |-> i, data |-> 0]]
       ELSE /\ InstallEnds(i, "refused")
            /\ UNCHANGED dest
  /\ OthersThanInstaller

X_InstallData(i) ==
  /\ installer[i].pc = "data"
  /\ dest' = [dest EXCEPT ![Reading(i)].data = file[Reading(i)].hi]
  /\ IF installer[i].at = Len(Inputs) THEN InstallEnds(i, "done")
     ELSE installer' = [installer EXCEPT ![i].pc = "create", ![i].at = @ + 1]
  /\ OthersThanInstaller
InstallData(i) ==
  /\ installer[i].pc = "data"
  /\ dest' = [dest EXCEPT ![Reading(i)].data = installer[i].raw[Reading(i)]]
  /\ IF installer[i].at = Len(Inputs) THEN InstallEnds(i, "done")
     ELSE installer' = [installer EXCEPT ![i].pc = "create", ![i].at = @ + 1]
  /\ OthersThanInstaller

InstallerKilled(i) ==
  /\ installer[i].pc \notin {"done", "refused", "dead"}
  /\ kills < MaxKills
  /\ kills' = kills + 1
  /\ InstallEnds(i, "dead")
  /\ UNCHANGED <<file, writer, dest, build, group, work>>

-----------------------------------------------------------------------------
(* The tools a build step runs: the leader of the group, and a child it may  *)
(* leave behind.  Either may be deaf to SIGTERM or stuck in the kernel, and  *)
(* both write into the work directory.                                       *)

OthersThanGroup == UNCHANGED <<file, writer, installer, dest, build, kills>>
Alive(a) == {m \in {"leader", "child"} : group[a][m] = "alive"}
GroupEmpty(a) == group[a].leader \in {"none", "reaped"} /\ group[a].child # "alive"

Fork(a) ==
  /\ group[a].leader = "alive" /\ group[a].child = "none"
  /\ group' = [group EXCEPT ![a].child = "alive"]
  /\ UNCHANGED work /\ OthersThanGroup

LeaderExits(a) ==
  /\ group[a].leader = "alive"
  /\ \E rc \in {0, 1} : build' = [build EXCEPT ![a].rc = rc]
  /\ group' = [group EXCEPT ![a].leader = "zombie"]
  /\ UNCHANGED <<file, writer, installer, dest, work, kills>>

ChildExits(a) ==
  /\ group[a].child = "alive" /\ group[a].temper # "stuck"
  /\ group' = [group EXCEPT ![a].child = "none"]
  /\ UNCHANGED work /\ OthersThanGroup

(* The strip step works on the copied output, the earlier ones on the tree.  *)
ToolWrites(a) ==
  LET d == build[a].dir IN
  /\ Alive(a) # {}
  /\ work[d].apk + work[d].out < MaxWrites
  /\ work' = IF build[a].step = Len(BuildSteps)
               THEN [work EXCEPT ![d].out = @ + 1]
               ELSE [work EXCEPT ![d].apk = @ + 1]
  /\ UNCHANGED group /\ OthersThanGroup

-----------------------------------------------------------------------------
(* build.py                                                                  *)

OthersThanBuild == UNCHANGED <<file, writer, installer, dest, kills>>
BuildGoto(a, pc) == build' = [build EXCEPT ![a].pc = pc]
BuildEnds(a, pc) ==
  build' = [build EXCEPT ![a] = [NewBuild EXCEPT !.pc = pc, !.dir = build[a].dir,
                                                 !.step = build[a].step]]

(* main(): a fresh work directory, then the pinned inputs, which exact_input *)
(* and read_source check the way typed_read does, unpacked into it.          *)
BuildStart(a) ==
  /\ build[a].pc = "start"
  /\ \E d \in Works :
       IF work[d] = NoWork
         THEN /\ build' = [build EXCEPT ![a].pc = "spawn", ![a].dir = d, ![a].step = 1]
              /\ work' = [work EXCEPT ![d].by = a]
         ELSE /\ BuildEnds(a, "failed")
              /\ UNCHANGED work
  /\ UNCHANGED group /\ OthersThanBuild

(* run_step(): the leader starts in a session of its own.                    *)
Spawn(a) ==
  /\ build[a].pc = "spawn"
  /\ build' = [build EXCEPT ![a].pc = "run", ![a].raised = FALSE, ![a].rc = 0]
  /\ \E temper \in {"mild", "deaf", "stuck"} :
       group' = [group EXCEPT ![a] = [leader |-> "alive", child |-> "none", temper |-> temper]]
  /\ UNCHANGED work /\ OthersThanBuild

(* poll() reaps a leader that has exited; the limits of 600 s and of 8 MiB   *)
(* of log, or a Ctrl-C, raise.  Both ways lead through stop_owned_group().   *)
X_Poll(a) ==
  /\ build[a].pc = "run"
  /\ \/ /\ group[a].leader = "zombie"
        /\ group' = [group EXCEPT ![a].leader = "reaped"]
        /\ BuildGoto(a, "ended")
     \/ /\ build' = [build EXCEPT ![a].pc = "term", ![a].raised = TRUE]
        /\ UNCHANGED group
  /\ UNCHANGED work /\ OthersThanBuild
Poll(a) ==
  /\ build[a].pc = "run"
  /\ \/ /\ group[a].leader = "zombie"
        /\ group' = [group EXCEPT ![a].leader = "reaped"]
        /\ BuildGoto(a, "term")
     \/ /\ build' = [build EXCEPT ![a].pc = "term", ![a].raised = TRUE]
        /\ UNCHANGED group
  /\ UNCHANGED work /\ OthersThanBuild

(* A signal ends the members it reaches: a leader becomes a zombie, a child  *)
(* is reaped by whoever inherits it.  SIGKILL reaches the deaf, nothing      *)
(* reaches the stuck.                                                        *)
Signalled(g, sig) ==
  IF g.temper = "stuck" \/ (sig = "TERM" /\ g.temper = "deaf") THEN g
  ELSE [g EXCEPT !.leader = IF @ = "alive" THEN "zombie" ELSE @, !.child = "none"]

StopTerm(a) ==
  /\ build[a].pc = "term"
  /\ BuildGoto(a, IF GroupEmpty(a) THEN "wait" ELSE "grace")
  /\ group' = [group EXCEPT ![a] = Signalled(@, "TERM")]
  /\ UNCHANGED work /\ OthersThanBuild

(* Five seconds of polling for the group to empty, then SIGKILL.             *)
StopGrace(a) ==
  LET polled == [group[a] EXCEPT !.leader = IF @ = "zombie" THEN "reaped" ELSE @]
      empty == polled.leader \in {"none", "reaped"} /\ polled.child # "alive" IN
  /\ build[a].pc = "grace"
  /\ BuildGoto(a, "wait")
  /\ group' = [group EXCEPT ![a] = IF empty THEN polled ELSE Signalled(polled, "KILL")]
  /\ UNCHANGED work /\ OthersThanBuild

X_StopWait(a) ==
  /\ build[a].pc = "wait"
  /\ group[a].leader # "alive" /\ group[a].child # "alive"
  /\ group' = [group EXCEPT ![a] = NoGroup]
  /\ BuildGoto(a, "ended")
  /\ UNCHANGED work /\ OthersThanBuild
(* wait() gives up on a leader that is still there, the last loop on a group *)
(* that is; otherwise the step ends.                                         *)
StopWait(a) ==
  LET gone == group[a].leader # "alive" /\ group[a].child # "alive" IN
  /\ build[a].pc = "wait"
  /\ group' = [group EXCEPT ![a] = IF gone THEN NoGroup
                                    ELSE [@ EXCEPT !.leader = IF @ = "zombie" THEN "reaped" ELSE @]]
  /\ IF gone THEN BuildGoto(a, "ended") ELSE BuildEnds(a, "failed")
  /\ UNCHANGED work /\ OthersThanBuild

(* The exit code decides; between the last two steps the built apk is copied *)
(* to the output.                                                            *)
StepEnds(a) ==
  LET b == build[a]
      last == b.step = Len(BuildSteps) IN
  /\ b.pc = "ended"
  /\ IF b.raised \/ b.rc # 0
       THEN BuildEnds(a, "failed") /\ UNCHANGED work
       ELSE /\ build' = [build EXCEPT ![a].pc = IF last THEN "read" ELSE "spawn",
                                      ![a].step = IF last THEN @ ELSE @ + 1]
            /\ work' = IF b.step = Len(BuildSteps) - 1
                          THEN [work EXCEPT ![b.dir].out = work[b.dir].apk] ELSE work
  /\ UNCHANGED group /\ OthersThanBuild

(* The bytes are read once; gzip file and identity come from memory.         *)
ReadOutput(a) ==
  /\ build[a].pc = "read"
  /\ build' = [build EXCEPT ![a].pc = "pack", ![a].elf = work[build[a].dir].out]
  /\ UNCHANGED <<group, work>> /\ OthersThanBuild

PackOutput(a) ==
  /\ build[a].pc = "pack"
  /\ BuildGoto(a, "record")
  /\ work' = [work EXCEPT ![build[a].dir].gz = build[a].elf]
  /\ UNCHANGED group /\ OthersThanBuild

(* artifact.json is written unless the recorded manifest, when given, tells  *)
(* another identity.                                                         *)
RecordArtifact(a) ==
  /\ build[a].pc = "record"
  /\ \/ /\ BuildEnds(a, "done")
        /\ work' = [work EXCEPT ![build[a].dir].id = build[a].elf]
     \/ BuildEnds(a, "failed") /\ UNCHANGED work
  /\ UNCHANGED group /\ OthersThanBuild

BuildKilled(a) ==
  /\ build[a].pc \notin {"done", "failed", "dead"}
  /\ kills < MaxKills
  /\ kills' = kills + 1
  /\ BuildEnds(a, "dead")
  /\ UNCHANGED <<file, writer, installer, dest, group, work>>

-----------------------------------------------------------------------------
InstallerStep(i) ==
  \/ ReadLstat(i) \/ ReadOpen(i) \/ ReadRest(i)
  \/ InstallCheck(i) \/ InstallCreate(i) \/ InstallData(i)

BuildStep(a) ==
  \/ BuildStart(a) \/ Spawn(a) \/ Poll(a) \/ StopTerm(a) \/ StopGrace(a) \/ StopWait(a)
  \/ StepEnds(a) \/ ReadOutput(a) \/ PackOutput(a) \/ RecordArtifact(a)

ToolStep(a) == Fork(a) \/ LeaderExits(a) \/ ChildExits(a) \/ ToolWrites(a)

InstallLine ==
  \/ \E p \in InputNames : RewriteBegin(p) \/ Replace(p)
  \/ RewriteEnd
  \/ \E i \in Installers : InstallerStep(i) \/ InstallerKilled(i)

BuildLine == \E a \in Attempts : BuildStep(a) \/ ToolStep(a) \/ BuildKilled(a)

TNext == InstallLine \/ BuildLine

-----------------------------------------------------------------------------
(* Whatever happens to the inputs meanwhile, and however many installations  *)
(* meet: a data file that has been written holds the bytes its installer's   *)
(* manifest digest pins, and if all three are there they are of one          *)
(* installation.  (check-transaction-inputs.py verify(), install())          *)
InstalledIsPinned ==
  /\ \A p \in InputNames : dest[p].data # 0 => dest[p].data = installer[dest[p].by].expect
  /\ \A p, q \in InputNames : dest[p] # Absent /\ dest[q] # Absent => dest[p].by = dest[q].by

(* No process of an earlier step is left when the next one starts, when the  *)
(* output is read, and after a build that ended well.                        *)
(* (build.py stop_owned_group())                                             *)
StepLeavesNobody ==
  \A a \in Attempts :
    build[a].pc \in {"spawn", "read", "pack", "record", "done"} => Alive(a) = {}

(* An identity once recorded is, and stays, the identity of the helper and   *)
(* of the gzip file beside it, although killed builds leave their tools      *)
(* running.  (build.py main())                                               *)
RecordIsTheFile ==
  \A d \in Works : work[d].id # 0 => work[d].id = work[d].out /\ work[d].id = work[d].gz

=============================================================================
