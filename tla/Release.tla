------------------------------ MODULE Release ------------------------------
(* The release tools together.  The lines work on different files: the       *)
(* helper's installation, its build, signing and staging, the five-role      *)
(* bundle, the compact bundle, the transport.  How the steps of different    *)
(* lines are ordered makes no difference, so a behaviour is one of one line. *)
EXTENDS Transaction, Signing, Legacy, Compact, Transport

(* The lines a behaviour may be of.                                          *)
CONSTANT Lines

ASSUME LinesAssumption ==
  Lines \subseteq {"install", "build", "sign", "five roles", "compact", "transport"}

VARIABLE line

rvars == <<line, tvars, svars, lvars, cvars, wvars>>

(* What an operator chooses is fixed where the line does not ask for it.     *)
RInit ==
  /\ line \in Lines
  /\ TInit /\ SInit /\ LInit /\ CInit /\ WInit
  /\ line # "install" => \A i \in Installers : installer[i].expect = 1
  /\ line # "five roles" => ~told
  /\ line # "compact" => wanted = [dev |-> FALSE, commit |-> 1]

RNext ==
  /\ UNCHANGED line
  /\ \/ line = "install" /\ InstallLine /\ UNCHANGED <<svars, lvars, cvars, wvars>>
     \/ line = "build" /\ BuildLine /\ UNCHANGED <<svars, lvars, cvars, wvars>>
     \/ line = "sign" /\ SNext /\ UNCHANGED <<tvars, lvars, cvars, wvars>>
     \/ line = "five roles" /\ LNext /\ UNCHANGED <<tvars, svars, cvars, wvars>>
     \/ line = "compact" /\ CNext /\ UNCHANGED <<tvars, svars, lvars, wvars>>
     \/ line = "transport" /\ WNext /\ UNCHANGED <<tvars, svars, lvars, cvars>>

(* build.py goes on as long as it is not killed: its loops have deadlines.   *)
RBuildStep(a) == BuildStep(a) /\ UNCHANGED <<line, svars, lvars, cvars, wvars>>
RFairness == \A a \in Attempts : WF_rvars(line = "build" /\ RBuildStep(a))

RSpec == RInit /\ [][RNext]_rvars /\ RFairness

-----------------------------------------------------------------------------
(* prepare-install-bundle.py implements the abstract publication: its output *)
(* appears by one rename, with every part of one native build, and no later  *)
(* run touches it.  (assemble())                                             *)
FiveRoles == INSTANCE Publication WITH
  offer <- published, Absence <- Nothing, Whole <- LAMBDA d : WholeBundle(d)
FiveRolesArePublished == FiveRoles!PSpec

(* compact-install-bundle.py implements it as well: its output appears by    *)
(* one rename and is of one source.  (main())                                *)
CompactRoles == INSTANCE Publication WITH
  offer <- bundle, Absence <- CNone, Whole <- LAMBDA d : OneSource(d)
CompactIsPublished == CompactRoles!PSpec

(* A build step that hangs, refuses to stop or floods its log never keeps    *)
(* build.py from ending.  (run_step(), stop_owned_group())                   *)
BuildHasAnEnd ==
  line = "build" => \A a \in Attempts : <>(build[a].pc \in {"done", "failed", "dead"})

=============================================================================
