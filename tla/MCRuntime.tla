----------------------------- MODULE MCRuntime -----------------------------
(* Small instances of Runtime: the states an owner moves between. *)
EXTENDS Runtime

CONSTANTS core1, core2, hys

S(active, config, rules, kill) ==
  [active |-> active, config |-> config, rules |-> rules, kill |-> kill]

Off       == S(NoServer, NoConfig, "r1", FALSE)
Block     == S(NoServer, NoConfig, "r1", TRUE)
CoreOpen  == S(core1, "k1", "r1", FALSE)
CoreFirst == S(core1, "k1", "r3", FALSE)
CoreKill  == S(core1, "k1", "r2", TRUE)
CoreOther == S(core2, "k2", "r2", FALSE)
HysKill   == S(hys, "k3", "r1", TRUE)

\* Where the egress has to stay closed: a core profile, or the kill switch.
ClosedStates == {Block, CoreOpen, HysKill}
\* Two profiles of the same engine, and the same profile under other rules.
SwitchStates == {CoreFirst, CoreOther, CoreKill}
\* A profile that is stopped and started again.
CoreStates   == {Off, CoreOpen}

\* The run of both sets has one story per behaviour: one edit of an egress that
\* stays closed while things go wrong, or MaxEdits edits while nothing does.
AllStates == ClosedStates \cup SwitchStates
Undisturbed ==
  /\ budget'.reloads = MaxReloads /\ budget'.crashes = MaxCrashes
  /\ budget'.failures = MaxFailures
  /\ init = "recover" => init' \notin {"stopped", "idle"}
OneStory ==
  \/ {desired, desired'} \subseteq ClosedStates /\ budget'.edits >= MaxEdits - 1
  \/ {desired, desired'} \subseteq SwitchStates /\ Undisturbed
=============================================================================
