------------------------------ MODULE MCAccess ------------------------------
(* Access with one concern per behaviour: who comes in, the phones' leases,  *)
(* the phones' remote clients, or the server of a router with no phone and a *)
(* PIN that stays; revocation, PIN change and reset meet the first three.    *)
(* Names of leases are as good as one another: 1 is asked for first.         *)
EXTENDS Access

CONSTANT Plans

VARIABLE plan

MCvars == <<vars, plan>>
Timed == plan \in {"keys", "leases"}
Serving == plan \in {"clients", "server"}
MCInit ==
  /\ AInit /\ plan \in Plans
  /\ auth.changed \/ plan = "keys"
  /\ plan = "server" <=> state.clients # {} /\ regs = 0
  /\ plan = "leases" => state.devices # {}
MCNext ==
  /\ UNCHANGED plan
  /\ \/ plan # "server" /\ OwnerCalls
     \/ plan = "keys" /\ (KeyCalls \/ RpcdDies \/ Tick \/ Reboot)
     \/ plan = "leases" /\ (LeaseCalls \/ Tick)
     \/ plan = "clients" /\ (ClientCalls \/ RpcdDies)
     \/ plan = "server" /\ (ClientCalls \/ Reboot \/ Unlock(1))
  /\ Serving => auth'.pin = auth.pin
  /\ plan = "leases" => auth'.changed /\ state'.resets = 0
       /\ (asks.sent = 0 => \A a \in asks'.open : a.claim = 1)
  /\ plan = "clients" => UNCHANGED <<connected, day>>

(* AFairness, of what a plan has.                                            *)
MCFairness ==
  /\ WF_vars(Timed /\ Tick)
  /\ WF_vars(Serving /\ Publisher) /\ WF_vars(plan = "server" /\ Midnight)
  /\ WF_vars(Serving /\ ForceStarts) /\ WF_vars(Serving /\ ForceEnds)
  /\ WF_vars(Unlock(1)) /\ \A p \in Pairs : SF_vars(PairRevoke(p, 4))
MCSpec == MCInit /\ [][MCNext]_MCvars /\ MCFairness

(* ServedAgain, in the plan that has days: the server serves again what the  *)
(* state says, also after a deletion that was cut had stopped it.            *)
(* (foxhole-inbound-loop, foxhole-inbound, foxhole-inbound-revoke)           *)
ServerComesBack == plan # "server" \/ ServedAgain

=============================================================================
