------------------------------ MODULE Inbound ------------------------------
(* The server for remote clients: state.json's clients, the phones that were *)
(* given one, and the program that publishes them to the Hysteria server     *)
(* (mobile.uc, foxhole-inbound, foxhole-inbound-loop, foxhole-inbound-revoke,*)
(* init.d/foxhole-inbound, init.d/foxhole-inbound-services).                 *)
(*                                                                           *)
(* One publisher runs at a time (inbound.lock).  It reads the state without  *)
(* a lock, may spend a while on country lists, and compares and publishes    *)
(* under state.lock, where rpcd cannot come in between; it may fail or be    *)
(* killed after any of its writes.                                           *)
EXTENDS Naturals, FiniteSets

CONSTANTS
  Shared,    \* one listener for all clients, or one for each
  MaxIds,    \* clients that are made
  MaxFlips   \* times the tunnel comes or goes

VARIABLES
  base,       \* inbound.json is there
  state,      \* state.json: clients, the phones' devices, resets so far
  phones,     \* mobile.json: pair -> what was made for it
  minted,     \* (history) the ids made so far: of which registration, 0 of none
  connected,  \* the tunnel is up, and how often that changed
  day,        \* the date, as far as it tells a day from the next
  pub,        \* the publisher
  files,      \* /tmp/foxhole/inbound: conf, clients, generation, observations
  inst,       \* clients whose listener procd keeps
  served,     \* clients whom a listener serves that procd keeps
  ending,     \* clients whom one may serve that procd has told to end
  loop,       \* foxhole-inbound-loop runs
  gone        \* history: clients whose deletion was acknowledged, and those of
              \* them for which procd was asked

clientvars == <<base, state, phones, minted, gone>>
servers == <<inst, served, ending>>
pubvars == <<connected, day, pub, files, servers, loop>>

NoPhone == [cred |-> 0, remote |-> FALSE, device |-> 0, client |-> 0, revoked |-> FALSE]
NoSig == [clients |-> {}, via |-> FALSE, day |-> 2]
NoFiles == [users |-> {}, via |-> FALSE, ours |-> FALSE, listed |-> {}, gen |-> NoSig, obs |-> NoSig]
NoState == [resets |-> 0, devices |-> {}, clients |-> {}]
Asleep == [pc |-> "idle", force |-> FALSE, state |-> NoState, sig |-> NoSig]

PublisherInit ==
  /\ connected = [up |-> FALSE, flips |-> 0] /\ day = 0 /\ pub = Asleep
  /\ files = NoFiles /\ inst = {} /\ served = {} /\ ending = {}

-----------------------------------------------------------------------------
(* foxhole-inbound                                                           *)

PubFresh == UNCHANGED <<connected, day, loop>>

X_Signature == [clients |-> state.clients, via |-> connected.up, day |-> 0]
Signature == [clients |-> state.clients, via |-> connected.up, day |-> day]

(* It reads inbound.json, the state and the tunnel.                          *)
PubBegin(force) ==
  /\ pub.pc = "idle" /\ base
  /\ pub' = [pc |-> "read", force |-> force, state |-> state, sig |-> Signature]
  /\ UNCHANGED <<files, servers>> /\ PubFresh

Slept == [Asleep EXCEPT !.sig = [NoSig EXCEPT !.day = pub.sig.day]]
PubEnds == pub' = Slept /\ UNCHANGED <<files, servers>> /\ PubFresh

X_Rebinds == files.gen = pub.sig /\ files.users = pub.sig.clients /\ state = pub.state
(* Nothing to publish: generation, listeners, statistics secrets and users   *)
(* are all those of this very state.                                         *)
Rebinds ==
  /\ files.gen = pub.sig /\ files.obs = pub.sig /\ files.ours
  /\ files.users = pub.sig.clients
  /\ state = pub.state

PubFast == pub.pc = "read" /\ ~pub.force /\ Rebinds /\ PubEnds
PubPrepare ==
  /\ pub.pc = "read" /\ (pub.force \/ ~Rebinds)
  /\ pub' = [pub EXCEPT !.pc = "ready"]
  /\ UNCHANGED <<files, servers>> /\ PubFresh

PubStale == pub.pc = "ready" /\ state # pub.state /\ PubEnds

X_PubCurrent == pub.pc = "ready"
PubCurrent == pub.pc = "ready" /\ state = pub.state

(* What procd stops gets a signal and a second to end; nobody waits.         *)
Stops(clients) == ending' = ending \cup (served \cap clients)

(* After k of: the configurations, the ports and the list of listeners, the  *)
(* restart of the services, generation, observations.                        *)
PubPublish(k) ==
  LET sig == pub.sig IN
  /\ PubCurrent
  /\ files' = [
       users |-> IF k >= 1 THEN sig.clients ELSE files.users,
       via |-> IF k >= 1 THEN sig.via ELSE files.via,
       ours |-> IF k = 0 THEN files.ours ELSE k = 5,
       listed |-> IF k >= 2 THEN sig.clients ELSE files.listed,
       gen |-> IF k >= 4 THEN sig ELSE files.gen,
       obs |-> IF k = 5 THEN sig ELSE files.obs]
  /\ IF k >= 3 THEN inst' = sig.clients /\ served' = sig.clients /\ Stops(served)
     ELSE UNCHANGED servers
  /\ pub' = Slept
  /\ PubFresh

(* procd starts a listener that ended, from the configuration there is now.  *)
Respawn ==
  LET running == IF ~Shared THEN inst \cap files.users ELSE IF inst = {} THEN {} ELSE files.users IN
  /\ served # running /\ served' = running
  /\ UNCHANGED <<connected, day, pub, files, inst, ending, loop>>

(* A listener that was told to end ends, or procd kills it.                  *)
ListenerEnds ==
  /\ \E rest \in SUBSET ending : rest # ending /\ ending' = rest
  /\ UNCHANGED <<connected, day, pub, files, inst, served, loop>>

TunnelFlips ==
  /\ connected.flips < MaxFlips
  /\ connected' = [up |-> ~connected.up, flips |-> connected.flips + 1]
  /\ UNCHANGED <<day, pub, files, servers, loop>>

(* The loop runs every ten seconds: it has read each day's date.             *)
DayPasses ==
  /\ pub.sig.day = day /\ day' = 1 - day
  /\ UNCHANGED <<connected, pub, files, servers, loop>>

StopInbound == loop' = FALSE /\ inst' = {} /\ served' = {} /\ Stops(served)

(* foxhole-inbound-revoke c: procd forgets the listener it keeps for c, and, *)
(* if it is seen to be gone, that is the end of it.  When procd keeps none,  *)
(* nobody looks whether an earlier one still ends.                           *)
Left(c) == IF Shared THEN {} ELSE inst \ {c}
Revoked(c, seen) ==
  IF Left(c) = inst THEN UNCHANGED servers
  ELSE /\ inst' = Left(c) /\ served' = served \cap Left(c)
       /\ IF seen THEN UNCHANGED ending ELSE Stops(served \ Left(c))

-----------------------------------------------------------------------------
(* mobile.uc and delete_client(): what the files become                      *)

Add(set, id) == IF id = 0 THEN set ELSE set \cup {id}
(* apply(): whatever of the phone is missing is added, and nothing twice.    *)
Applied(phone) ==
  [state EXCEPT !.devices = Add(@, phone.device), !.clients = Add(@, phone.client)]
Tombstone(c) ==
  [p \in DOMAIN phones |->
    IF phones[p].client = c THEN [phones[p] EXCEPT !.revoked = TRUE] ELSE phones[p]]

-----------------------------------------------------------------------------
(* A client whose deletion was acknowledged stays deleted: no retry of the   *)
(* phone that it was made for brings it back, and no listener that procd     *)
(* keeps serves it again, however late a publication that began before the   *)
(* deletion ends and however often the deletion was cut and repeated.        *)
(* (delete_client(), foxhole-inbound-revoke, foxhole-inbound, mobile.uc      *)
(* prepare())                                                                *)
DeletedStaysDeleted ==
  /\ gone.acked \cap state.clients = {}
  /\ gone.asked \cap served = {}

(* When the publisher finds nothing to do, what is configured is what it     *)
(* would publish, also after a publication that was cut short in between.    *)
(* (foxhole-inbound rebind_observations())                                   *)
NothingToDoIsTrue ==
  pub.pc = "read" /\ ~pub.force /\ Rebinds =>
    files.users = pub.sig.clients /\ files.via = pub.sig.via /\ files.listed = pub.sig.clients

=============================================================================
