------------------------------- MODULE Access -------------------------------
(* Who may use the panel: the PIN, sessions, paired phones, their leases and *)
(* their remote clients, as the RPCs of foxhole.uc keep them.                *)
(*                                                                           *)
(* rpcd serves one call at a time and holds state.lock while it writes.  A   *)
(* call that writes several files may be cut between any two of them: a      *)
(* write fails and the caller gets an error, or rpcd dies, right then or     *)
(* later, and forgets what it had in memory.  A call is one action; its k    *)
(* says how many of its writes were done, all of them if it succeeds.        *)
(* Refusals that change nothing are left out.                                *)
EXTENDS Sequences, Pin, Handoff, Inbound

CONSTANTS
  MaxPin,     \* PINs that are set one after another
  MaxRegs,    \* registrations of pairs
  MaxCuts,    \* calls and publications that are cut
  MaxReboots

ASSUME AccessAssumption ==
  {MaxPin, MaxRegs, MaxCuts, MaxReboots, MaxIds, MaxFlips} \subseteq Nat /\ Shared \in BOOLEAN

VARIABLES
  auth,      \* auth.json: which PIN, whether the owner has set it, whether
             \* the factory PIN still opens, whether a reset is pending
  sessions,  \* sessions somebody holds a token of, with (history) their PIN
  rpcd,      \* idle, or waiting for a forced publication
  regs, cuts, reboots

keyvars == <<auth, sessions, pairs, regs>>
netvars == <<lan, asks>>
vars == <<pinvars, keyvars, leasevars, netvars, clientvars, pubvars, rpcd, cuts, reboots>>

Session(kind, p, c) == [kind |-> kind, pair |-> p, cred |-> c, pin |-> auth.pin]
NoPairId == "no pair"
Owner(s) == s.kind = "owner"
OwnSession == \E s \in sessions : Owner(s)
PhoneSession(p) == \E s \in sessions : s.kind = "phone" /\ s.pair = p /\ Current(p, s.cred)

(* A call of n writes ends after k of them; only a whole one is answered.    *)
Cut(k, n) ==
  /\ rpcd = "idle" /\ k \in 0..n
  /\ k < n => cuts < MaxCuts
  /\ cuts' = IF k < n THEN cuts + 1 ELSE cuts
  /\ UNCHANGED <<rpcd, reboots>>
Sessions(k, n, after) == sessions' = IF k = n THEN after ELSE sessions

-----------------------------------------------------------------------------
(* The PIN                                                                   *)

(* unlock() with the right PIN: the policy, then the factory PIN is used up. *)
Unlock(k) ==
  LET n == IF auth.changed THEN 1 ELSE 2 IN
  /\ Cut(k, n) /\ ~Cooling /\ (auth.changed \/ auth.factory)
  /\ IF k >= 1 THEN ClearPin ELSE UNCHANGED pinvars
  /\ auth' = IF k = 2 THEN [auth EXCEPT !.factory = FALSE] ELSE auth
  /\ Sessions(k, n, sessions \cup
       {Session(IF auth.changed THEN "owner" ELSE "setup", NoPairId, 0)})
  /\ UNCHANGED <<pairs, regs, leasevars, netvars, clientvars, pubvars>>

Guess(k) ==
  /\ Cut(k, 1) /\ ~Cooling
  /\ IF k = 1 THEN WrongPin ELSE UNCHANGED pinvars
  /\ Sessions(k, 1, sessions)
  /\ UNCHANGED <<auth, pairs, regs, leasevars, netvars, clientvars, pubvars>>

(* lock(), the end of a token's time, new_token() that sweeps.               *)
SessionEnds(s) ==
  /\ rpcd = "idle" /\ s \in sessions /\ sessions' = sessions \ {s}
  /\ UNCHANGED <<pinvars, auth, pairs, regs, leasevars, netvars, clientvars, pubvars,
                 rpcd, cuts, reboots>>

FactoryPinLapses ==
  /\ auth.factory /\ auth' = [auth EXCEPT !.factory = FALSE]
  /\ UNCHANGED <<pinvars, sessions, pairs, regs, leasevars, netvars, clientvars, pubvars,
                 rpcd, cuts, reboots>>

(* foxhole-bootstrap-enroll makes a factory PIN until the owner has set one; *)
(* it restarts rpcd then, which may fail.                                    *)
Enroll(k) ==
  /\ Cut(k, 2) /\ ~auth.changed /\ \A p \in Pairs : pairs[p].cred = 0
  /\ IF k >= 1 THEN ClearPin ELSE UNCHANGED pinvars
  /\ auth' = IF k = 2 THEN [auth EXCEPT !.factory = TRUE, !.pending = FALSE] ELSE auth
  /\ Sessions(k, 2, sessions)
  /\ UNCHANGED <<pairs, regs, leasevars, netvars, clientvars, pubvars>>

NewAuth == [pin |-> auth.pin + 1, changed |-> TRUE, factory |-> FALSE, pending |-> FALSE]
NoPairs == [p \in Pairs |-> NoPair]

(* revoke_handoff(): three writes, of which k are done, if there is a        *)
(* journal.                                                                  *)
RevokeHandoff(ids, k) ==
  IF journal.written /\ k > 0
  THEN Applicable /\ Apply(Without(ids), IF k > 3 THEN 3 ELSE k) /\ cached' = Dropped(k)
  ELSE UNCHANGED policyvars

X_StorePin(k) ==
  /\ ClearPin
  /\ IF k = 0 THEN UNCHANGED policyvars ELSE RevokeHandoff(Pairs, k - 1)
  /\ auth' = IF k >= 5 THEN NewAuth ELSE auth
  /\ pairs' = IF k >= 6 THEN NoPairs ELSE pairs
(* store_pin(): the policy, the leases, the pairs, and the PIN last.         *)
StorePin(k) ==
  /\ IF k = 0 THEN UNCHANGED pinvars ELSE ClearPin
  /\ IF k = 0 THEN UNCHANGED policyvars ELSE RevokeHandoff(Pairs, k - 1)
  /\ pairs' = IF k >= 5 THEN NoPairs ELSE pairs
  /\ auth' = IF k = 6 THEN NewAuth ELSE auth

(* change_pin(), only of the factory PIN, and admin_pin(), from LuCI.        *)
SetPin(k, setup) ==
  /\ Cut(k, 6) /\ auth.pin < MaxPin
  /\ setup => /\ ~auth.changed /\ ~auth.pending
              /\ \E s \in sessions : s.kind = "setup"
  /\ StorePin(k)
  /\ Sessions(k, 6, IF setup THEN {[Session("owner", NoPairId, 0) EXCEPT !.pin = @ + 1]} ELSE {})
  /\ UNCHANGED <<regs, over, netvars, clientvars, pubvars>>

(* Without a LAN, or with a table it does not recognise, the policy is       *)
(* cleared and the PIN stays.                                                *)
SetPinRefused ==
  /\ Cut(0, 0) /\ journal.written
  /\ ClearPin
  /\ UNCHANGED <<keyvars, leasevars, netvars, clientvars, pubvars>>

-----------------------------------------------------------------------------
(* Pairs                                                                     *)

PairCreate(p, c, k) ==
  /\ Cut(k, 1) /\ OwnSession /\ auth.changed
  /\ pairs[p].cred = 0 /\ regs < MaxRegs
  /\ IF k = 1 THEN /\ pairs' = [pairs EXCEPT ![p] = [cred |-> c, pin |-> auth.pin, reg |-> regs + 1]]
                   /\ regs' = regs + 1
     ELSE UNCHANGED <<pairs, regs>>
  /\ Sessions(k, 1, sessions)
  /\ UNCHANGED <<pinvars, auth, leasevars, netvars, clientvars, pubvars>>

PairUnlock(p) ==
  /\ Cut(0, 0) /\ auth.changed /\ pairs[p].cred # 0
  /\ sessions' = sessions \cup {Session("phone", p, pairs[p].cred)}
  /\ UNCHANGED <<pinvars, auth, pairs, regs, leasevars, netvars, clientvars, pubvars>>

(* pair_revoke(): the pair's lease, the pair, its sessions.                  *)
PairRevoke(p, k) ==
  /\ Cut(k, 4) /\ (OwnSession \/ PhoneSession(p)) /\ pairs[p].cred # 0
  /\ RevokeHandoff({p}, k)
  /\ pairs' = IF k = 4 THEN [pairs EXCEPT ![p] = NoPair] ELSE pairs
  /\ Sessions(k, 4, {s \in sessions : s.pair # p})
  /\ UNCHANGED <<pinvars, auth, regs, over, netvars, clientvars, pubvars>>

X_ResetAuth(k) == IF k >= 7 THEN [auth EXCEPT !.changed = FALSE, !.pending = TRUE] ELSE auth
ResetAuth(k) == IF k = 10 THEN [auth EXCEPT !.changed = FALSE, !.pending = TRUE] ELSE auth

(* setup_reset(): leases, services, inbound.json, the PIN policy, then the   *)
(* sessions in memory, state, pairs, phones, and the PIN record last.        *)
SetupReset(k) ==
  /\ Cut(k, 10) /\ OwnSession /\ auth.changed
  /\ RevokeHandoff(Pairs, k)
  /\ IF k >= 4 THEN StopInbound ELSE UNCHANGED <<loop, servers>>
  /\ base' = (base /\ k < 5)
  /\ IF k >= 6 THEN ClearPin ELSE UNCHANGED pinvars
  /\ state' = IF k >= 7 THEN [NoState EXCEPT !.resets = state.resets + 1] ELSE state
  /\ pairs' = IF k >= 8 THEN NoPairs ELSE pairs
  /\ phones' = IF k >= 9 THEN [p \in Pairs |-> NoPhone] ELSE phones
  /\ auth' = ResetAuth(k)
  /\ IF k >= 6 /\ k < 10 THEN sessions' = {} ELSE Sessions(k, 10, {Session("reset", NoPairId, 0)})
  /\ UNCHANGED <<regs, over, netvars, minted, gone, connected, day, pub, files>>

-----------------------------------------------------------------------------
(* Leases and remote clients of phones                                       *)

(* registered_phone()                                                        *)
Registered(p, c) == phones[p].cred = c /\ phones[p].device \in state.devices \ {0}

(* phone_status(), by a phone.                                               *)
PhoneStatus(p) ==
  /\ rpcd = "idle" /\ PhoneSession(p) /\ cached' = Remembered(p)
  /\ UNCHANGED <<pinvars, keyvars, journal, table, receipt, stray, over, netvars, clientvars,
                 pubvars, rpcd, cuts, reboots>>

(* phone_handoff(): a request that is still fresh.  It asks for the status   *)
(* before, and for that of a new lease after.                                *)
PhoneHandoff(a, k) ==
  /\ Cut(k, 3) /\ a \in asks.open /\ a.age <= Fresh
  /\ PhoneSession(a.pair) /\ Current(a.pair, a.cred) /\ Registered(a.pair, a.cred)
  /\ ~Conflict(a) /\ Applicable
  /\ Apply(Requested(a), k)
  /\ cached' = IF k < 2 THEN Remembered(a.pair)
               ELSE IF k = 3 /\ a.mode = "phone_vpn" THEN [held |-> TRUE, table |-> table']
               ELSE NoCache
  /\ over' = IF k = 3 /\ a.mode = "router_vpn"
             THEN over \cup {Claim(a.pair, c) : c \in Tombstones(Found(a.pair))} ELSE over
  /\ Sessions(k, 3, sessions)
  /\ UNCHANGED <<pinvars, auth, pairs, regs, netvars, clientvars, pubvars>>

(* mobile.prune() and mobile.prepare(), with new ids for a new phone.        *)
Kept == [p \in Pairs |-> IF Current(p, phones[p].cred) THEN phones[p] ELSE NoPhone]
Prepared(p, remote) ==
  IF Kept[p] # NoPhone THEN Kept[p]
  ELSE [cred |-> pairs[p].cred, remote |-> remote, device |-> Len(minted) + 1,
        client |-> IF remote THEN Len(minted) + 1 ELSE 0, revoked |-> FALSE]
X_MayProvision(p, remote) ==
  IF Kept[p] = NoPhone THEN Len(minted) < MaxIds ELSE Kept[p].remote = remote
MayProvision(p, remote) ==
  IF Kept[p] = NoPhone THEN Len(minted) < MaxIds
  ELSE Kept[p].remote = remote /\ ~(remote /\ Kept[p].revoked)

X_ProvisionWrites(p, phone, k) ==
  /\ state' = IF k >= 2 THEN Applied(phone) ELSE state
  /\ phones' = IF k = 3 THEN [Kept EXCEPT ![p] = phone] ELSE phones
ProvisionWrites(p, phone, k) ==
  /\ phones' = IF k >= 2 THEN [Kept EXCEPT ![p] = phone] ELSE phones
  /\ state' = IF k = 3 THEN Applied(phone) ELSE state

(* phone_provision(): inbound.json, the phone's record, then the state.      *)
PhoneProvision(p, remote, k) ==
  LET phone == Prepared(p, remote) IN
  /\ rpcd = "idle" /\ k \in 0..3 /\ (k < 3 => cuts < MaxCuts)
  /\ cuts' = IF k < 3 THEN cuts + 1 ELSE cuts
  /\ PhoneSession(p) /\ MayProvision(p, remote)
  /\ base' = (base \/ (remote /\ k >= 1))
  /\ minted' = IF Kept[p] = NoPhone /\ k >= 2 THEN Append(minted, pairs[p].reg) ELSE minted
  /\ ProvisionWrites(p, phone, k)
  /\ rpcd' = IF k = 3 /\ remote THEN "forcing" ELSE "idle"
  /\ Sessions(k, 3, sessions)
  /\ UNCHANGED <<pinvars, auth, pairs, regs, leasevars, netvars, gone, pubvars, reboots>>

(* save_client(): the panel makes one.                                       *)
SaveClient(k) ==
  /\ Cut(k, 1) /\ OwnSession /\ auth.changed /\ base /\ Len(minted) < MaxIds
  /\ minted' = IF k = 1 THEN Append(minted, 0) ELSE minted
  /\ state' = IF k = 1 THEN [state EXCEPT !.clients = Add(@, Len(minted) + 1)] ELSE state
  /\ Sessions(k, 1, sessions)
  /\ UNCHANGED <<pinvars, auth, pairs, regs, leasevars, netvars, base, phones, gone, pubvars>>

(* delete_client(): the listener is forgotten, it is seen to be gone, the    *)
(* phone is marked, the client is dropped.  The call is refused if the       *)
(* listener lives on.  Without inbound.json nothing is stopped.              *)
DeleteClient(c, k) ==
  /\ Cut(k, 4) /\ auth.changed /\ (OwnSession \/ \E p \in Pairs : PhoneSession(p))
  /\ c \in state.clients
  /\ IF base /\ k >= 1 THEN Revoked(c, k >= 2) ELSE UNCHANGED servers
  /\ phones' = IF k >= 3 THEN Tombstone(c) ELSE phones
  /\ state' = IF k = 4 THEN [state EXCEPT !.clients = @ \ {c}] ELSE state
  /\ gone' = IF k < 4 THEN gone
             ELSE [acked |-> gone.acked \cup {c},
                   asked |-> IF base THEN gone.asked \cup {c} ELSE gone.asked]
  /\ Sessions(k, 4, sessions)
  /\ UNCHANGED <<pinvars, auth, pairs, regs, leasevars, netvars, base, minted,
                 connected, day, pub, files, loop>>

-----------------------------------------------------------------------------
(* The rest of the router                                                    *)

RouterOnly == UNCHANGED <<pinvars, keyvars, leasevars, netvars, clientvars>>

(* phone_provision() waits for the publication it forces, and not for ever.  *)
ForceStarts ==
  /\ rpcd = "forcing"
  /\ IF base THEN PubBegin(TRUE) /\ rpcd' = "publishing" ELSE rpcd' = "idle" /\ UNCHANGED pubvars
  /\ RouterOnly /\ UNCHANGED <<cuts, reboots>>
ForceEnds ==
  /\ rpcd = "forcing" \/ (rpcd = "publishing" /\ ~pub.force)
  /\ rpcd' = "idle"
  /\ RouterOnly /\ UNCHANGED <<pubvars, cuts, reboots>>

PublisherStep == (loop /\ PubBegin(FALSE)) \/ PubFast \/ PubPrepare \/ PubStale \/ PubPublish(5)
Publisher == PublisherStep /\ RouterOnly /\ UNCHANGED <<rpcd, cuts, reboots>>
PublisherDies ==
  /\ cuts < MaxCuts /\ cuts' = cuts + 1
  /\ (pub.pc # "idle" /\ PubEnds) \/ \E k \in 1..4 : PubPublish(k)
  /\ RouterOnly /\ UNCHANGED <<rpcd, reboots>>
ServerTurn == (Respawn \/ ListenerEnds \/ TunnelFlips) /\ RouterOnly /\ UNCHANGED <<rpcd, cuts, reboots>>
Midnight == DayPasses /\ RouterOnly /\ UNCHANGED <<rpcd, cuts, reboots>>

Tick ==
  /\ PinTick /\ HandoffTick
  /\ UNCHANGED <<auth, sessions, regs, clientvars, pubvars, rpcd, cuts, reboots>>

Asking(a) == Ask(a) /\ UNCHANGED <<pinvars, auth, sessions, regs, clientvars, pubvars, rpcd, cuts, reboots>>
Forgetting ==
  CacheLapses /\ UNCHANGED <<pinvars, auth, sessions, regs, clientvars, pubvars, rpcd, cuts, reboots>>
LanTurn ==
  LanChanges /\ UNCHANGED <<pinvars, auth, sessions, regs, clientvars, pubvars, rpcd, cuts, reboots>>

RpcdDies ==
  /\ rpcd' = "idle" /\ sessions' = {} /\ cached' = NoCache
  /\ UNCHANGED <<pinvars, auth, pairs, regs, journal, table, receipt, stray, over, netvars,
                 clientvars, pubvars, cuts, reboots>>

(* What is in /tmp, in the kernel and in memory is lost.                     *)
Reboot ==
  /\ reboots < MaxReboots /\ reboots' = reboots + 1 /\ rpcd' = "idle" /\ sessions' = {}
  /\ ClearPin
  /\ journal' = NoJournal /\ table' = NoTable /\ receipt' = NoReceipt
  /\ cached' = NoCache /\ stray' = 0
  /\ asks' = [asks EXCEPT !.open = {}] /\ over' = {}
  /\ pub' = Asleep /\ files' = NoFiles /\ inst' = {} /\ served' = {} /\ ending' = {}
  /\ loop' = base
  /\ UNCHANGED <<auth, pairs, regs, lan, clientvars, connected, day, cuts>>

-----------------------------------------------------------------------------
(* A router as it comes, or one that is in use: a PIN, and a remote client   *)
(* that the panel made, or a paired phone with one or not yet.               *)
FactoryInit ==
  /\ auth = [pin |-> 0, changed |-> FALSE, factory |-> TRUE, pending |-> FALSE]
  /\ pairs = NoPairs /\ regs = 0 /\ base = FALSE /\ minted = <<>>
  /\ phones = [p \in Pairs |-> NoPhone] /\ state = NoState
PanelInit ==
  /\ pairs = NoPairs /\ regs = 0 /\ minted = <<0>>
  /\ phones = [p \in Pairs |-> NoPhone] /\ state = [NoState EXCEPT !.clients = {1}]
PhoneInit ==
  /\ regs = 1
  /\ \E p \in Pairs, c \in Creds, ids \in SUBSET {1} :
       /\ pairs = [NoPairs EXCEPT ![p] = [cred |-> c, pin |-> 1, reg |-> 1]]
       /\ phones = [q \in Pairs |-> IF q # p \/ ids = {} THEN NoPhone ELSE
            [cred |-> c, remote |-> TRUE, device |-> 1, client |-> 1, revoked |-> FALSE]]
       /\ minted = IF ids = {} THEN <<>> ELSE <<1>>
       /\ state = [NoState EXCEPT !.devices = ids, !.clients = ids]
InUseInit ==
  /\ auth = [pin |-> 1, changed |-> TRUE, factory |-> FALSE, pending |-> FALSE]
  /\ base = TRUE /\ (PanelInit \/ PhoneInit)

AInit ==
  /\ FactoryInit \/ InUseInit
  /\ PinInit /\ HandoffInit /\ PublisherInit /\ loop = base
  /\ gone = [acked |-> {}, asked |-> {}]
  /\ sessions = {} /\ rpcd = "idle" /\ cuts = 0 /\ reboots = 0

Requests ==
  [pair : Pairs, cred : Creds, claim : 1..MaxClaim, age : {0}, mode : {"phone_vpn"}, length : Lengths]
  \cup
  [pair : Pairs, cred : Creds, claim : 1..MaxClaim, age : {0}, mode : {"router_vpn"}, length : {0}]

OwnerCalls ==
  \/ \E k \in 0..2 : Unlock(k)
  \/ \E k \in 0..6, setup \in BOOLEAN : SetPin(k, setup)
  \/ SetPinRefused
  \/ \E k \in 0..10 : SetupReset(k)
  \/ \E p \in Pairs, c \in Creds, k \in 0..1 : PairCreate(p, c, k)
  \/ \E p \in Pairs : PairUnlock(p)
  \/ \E p \in Pairs, k \in 0..4 : PairRevoke(p, k)
KeyCalls ==
  \/ \E k \in 0..1 : Guess(k)
  \/ \E s \in sessions : SessionEnds(s)
  \/ \E k \in 0..2 : Enroll(k)
  \/ FactoryPinLapses
LeaseCalls ==
  \/ \E a \in Requests : Asking(a)
  \/ \E a \in asks.open, k \in 0..3 : PhoneHandoff(a, k)
  \/ \E p \in Pairs : PhoneStatus(p)
  \/ Forgetting
  \/ LanTurn
ClientCalls ==
  \/ \E p \in Pairs, remote \in BOOLEAN, k \in 0..3 : PhoneProvision(p, remote, k)
  \/ \E k \in 0..1 : SaveClient(k)
  \/ \E c \in state.clients, k \in 0..4 : DeleteClient(c, k)
  \/ ForceStarts \/ ForceEnds \/ Publisher \/ PublisherDies \/ ServerTurn \/ Midnight

ANext == OwnerCalls \/ KeyCalls \/ LeaseCalls \/ ClientCalls \/ Tick \/ RpcdDies \/ Reboot

(* Time passes, the publisher's loop goes on and rpcd ends its waits; and an *)
(* owner who wants a pair revoked logs in and asks until it is done.         *)
AFairness ==
  /\ WF_vars(Tick) /\ WF_vars(Publisher) /\ WF_vars(Midnight)
  /\ WF_vars(ForceStarts) /\ WF_vars(ForceEnds)
  /\ WF_vars(Unlock(1)) /\ \A p \in Pairs : SF_vars(PairRevoke(p, 4))

ASpec == AInit /\ [][ANext]_vars /\ AFairness

-----------------------------------------------------------------------------
(* Pairs and sessions never outlive the PIN under which they were made,      *)
(* whichever write of a PIN change or a reset failed and whenever rpcd died. *)
(* (store_pin(), admin_pin(), setup_reset())                                 *)
NothingOutlivesThePin ==
  /\ \A p \in Pairs : pairs[p].cred # 0 => pairs[p].pin = auth.pin
  /\ \A s \in sessions : s.pin = auth.pin

(* A router whose PIN has to be set anew has nothing of its last owner: no   *)
(* pair, phone or client, no inbound.json, no lease, no listener but one     *)
(* that was told to end, and no session that may use the panel.              *)
(* (setup_reset())                                                           *)
SetupIsEmpty ==
  ~auth.changed =>
    /\ \A p \in Pairs : pairs[p] = NoPair /\ phones[p] = NoPhone /\ journal.lease[p] = NoLease
    /\ state.clients = {} /\ state.devices = {} /\ ~base /\ served = {}
    /\ \A s \in sessions : s.kind \in {"setup", "reset"}

(* However often a phone provisions again after a cut, its registration has  *)
(* one client and one device.  (phone_provision(), mobile.uc)                *)
OneClientPerPhone ==
  \A ids \in {state.clients, state.devices} : \A i, j \in ids :
    minted[i] = minted[j] /\ minted[i] # 0 => i = j

(* An owner who goes on asking gets a pair revoked, whatever a torn change   *)
(* left in the kernel, except when the table is of another LAN device than   *)
(* its receipt.  (pair_revoke(), revoke_handoff())                           *)
TableLost == journal.written /\ table.present /\ receipt.device # table.device
RevocationGetsThrough ==
  \A p \in Pairs : []<>(pairs[p].cred = 0 \/ TableLost)

(* What the server serves is again what the state says, also after a refused *)
(* deletion had stopped it, as long as the publishing loop runs.             *)
(* (foxhole-inbound-loop, foxhole-inbound, foxhole-inbound-revoke)           *)
ServedAgain == []<>(served = state.clients \/ ~base \/ ~loop)

=============================================================================
