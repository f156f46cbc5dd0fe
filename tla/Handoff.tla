------------------------------ MODULE Handoff ------------------------------
(* Leases that let a paired phone reach its own VPN provider past the router *)
(* (handoff.uc, handoff-adapter.uc, handoff_apply() of the RPCs).            *)
(*                                                                           *)
(* A change of leases replaces the nftables table, then writes a receipt of  *)
(* it and then the journal, all in /tmp: a failing write, a query that times *)
(* out or the death of rpcd may come between any two.  The elements of the   *)
(* table run out in the kernel.  A phone's requests reach rpcd late, in any  *)
(* order, more than once or never.  Time is counted in ticks.                *)
EXTENDS Naturals, FiniteSets

CONSTANTS
  Pairs,      \* ids of paired devices
  Creds,      \* their credentials, numbered from 1
  MaxClaim,   \* names 1, 2, ... of leases, each for an address of its own
  FirstLan,   \* the LAN's network device,
  OtherLan,   \* and the one it may have instead, from some moment on
  MaxLease,   \* ticks of the longest lease (60 s)
  Lengths,    \* lengths the phones ask for
  Fresh,      \* ticks for which a request is accepted (5 s)
  MaxAsks     \* requests in a behaviour

ASSUME HandoffAssumption ==
  /\ Creds \subseteq Nat \ {0} /\ MaxLease \in Nat /\ Fresh \in Nat /\ Fresh < MaxLease
  /\ Lengths \subseteq 1..MaxLease /\ MaxAsks \in Nat /\ MaxClaim \in Nat
  /\ FirstLan # OtherLan

VARIABLES
  pairs,    \* pairing.json: id -> credential, and (history) the PIN and the
            \* number of the registration it is of
  journal,  \* phone-handoff.json: leases and retired claims, once written
  table,    \* nftables: present, its LAN device, and per pair the element
  receipt,  \* handoff-policy.json: the table's device, and whether it is of a
            \* revision that is not in the journal yet
  cached,   \* rpcd's memory: the table as a status of before saw it
  lan,      \* the LAN device
  asks,     \* the phones' requests under way, and how many were sent
  over,     \* history: a phone's claims whose release was acknowledged and
            \* that it has not asked for since
  stray     \* history: ticks for which a torn change may still show

policyvars == <<journal, table, receipt, cached, stray>>
leasevars == <<policyvars, over>>

NoPair == [cred |-> 0, pin |-> 0, reg |-> 0]
NoClaim == 0
NoDevice == "no device"
NoLease == [cred |-> 0, claim |-> NoClaim, left |-> 0, prior |-> {}]
NoElement == [claim |-> NoClaim, left |-> 0]
NoJournal == [written |-> FALSE, lease |-> [p \in Pairs |-> NoLease], retired |-> {}]
NoTable == [present |-> FALSE, device |-> NoDevice, elem |-> [p \in Pairs |-> NoElement]]
NoReceipt == [device |-> NoDevice, ahead |-> FALSE]
NoCache == [held |-> FALSE, table |-> NoTable]

HandoffInit ==
  /\ journal = NoJournal /\ table = NoTable /\ receipt = NoReceipt /\ cached = NoCache
  /\ lan = FirstLan /\ asks = [sent |-> 0, open |-> {}]
  /\ over = {} /\ stray = 0

-----------------------------------------------------------------------------
(* handoff.uc                                                                *)

Current(p, c) == c # 0 /\ pairs[p].cred = c
Active(p, l) == l.left > 0 /\ Current(p, l.cred)
Found(p) == IF Active(p, journal.lease[p]) THEN journal.lease[p] ELSE NoLease
Retired == {r \in journal.retired : r.left > 0 /\ Current(r.pair, r.cred)}

(* A request conflicts with a claim that was replaced or released.           *)
Conflict(a) ==
  LET found == Found(a.pair) IN
  \/ a.claim \in found.prior
  \/ a.mode = "phone_vpn" /\ \E r \in Retired : r.pair = a.pair /\ r.claim = a.claim
  \/ a.mode = "router_vpn" /\ found.claim \notin {NoClaim, a.claim}

(* A claim of the phone that is registered now.                              *)
Claim(p, c) == <<p, pairs[p].reg, c>>
Tombstones(found) == IF found = NoLease THEN {} ELSE found.prior \cup {found.claim}
X_Retire(p) ==
  LET found == Found(p) IN
  Retired \cup {[pair |-> p, cred |-> found.cred, claim |-> c, left |-> MaxLease] :
                  c \in Tombstones(found) \cap {found.claim}}
Retire(p) ==
  LET found == Found(p) IN
  Retired \cup {[pair |-> p, cred |-> found.cred, claim |-> c, left |-> MaxLease] :
                  c \in Tombstones(found)}

Granted(a) ==
  LET found == Found(a.pair) IN
  [cred |-> a.cred, claim |-> a.claim, left |-> a.length,
   prior |-> found.prior \cup ({found.claim} \ {NoClaim, a.claim})]

Requested(a) ==
  [written |-> TRUE,
   lease |-> [p \in Pairs |->
     IF p # a.pair THEN Found(p) ELSE IF a.mode = "router_vpn" THEN NoLease ELSE Granted(a)],
   retired |-> IF a.mode = "router_vpn" THEN Retire(a.pair) ELSE Retired]

X_Without(ids) == journal
(* revoke_handoff() of one pair, or of all of them.                          *)
Without(ids) ==
  [journal EXCEPT !.lease = [p \in Pairs |-> IF p \in ids THEN NoLease ELSE @[p]]]

-----------------------------------------------------------------------------
(* handoff-adapter.uc                                                        *)

TableOf(next) ==
  [present |-> TRUE, device |-> lan,
   elem |-> [p \in Pairs |->
     IF Active(p, next.lease[p])
     THEN [claim |-> next.lease[p].claim, left |-> next.lease[p].left] ELSE NoElement]]

(* Every element is one the journal allows.                                  *)
Known(seen) ==
  \A p \in Pairs : seen.elem[p].left > 0 =>
    Current(p, journal.lease[p].cred) /\ journal.lease[p].claim = seen.elem[p].claim

X_Applicable ==
  table.present => Known(table) /\ receipt.device = table.device /\ ~receipt.ahead
(* apply() does not touch a table that it does not recognise.                *)
Applicable == table.present => Known(table) /\ receipt.device = table.device

(* What is left of handoff_apply(next) after k of its three writes.  The     *)
(* cache is dropped with the second.                                         *)
Apply(next, k) ==
  /\ table' = IF k >= 1 THEN TableOf(next) ELSE table
  /\ receipt' = IF k >= 2 THEN [device |-> lan, ahead |-> k = 2] ELSE receipt
  /\ journal' = IF k >= 3 THEN next ELSE journal
  /\ stray' = IF k = 0 THEN stray ELSE IF k = 3 THEN 0 ELSE MaxLease
Dropped(k) == IF k >= 2 THEN NoCache ELSE cached

(* observe() looks at the table, or again at what it saw within the last     *)
(* 250 ms: while the cache is held the journal is of the same revision.      *)
Seen == IF cached.held THEN cached.table ELSE table

X_Observed(p) ==
  IF ~Seen.present THEN "none"
  ELSE IF receipt.device # Seen.device \/ receipt.ahead THEN "unknown"
  ELSE IF ~Active(p, journal.lease[p])
       THEN IF journal.lease[p] # NoLease /\ Seen.elem[p].left > 0 THEN "unknown" ELSE "none"
  ELSE IF Seen.elem[p].left > 0 /\ Seen.elem[p].claim = journal.lease[p].claim
       THEN "active" ELSE "none"
(* What phone.status says of a phone's lease.                                *)
Observed(p) ==
  IF ~Seen.present THEN "none"
  ELSE IF receipt.device # Seen.device \/ receipt.ahead \/ ~Known(Seen) THEN "unknown"
  ELSE IF ~Active(p, journal.lease[p])
       THEN IF journal.lease[p] # NoLease /\ Seen.elem[p].left > 0 THEN "unknown" ELSE "none"
  ELSE IF Seen.elem[p].left > 0 /\ Seen.elem[p].claim = journal.lease[p].claim
       THEN "active" ELSE "none"

(* A status that says `active' keeps what it saw, for another 250 ms.        *)
Remembered(p) == IF Observed(p) = "active" THEN [held |-> TRUE, table |-> Seen] ELSE cached

CacheLapses ==
  /\ cached.held /\ cached' = NoCache
  /\ UNCHANGED <<pairs, journal, table, receipt, stray, over, lan, asks>>

-----------------------------------------------------------------------------
(* Phones, the network and time                                              *)

Ask(a) ==
  /\ asks.sent < MaxAsks
  /\ asks' = [sent |-> asks.sent + 1, open |-> asks.open \cup {a}]
  /\ over' = IF a.mode = "phone_vpn" THEN over \ {Claim(a.pair, a.claim)} ELSE over
  /\ UNCHANGED <<pairs, policyvars, lan>>

LanChanges ==
  /\ lan = FirstLan /\ lan' = OtherLan
  /\ UNCHANGED <<pairs, leasevars, asks>>

Less(n) == IF n = 0 THEN 0 ELSE n - 1
Aged(l) == [l EXCEPT !.left = Less(@)]
(* The cache lasts for a tick only if it is asked for all along.             *)
HandoffTick ==
  /\ journal' = [journal EXCEPT
       !.lease = [p \in Pairs |-> Aged(@[p])],
       !.retired = {Aged(r) : r \in {s \in @ : s.left > 1}}]
  /\ table' = [table EXCEPT !.elem = [p \in Pairs |->
       IF @[p].left > 1 THEN Aged(@[p]) ELSE NoElement]]
  /\ stray' = Less(stray)
  /\ cached' \in IF \E p \in Pairs : Observed(p) = "active" THEN {cached, NoCache} ELSE {NoCache}
  /\ asks' = [asks EXCEPT !.open = {[a EXCEPT !.age = @ + 1] : a \in {b \in @ : b.age < Fresh}}]
  /\ UNCHANGED <<pairs, receipt, lan, over>>

-----------------------------------------------------------------------------
(* The kernel lets a phone past only for a lease of the journal, of its      *)
(* present credential, and no longer than the lease; what a torn change      *)
(* leaves in the table runs out within the longest lease.                    *)
(* (handoff_apply(), revoke_handoff(), pair_revoke(), store_pin())           *)
ElementsAreLeased ==
  \A p \in Pairs : table.elem[p].left > 0 =>
    \/ stray > 0
    \/ /\ Current(p, journal.lease[p].cred)
       /\ journal.lease[p].claim = table.elem[p].claim
       /\ table.elem[p].left <= journal.lease[p].left

(* Status says `none' only if the kernel has no element of the phone, and    *)
(* `active' only if it has the lease's.                                      *)
Truthful(p) ==
  /\ Observed(p) = "none" => table.elem[p].left = 0
  /\ Observed(p) = "active" =>
       table.elem[p].left > 0 /\ table.elem[p].claim = journal.lease[p].claim

(* Status is unknown rather than wrong, whichever change was torn; an answer *)
(* from the cache may be wrong, for no longer after the torn change than the *)
(* longest lease, though it is given again and again and lengthens its own   *)
(* life.  (handoff-adapter.uc observe())                                     *)
StatusIsTrue == \A p \in Pairs : Truthful(p) \/ (cached.held /\ stray > 0)

(* A claim whose live lease was released with an acknowledgment, or that the *)
(* released lease had replaced, gets no lease again from a request of before *)
(* that is late or comes twice.  (handoff.uc request(), retired)             *)
ReleasedStaysReleased ==
  \A p \in Pairs : Active(p, journal.lease[p]) => Claim(p, journal.lease[p].claim) \notin over

=============================================================================
