----------------------------- MODULE LeaseProofs -----------------------------
(* Nobody passes the tunnel without a lease, and a lease that was released   *)
(* stays released: for every number of phones and requests and all lengths   *)
(* of leases.                                                                *)
EXTENDS AccessProofs

(* What there is room for in a lease, an element and a request.              *)
LeaseSet == [cred : Nat, claim : Nat, left : 0..MaxLease, prior : SUBSET Nat]
ElementSet == [claim : Nat, left : 0..MaxLease]
AskSet == [pair : Pairs, cred : Creds, claim : Nat, age : Nat,
           mode : {"phone_vpn", "router_vpn"}, length : 0..MaxLease]

LeasesOK ==
  /\ journal.lease \in [Pairs -> LeaseSet]
  /\ table = [present |-> table.present, device |-> table.device, elem |-> table.elem]
  /\ table.elem \in [Pairs -> ElementSet]
  /\ stray \in Nat
  /\ asks = [sent |-> asks.sent, open |-> asks.open]
  /\ asks.open \subseteq AskSet

(* Whatever no lease allows is left over from a change that was torn, and    *)
(* has no longer to live than that is ago.                                   *)
Leased(p) ==
  /\ Current(p, journal.lease[p].cred)
  /\ journal.lease[p].claim = table.elem[p].claim
  /\ table.elem[p].left <= journal.lease[p].left
Covered ==
  \A p \in Pairs : table.elem[p].left > 0 => table.elem[p].left <= stray \/ Leased(p)

LeaseInv == JournalOK /\ LeasesOK /\ Covered

LEMMA LongestLease == MaxLease \in Nat /\ MaxLease > 0
  BY HandoffAssumption

LEMMA Nothing == NoLease \in LeaseSet /\ NoElement \in ElementSet /\ NoLease.cred = 0 /\ NoLease.left = 0
  BY LongestLease DEF NoLease, NoElement, NoClaim, LeaseSet, ElementSet

-----------------------------------------------------------------------------
(* handoff_apply() of some leases                                            *)
LEMMA TableShape ==
  ASSUME NEW next, next.lease \in [Pairs -> LeaseSet]
  PROVE  /\ TableOf(next) = [present |-> TRUE, device |-> lan, elem |-> TableOf(next).elem]
         /\ TableOf(next).elem \in [Pairs -> ElementSet]
         /\ \A p \in Pairs : TableOf(next).elem[p] =
              IF Active(p, next.lease[p])
              THEN [claim |-> next.lease[p].claim, left |-> next.lease[p].left] ELSE NoElement
<1> DEFINE elem == [p \in Pairs |->
     IF Active(p, next.lease[p])
     THEN [claim |-> next.lease[p].claim, left |-> next.lease[p].left] ELSE NoElement]
<1>1. TableOf(next) = [present |-> TRUE, device |-> lan, elem |-> elem]
  BY DEF TableOf
<1>2. elem \in [Pairs -> ElementSet]
  BY Nothing DEF LeaseSet, ElementSet
<1> QED
  BY <1>1, <1>2

LEMMA ApplyShape ==
  ASSUME LeasesOK, NEW next, next.lease \in [Pairs -> LeaseSet], NEW k \in 0..3, Apply(next, k)
  PROVE  /\ journal'.lease \in [Pairs -> LeaseSet] /\ stray' \in Nat
         /\ table' = [present |-> table'.present, device |-> table'.device, elem |-> table'.elem]
         /\ table'.elem \in [Pairs -> ElementSet]
<1>1. journal' = journal \/ journal' = next
  BY DEF Apply
<1>2. stray' \in Nat
  BY LongestLease DEF Apply, LeasesOK
<1>3. table' = table \/ table' = TableOf(next)
  BY DEF Apply
<1>4. /\ TableOf(next) = [present |-> TRUE, device |-> lan, elem |-> TableOf(next).elem]
      /\ TableOf(next).elem \in [Pairs -> ElementSet]
  BY TableShape
<1> QED
  BY <1>1, <1>2, <1>3, <1>4 DEF LeasesOK

LEMMA ApplyCovers ==
  ASSUME LeasesOK, Covered, NEW next, next.lease \in [Pairs -> LeaseSet], NEW k \in 0..3,
         Apply(next, k), pairs' = pairs
  PROVE  Covered'
<1>1. CASE k = 0
  BY <1>1 DEF Apply, Covered, Leased, Current
<1>2. CASE k \in {1, 2}
  <2>1. table' = TableOf(next) /\ stray' = MaxLease
    BY <1>2 DEF Apply
  <2>2. \A p \in Pairs : table'.elem[p].left \in 0..MaxLease
    BY <2>1, TableShape DEF ElementSet
  <2> QED
    BY <2>1, <2>2, LongestLease DEF Covered
<1>3. CASE k = 3
  <2>1. table' = TableOf(next) /\ journal' = next
    BY <1>3 DEF Apply
  <2>2. ASSUME NEW p \in Pairs, table'.elem[p].left > 0
        PROVE  Leased(p)'
    <3>. table'.elem[p] = IF Active(p, next.lease[p])
           THEN [claim |-> next.lease[p].claim, left |-> next.lease[p].left] ELSE NoElement
      BY <2>1, TableShape
    <3>1. Active(p, next.lease[p])
      BY <2>2 DEF NoElement
    <3>2. table'.elem[p] = [claim |-> next.lease[p].claim, left |-> next.lease[p].left]
      BY <3>1
    <3>3. next.lease[p].left \in Nat
      BY LongestLease DEF LeaseSet
    <3> QED
      BY <2>1, <3>1, <3>2, <3>3 DEF Leased, Active, Current
  <2> QED
    BY <2>2 DEF Covered
<1> QED
  BY <1>1, <1>2, <1>3

-----------------------------------------------------------------------------
(* revoke_handoff()                                                          *)
LEMMA WithoutShape ==
  ASSUME JournalOK, LeasesOK, NEW ids
  PROVE  /\ Without(ids).lease \in [Pairs -> LeaseSet]
         /\ \A p \in Pairs : Without(ids).lease[p] = IF p \in ids THEN NoLease ELSE journal.lease[p]
<1>1. Without(ids) = [written |-> journal.written, retired |-> journal.retired,
        lease |-> [p \in Pairs |-> IF p \in ids THEN NoLease ELSE journal.lease[p]]]
  BY DEF Without, JournalOK
<1> QED
  BY <1>1, Nothing DEF LeasesOK

LEMMA RevokeMoves ==
  ASSUME NEW ids, NEW k \in Nat, RevokeHandoff(ids, k)
  PROVE  \/ UNCHANGED <<journal, table, stray>> /\ (k > 0 => ~journal.written)
         \/ \E n \in 1..3 : Apply(Without(ids), n) /\ (k >= 3 => n = 3)
<1>1. CASE journal.written /\ k > 0
  <2> DEFINE n == IF k > 3 THEN 3 ELSE k
  <2>1. Apply(Without(ids), n) /\ n \in 1..3 /\ (k >= 3 => n = 3)
    BY <1>1 DEF RevokeHandoff
  <2> QED
    BY <2>1
<1>2. CASE ~(journal.written /\ k > 0)
  BY <1>2 DEF RevokeHandoff, policyvars
<1> QED
  BY <1>1, <1>2

LEMMA RevokeCovers ==
  ASSUME LeaseInv, asks' = asks, NEW ids, NEW k \in Nat, RevokeHandoff(ids, k),
         \/ pairs' = pairs
         \/ k >= 3 /\ \A p \in Pairs : pairs'[p] = pairs[p] \/ p \in ids
  PROVE  LeaseInv'
<1>1. JournalOK'
  BY RevokeShape DEF LeaseInv
<1>2. CASE UNCHANGED <<journal, table, stray>> /\ (k > 0 => ~journal.written)
  <2>1. LeasesOK'
    BY <1>2 DEF LeaseInv, LeasesOK
  <2>2. CASE pairs' = pairs
    BY <1>1, <1>2, <2>1, <2>2 DEF LeaseInv, Covered, Leased, Current
  <2>3. CASE k >= 3
    <3>1. \A p \in Pairs : journal.lease[p].cred = 0
      BY <1>2, <2>3, Nothing DEF LeaseInv, JournalOK
    <3>2. \A p \in Pairs : ~Leased(p)
      BY <3>1 DEF Leased, Current
    <3> QED
      BY <1>1, <1>2, <2>1, <3>2 DEF LeaseInv, Covered
  <2> QED
    BY <1>1, <2>1, <2>2, <2>3 DEF LeaseInv
<1>3. CASE \E n \in 1..3 : Apply(Without(ids), n) /\ (k >= 3 => n = 3)
  <2>1. PICK n \in 1..3 : Apply(Without(ids), n) /\ (k >= 3 => n = 3)
    BY <1>3
  <2>2. Without(ids).lease \in [Pairs -> LeaseSet] /\ n \in 0..3
    BY WithoutShape DEF LeaseInv
  <2>3. LeasesOK'
    BY <2>1, <2>2, ApplyShape DEF LeaseInv, LeasesOK
  <2>4. CASE pairs' = pairs
    BY <1>1, <2>1, <2>2, <2>3, <2>4, ApplyCovers DEF LeaseInv
  <2>5. CASE k >= 3 /\ \A p \in Pairs : pairs'[p] = pairs[p] \/ p \in ids
    <3>1. table' = TableOf(Without(ids)) /\ journal' = Without(ids)
      BY <2>1, <2>5 DEF Apply
    <3>2. ASSUME NEW p \in Pairs, table'.elem[p].left > 0
          PROVE  Leased(p)'
      <4>. table'.elem[p] = IF Active(p, Without(ids).lease[p])
             THEN [claim |-> Without(ids).lease[p].claim, left |-> Without(ids).lease[p].left]
             ELSE NoElement
        BY <2>2, <3>1, TableShape
      <4>1. Active(p, Without(ids).lease[p])
        BY <3>2 DEF NoElement
      <4>2. table'.elem[p] =
              [claim |-> Without(ids).lease[p].claim, left |-> Without(ids).lease[p].left]
        BY <4>1
      <4>3. p \notin ids
        BY <4>1, WithoutShape, Nothing DEF Active, LeaseInv
      <4>4. pairs'[p] = pairs[p]
        BY <2>5, <4>3
      <4>5. Without(ids).lease[p].left \in Nat
        BY <2>2, LongestLease DEF LeaseSet
      <4> QED
        BY <3>1, <4>1, <4>2, <4>4, <4>5 DEF Leased, Active, Current
    <3> QED
      BY <1>1, <2>3, <3>2 DEF LeaseInv, Covered
  <2> QED
    BY <1>1, <2>3, <2>4, <2>5 DEF LeaseInv
<1> QED
  BY <1>2, <1>3, RevokeMoves

-----------------------------------------------------------------------------
(* A phone's request, and time                                               *)
LEMMA RequestedShape ==
  ASSUME LeasesOK, NEW a \in asks.open
  PROVE  Requested(a).lease \in [Pairs -> LeaseSet]
<1>1. a \in AskSet
  BY DEF LeasesOK
<1>2. \A p \in Pairs : Found(p) \in LeaseSet
  BY Nothing DEF Found, LeasesOK
<1>3. Granted(a) \in LeaseSet
  <2>1. Found(a.pair) \in LeaseSet /\ a.cred \in Nat /\ a.claim \in Nat /\ a.length \in 0..MaxLease
    BY <1>1, <1>2, HandoffAssumption DEF AskSet
  <2>2. Found(a.pair).prior \cup ({Found(a.pair).claim} \ {NoClaim, a.claim}) \in SUBSET Nat
    BY <2>1 DEF LeaseSet
  <2> QED
    BY <2>1, <2>2 DEF Granted, LeaseSet
<1>4. Requested(a).lease = [p \in Pairs |->
        IF p # a.pair THEN Found(p) ELSE IF a.mode = "router_vpn" THEN NoLease ELSE Granted(a)]
  BY DEF Requested
<1> QED
  BY <1>2, <1>3, <1>4, Nothing

LEMMA HandoffCovers ==
  ASSUME LeaseInv, NEW a \in asks.open, NEW k \in 0..3, PhoneHandoff(a, k)
  PROVE  LeasesOK' /\ Covered'
<1>1. Requested(a).lease \in [Pairs -> LeaseSet]
  BY RequestedShape DEF LeaseInv
<1>2. Apply(Requested(a), k) /\ pairs' = pairs /\ asks' = asks
  BY DEF PhoneHandoff, netvars
<1>3. LeasesOK'
  BY <1>1, <1>2, ApplyShape DEF LeaseInv, LeasesOK
<1> QED
  BY <1>1, <1>2, <1>3, ApplyCovers DEF LeaseInv

LEMMA AgedLease ==
  ASSUME NEW l \in LeaseSet
  PROVE  /\ Aged(l) \in LeaseSet
         /\ Aged(l).cred = l.cred /\ Aged(l).claim = l.claim /\ Aged(l).left = Less(l.left)
<1>1. Aged(l) = [cred |-> l.cred, claim |-> l.claim, left |-> Less(l.left), prior |-> l.prior]
  BY DEF Aged, LeaseSet
<1>2. Less(l.left) \in 0..MaxLease
  BY LongestLease DEF Less, LeaseSet
<1> QED
  BY <1>1, <1>2 DEF LeaseSet

LEMMA AgedElement ==
  ASSUME NEW e \in ElementSet, e.left > 1
  PROVE  Aged(e) \in ElementSet /\ Aged(e).claim = e.claim /\ Aged(e).left = e.left - 1
<1>1. Aged(e) = [claim |-> e.claim, left |-> Less(e.left)]
  BY DEF Aged, ElementSet
<1>2. Less(e.left) = e.left - 1 /\ e.left - 1 \in 0..MaxLease
  BY LongestLease DEF Less, ElementSet
<1> QED
  BY <1>1, <1>2 DEF ElementSet

LEMMA TickCovers ==
  ASSUME LeaseInv, HandoffTick
  PROVE  LeasesOK' /\ Covered'
<1> DEFINE later == [p \in Pairs |-> Aged(journal.lease[p])]
           left == [p \in Pairs |-> IF table.elem[p].left > 1 THEN Aged(table.elem[p]) ELSE NoElement]
           kept == {Aged(r) : r \in {s \in journal.retired : s.left > 1}}
           waiting == {[a EXCEPT !.age = @ + 1] : a \in {b \in asks.open : b.age < Fresh}}
<1>1. /\ journal' = [journal EXCEPT !.lease = later, !.retired = kept]
      /\ table' = [table EXCEPT !.elem = left]
      /\ asks' = [asks EXCEPT !.open = waiting]
      /\ stray' = Less(stray) /\ pairs' = pairs
  BY DEF HandoffTick
<1>2. journal'.lease = later /\ table'.elem = left /\ asks'.open = waiting
      /\ table' = [present |-> table.present, device |-> table.device, elem |-> left]
      /\ asks' = [sent |-> asks.sent, open |-> waiting]
  <2> HIDE DEF later, left, kept, waiting
  <2> QED
    BY <1>1 DEF LeaseInv, JournalOK, LeasesOK
<1>3. \A p \in Pairs : journal.lease[p] \in LeaseSet /\ table.elem[p] \in ElementSet
  BY DEF LeaseInv, LeasesOK
<1>5. LeasesOK'
  <2>1. later \in [Pairs -> LeaseSet]
    BY <1>3, AgedLease
  <2>2. left \in [Pairs -> ElementSet]
    BY <1>3, AgedElement, Nothing
  <2>3. waiting \subseteq AskSet
    <3>1. ASSUME NEW a \in asks.open
          PROVE  [a EXCEPT !.age = a.age + 1] \in AskSet
      BY <3>1 DEF AskSet, LeaseInv, LeasesOK
    <3> QED
      BY <3>1
  <2>4. stray' \in Nat
    <3>1. stray \in Nat /\ stray' = Less(stray)
      BY <1>1 DEF LeaseInv, LeasesOK
    <3> QED
      BY <3>1 DEF Less
  <2> HIDE DEF later, left, kept, waiting
  <2> QED
    BY <1>2, <2>1, <2>2, <2>3, <2>4 DEF LeasesOK
<1>6. ASSUME NEW p \in Pairs, table'.elem[p].left > 0
      PROVE  table'.elem[p].left <= stray' \/ Leased(p)'
  <2>1. table.elem[p].left > 1
    BY <1>2, <1>6 DEF NoElement
  <2>2. table'.elem[p].claim = table.elem[p].claim /\ table'.elem[p].left = table.elem[p].left - 1
    BY <1>2, <1>3, <2>1, AgedElement
  <2>3. table.elem[p].left \in Nat /\ journal.lease[p].left \in Nat /\ stray \in Nat
    BY <1>3, LongestLease DEF LeaseInv, LeasesOK, ElementSet, LeaseSet
  <2>4. CASE table.elem[p].left <= stray
    BY <1>1, <2>1, <2>2, <2>3, <2>4 DEF Less
  <2>5. CASE Leased(p)
    <3>1. /\ journal'.lease[p].cred = journal.lease[p].cred
          /\ journal'.lease[p].claim = journal.lease[p].claim
          /\ journal'.lease[p].left = Less(journal.lease[p].left)
      <4>1. journal'.lease[p] = Aged(journal.lease[p])
        BY <1>2
      <4> QED
        BY <1>3, <4>1, AgedLease
    <3> QED
      BY <1>1, <2>1, <2>2, <2>3, <2>5, <3>1 DEF Leased, Current, Less
  <2> QED
    BY <2>1, <2>3, <2>4, <2>5 DEF LeaseInv, Covered
<1> QED
  BY <1>5, <1>6 DEF Covered

-----------------------------------------------------------------------------
(* Every step                                                                *)
LEMMA LeaseKept ==
  ASSUME LeaseInv, UNCHANGED <<journal, table, stray, asks>>,
         \A p \in Pairs : pairs'[p] = pairs[p] \/ pairs[p].cred = 0
  PROVE  LeaseInv'
<1>1. JournalOK' /\ LeasesOK'
  BY DEF LeaseInv, JournalOK, LeasesOK
<1>2. \A p \in Pairs : Leased(p) => Leased(p)'
  BY DEF Leased, Current
<1> QED
  BY <1>1, <1>2 DEF LeaseInv, Covered

LEMMA LeaseOwner ==
  ASSUME LeaseInv, KeysOK, OwnerCalls
  PROVE  LeaseInv'
<1>1. CASE \/ \E k \in 0..2 : Unlock(k)
           \/ SetPinRefused
           \/ \E p \in Pairs : PairUnlock(p)
  BY <1>1, LeaseKept DEF Unlock, SetPinRefused, PairUnlock, keyvars, leasevars, policyvars, netvars
<1>2. CASE \E p \in Pairs, c \in Creds, k \in 0..1 : PairCreate(p, c, k)
  <2>1. PICK p \in Pairs, c \in Creds, k \in 0..1 : PairCreate(p, c, k)
    BY <1>2
  <2>2. UNCHANGED <<journal, table, stray, asks>> /\ pairs[p].cred = 0
    BY <2>1 DEF PairCreate, leasevars, policyvars, netvars
  <2>3. \A q \in Pairs : pairs'[q] = pairs[q] \/ q = p
    BY <2>1 DEF PairCreate, KeysOK
  <2> QED
    BY <2>2, <2>3, LeaseKept
<1>3. CASE \E k \in 0..6, setup \in BOOLEAN : SetPin(k, setup)
  <2>1. PICK k \in 0..6, setup \in BOOLEAN : SetPin(k, setup)
    BY <1>3
  <2>2. asks' = asks /\ (k < 5 => pairs' = pairs)
    BY <2>1 DEF SetPin, StorePin, netvars
  <2>3. CASE k = 0
    BY <2>1, <2>2, <2>3, LeaseKept DEF SetPin, StorePin, policyvars
  <2>4. CASE k # 0
    <3>1. RevokeHandoff(Pairs, k - 1) /\ k - 1 \in Nat
      BY <2>1, <2>4 DEF SetPin, StorePin
    <3>2. k < 5 \/ k - 1 >= 3
      OBVIOUS
    <3> QED
      BY <2>2, <3>1, <3>2, RevokeCovers
  <2> QED
    BY <2>3, <2>4
<1>4. CASE \E k \in 0..10 : SetupReset(k)
  <2>1. PICK k \in 0..10 : SetupReset(k)
    BY <1>4
  <2>2. asks' = asks /\ (k < 8 => pairs' = pairs) /\ RevokeHandoff(Pairs, k)
    BY <2>1 DEF SetupReset, netvars
  <2>3. k \in Nat /\ (k < 8 \/ k >= 3)
    OBVIOUS
  <2> QED
    BY <2>2, <2>3, RevokeCovers
<1>5. CASE \E p \in Pairs, k \in 0..4 : PairRevoke(p, k)
  <2>1. PICK p \in Pairs, k \in 0..4 : PairRevoke(p, k)
    BY <1>5
  <2>2. asks' = asks /\ RevokeHandoff({p}, k) /\ k \in Nat
    BY <2>1 DEF PairRevoke, netvars
  <2>3. CASE k = 4
    <3>1. \A q \in Pairs : pairs'[q] = pairs[q] \/ q \in {p}
      BY <2>1, <2>3 DEF PairRevoke, KeysOK
    <3> QED
      BY <2>2, <2>3, <3>1, RevokeCovers
  <2>4. CASE k # 4
    BY <2>1, <2>2, <2>4, RevokeCovers DEF PairRevoke
  <2> QED
    BY <2>3, <2>4
<1> QED
  BY <1>1, <1>2, <1>3, <1>4, <1>5 DEF OwnerCalls

LEMMA LeasePhones ==
  ASSUME LeaseInv, LeaseCalls, JournalOK'
  PROVE  LeaseInv'
<1>1. CASE \E a \in Requests : Asking(a)
  <2>1. PICK a \in Requests : Asking(a)
    BY <1>1
  <2>2. a \in AskSet
    <3>1. a.claim \in 1..MaxClaim /\ a.length \in Lengths \cup {0} /\ a.age = 0
      BY <2>1 DEF Requests
    <3>2. a.length \in 0..MaxLease
      <4>1. Lengths \subseteq 1..MaxLease /\ MaxLease \in Nat
        BY HandoffAssumption
      <4>2. a.length \in Lengths => a.length \in 1..MaxLease
        BY <4>1
      <4>3. a.length \in Lengths \/ a.length = 0
        BY <3>1
      <4> QED
        BY <4>1, <4>2, <4>3
    <3> QED
      BY <2>1, <3>1, <3>2, HandoffAssumption DEF Requests, AskSet
  <2>3. UNCHANGED <<journal, table, stray, pairs>>
    BY <2>1 DEF Asking, Ask, leasevars, policyvars
  <2>4. asks' = [sent |-> asks.sent + 1, open |-> asks.open \cup {a}]
    BY <2>1 DEF Asking, Ask
  <2>5. LeasesOK'
    BY <2>2, <2>3, <2>4 DEF LeaseInv, LeasesOK
  <2> QED
    BY <2>3, <2>5 DEF LeaseInv, Covered, Leased, Current
<1>2. CASE \E a \in asks.open, k \in 0..3 : PhoneHandoff(a, k)
  BY <1>2, HandoffCovers DEF LeaseInv
<1>3. CASE LanTurn \/ Forgetting \/ \E p \in Pairs : PhoneStatus(p)
  BY <1>3, LeaseKept DEF LanTurn, LanChanges, PhoneStatus, Forgetting, CacheLapses, keyvars, netvars, leasevars, policyvars
<1> QED
  BY <1>1, <1>2, <1>3 DEF LeaseCalls

LEMMA LeaseStep ==
  ASSUME LeaseInv, KeysOK, [ANext]_vars
  PROVE  LeaseInv'
<1>1. JournalOK'
  BY JournalStep DEF LeaseInv
<1>2. CASE OwnerCalls
  BY <1>2, LeaseOwner
<1>3. CASE LeaseCalls
  BY <1>1, <1>3, LeasePhones
<1>4. CASE KeyCalls
  BY <1>4, LeaseKept DEF KeyCalls, Guess, SessionEnds, Enroll, FactoryPinLapses, leasevars, policyvars, netvars
<1>5. CASE ClientCalls
  BY <1>5, LeaseKept DEF ClientCalls, PhoneProvision, SaveClient, DeleteClient, ForceStarts, ForceEnds,
     Publisher, PublisherDies, ServerTurn, Midnight, RouterOnly, keyvars, leasevars, policyvars, netvars
<1>6. CASE Tick
  BY <1>1, <1>6, TickCovers DEF Tick, LeaseInv
<1>7. CASE Reboot
  <2>1. /\ journal' = NoJournal /\ table' = NoTable /\ stray' = 0
        /\ asks' = [asks EXCEPT !.open = {}]
    BY <1>7 DEF Reboot
  <2>2. asks' = [sent |-> asks.sent, open |-> {}]
    BY <2>1 DEF LeaseInv, LeasesOK
  <2>3. LeasesOK'
    BY <2>1, <2>2, Nothing DEF NoJournal, NoTable, LeasesOK
  <2> QED
    BY <1>1, <2>1, <2>3 DEF LeaseInv, Covered, NoTable, NoElement
<1>8. CASE RpcdDies \/ UNCHANGED vars
  BY <1>8, LeaseKept DEF RpcdDies, vars, keyvars, leasevars, policyvars, netvars
<1> QED
  BY <1>2, <1>3, <1>4, <1>5, <1>6, <1>7, <1>8 DEF ANext

LEMMA LeaseInit ==
  ASSUME AInit
  PROVE  LeaseInv
<1>1. /\ journal = NoJournal /\ table = NoTable /\ stray = 0
      /\ asks = [sent |-> 0, open |-> {}]
  BY DEF AInit, HandoffInit
<1>2. JournalOK
  BY <1>1 DEF NoJournal, JournalOK
<1>3. LeasesOK
  BY <1>1, Nothing DEF NoJournal, NoTable, LeasesOK
<1> QED
  BY <1>1, <1>2, <1>3 DEF LeaseInv, Covered, NoTable, NoElement

(* Whichever write was torn and whenever rpcd died, the kernel lets a phone  *)
(* past the tunnel only for a lease of the journal, of the credential the    *)
(* pair has now, and no longer than that; what is left over from a torn      *)
(* change has run out by the end of the longest lease.                       *)
THEOREM NobodyPassesWithoutLease == ASpec => []ElementsAreLeased
<1>1. AInit => PinInv /\ LeaseInv
  BY PinInit0, LeaseInit
<1>2. PinInv /\ LeaseInv /\ [ANext]_vars => (PinInv /\ LeaseInv)'
  BY PinStep, LeaseStep DEF PinInv
<1>3. LeaseInv => ElementsAreLeased
  <2>1. ASSUME LeaseInv, NEW p \in Pairs, table.elem[p].left > 0
        PROVE  stray > 0 \/ Leased(p)
    <3>1. table.elem[p].left \in Nat /\ stray \in Nat
      BY <2>1, LongestLease DEF LeaseInv, LeasesOK, ElementSet
    <3> QED
      BY <2>1, <3>1 DEF LeaseInv, Covered
  <2> QED
    BY <2>1 DEF ElementsAreLeased, Leased
<1> QED
  BY <1>1, <1>2, <1>3, PTL DEF ASpec

-----------------------------------------------------------------------------
(* Status                                                                    *)
NoTableNoElement == ~table.present => \A p \in Pairs : table.elem[p].left = 0

(* A lease is of the pair's credential and lasts no longer in the kernel, or *)
(* in what rpcd remembers of it, than in the journal, or is from before a    *)
(* torn change.                                                              *)
Lasting ==
  \A p \in Pairs : journal.lease[p].left > 0 =>
    /\ Current(p, journal.lease[p].cred)
    /\ \/ journal.lease[p].left <= stray
       \/ /\ table.elem[p].claim = journal.lease[p].claim
          /\ table.elem[p].left >= journal.lease[p].left
RecalledBy(c) ==
  c.held =>
    /\ c.table.present
    /\ \A p \in Pairs : journal.lease[p].left > 0 =>
         \/ journal.lease[p].left <= stray
         \/ c.table.elem[p].left > 0 /\ c.table.elem[p].claim = journal.lease[p].claim
StatusInv == NoTableNoElement /\ Lasting /\ RecalledBy(cached)

LEMMA LeaseTimes ==
  ASSUME LeaseInv, NEW p \in Pairs
  PROVE  journal.lease[p].left \in 0..MaxLease /\ table.elem[p].left \in 0..MaxLease /\ stray \in Nat
  BY DEF LeaseInv, LeasesOK, LeaseSet, ElementSet

LEMMA RememberedRecalls ==
  ASSUME LeaseInv, StatusInv, NEW p \in Pairs
  PROVE  RecalledBy(Remembered(p))
<1>1. CASE Observed(p) = "active" /\ ~cached.held
  <2>1. Remembered(p) = [held |-> TRUE, table |-> table] /\ table.present
    BY <1>1 DEF Remembered, Observed, Seen
  <2>2. ASSUME NEW q \in Pairs, journal.lease[q].left > 0, ~(journal.lease[q].left <= stray)
        PROVE  table.elem[q].left > 0 /\ table.elem[q].claim = journal.lease[q].claim
    BY <2>2, LeaseTimes, LongestLease DEF StatusInv, Lasting
  <2> QED
    BY <2>1, <2>2 DEF RecalledBy
<1>2. CASE Observed(p) = "active" /\ cached.held
  <2>1. Remembered(p) = [held |-> TRUE, table |-> cached.table]
    BY <1>2 DEF Remembered, Seen
  <2> QED
    BY <1>2, <2>1 DEF StatusInv, RecalledBy
<1>3. CASE Observed(p) # "active"
  BY <1>3 DEF Remembered, StatusInv
<1> QED
  BY <1>1, <1>2, <1>3

(* The leases stay, and rpcd forgets, or remembers what is so.               *)
LEMMA StatusKept ==
  ASSUME StatusInv, UNCHANGED <<journal, table, stray>>, RecalledBy(cached'),
         \A p \in Pairs : pairs'[p] = pairs[p] \/ pairs[p].cred = 0
  PROVE  StatusInv'
<1>1. NoTableNoElement' /\ RecalledBy(cached)'
  BY DEF StatusInv, NoTableNoElement, RecalledBy
<1>2. \A p \in Pairs : journal.lease[p].left > 0 => Current(p, journal.lease[p].cred)'
  BY DEF StatusInv, Lasting, Current
<1>3. Lasting'
  BY <1>2 DEF StatusInv, Lasting
<1> QED
  BY <1>1, <1>3 DEF StatusInv

(* handoff_apply() of leases that are all of present credentials: as far as  *)
(* the table only, and what was torn may show, or as far as the journal.     *)
LEMMA ApplyLasts ==
  ASSUME LeaseInv, StatusInv, NEW next, next.lease \in [Pairs -> LeaseSet], NEW n \in 1..3,
         Apply(next, n),
         \A p \in Pairs : next.lease[p].left > 0 => Current(p, next.lease[p].cred),
         \/ pairs' = pairs
         \/ n = 3 /\ \A p \in Pairs : pairs'[p] = pairs[p] \/ next.lease[p].left = 0,
         cached'.held => \/ n = 1 /\ cached'.table.present
                         \/ n = 3 /\ cached'.table = table'
  PROVE  StatusInv'
<1>1. table' = TableOf(next) /\ table'.present
  BY TableShape DEF Apply
<1>2. CASE n # 3
  <2>1. journal' = journal /\ stray' = MaxLease /\ pairs' = pairs
    BY <1>2 DEF Apply
  <2>2. \A p \in Pairs : journal.lease[p].left <= MaxLease
    BY LeaseTimes, LongestLease
  <2>3. \A p \in Pairs : journal.lease[p].left > 0 => Current(p, journal.lease[p].cred)'
    BY <2>1 DEF StatusInv, Lasting, Current
  <2>4. Lasting'
    BY <2>1, <2>2, <2>3 DEF Lasting
  <2>5. RecalledBy(cached)'
    BY <1>2, <2>1, <2>2 DEF RecalledBy
  <2> QED
    BY <1>1, <2>4, <2>5 DEF StatusInv, NoTableNoElement
<1>3. CASE n = 3
  <2>1. journal' = next
    BY <1>3 DEF Apply
  <2>2. ASSUME NEW p \in Pairs, next.lease[p].left > 0
        PROVE  /\ Current(p, next.lease[p].cred)'
               /\ table'.elem[p].claim = next.lease[p].claim
               /\ table'.elem[p].left = next.lease[p].left
    <3>1. Current(p, next.lease[p].cred) /\ Active(p, next.lease[p])
      BY <2>2 DEF Active
    <3>2. pairs'[p] = pairs[p]
      <4>1. next.lease[p].left # 0
        BY <2>2, LongestLease
      <4> QED
        BY <4>1
    <3>3. table'.elem[p] = [claim |-> next.lease[p].claim, left |-> next.lease[p].left]
      BY <1>1, <3>1, TableShape
    <3> QED
      BY <2>1, <3>1, <3>2, <3>3 DEF Current
  <2>3. \A p \in Pairs : next.lease[p].left \in Nat
    BY LongestLease DEF LeaseSet
  <2>4. Lasting'
    BY <2>1, <2>2, <2>3 DEF Lasting
  <2>5. RecalledBy(cached)'
    BY <1>1, <1>3, <2>1, <2>2 DEF RecalledBy
  <2> QED
    BY <1>1, <2>4, <2>5 DEF StatusInv, NoTableNoElement
<1> QED
  BY <1>2, <1>3

LEMMA RevokeLasts ==
  ASSUME LeaseInv, StatusInv, NEW ids, NEW k \in Nat, RevokeHandoff(ids, k),
         \/ pairs' = pairs
         \/ k >= 3 /\ \A p \in Pairs : pairs'[p] = pairs[p] \/ p \in ids
  PROVE  StatusInv'
<1>1. CASE journal.written /\ k > 0
  <2> DEFINE n == IF k > 3 THEN 3 ELSE k
  <2>1. /\ Apply(Without(ids), n) /\ n \in 1..3 /\ (k >= 3 => n = 3)
        /\ cached' = IF n >= 2 THEN NoCache ELSE cached
    BY <1>1 DEF RevokeHandoff, Dropped
  <2>2. /\ Without(ids).lease \in [Pairs -> LeaseSet]
        /\ \A p \in Pairs : Without(ids).lease[p] = IF p \in ids THEN NoLease ELSE journal.lease[p]
    BY WithoutShape DEF LeaseInv
  <2>3. \A p \in Pairs : Without(ids).lease[p].left > 0 => Current(p, Without(ids).lease[p].cred)
    BY <2>2, Nothing DEF StatusInv, Lasting
  <2>4. cached'.held => n = 1 /\ cached'.table.present
    BY <2>1 DEF NoCache, StatusInv, RecalledBy
  <2>5. \/ pairs' = pairs
        \/ n = 3 /\ \A p \in Pairs : pairs'[p] = pairs[p] \/ Without(ids).lease[p].left = 0
    BY <2>1, <2>2, Nothing
  <2> HIDE DEF n
  <2> QED
    BY <2>1, <2>2, <2>3, <2>4, <2>5, ApplyLasts
<1>2. CASE ~(journal.written /\ k > 0)
  <2>1. UNCHANGED <<journal, table, stray>> /\ cached' = cached
    BY <1>2 DEF RevokeHandoff, policyvars
  <2>2. RecalledBy(cached')
    BY <2>1 DEF StatusInv
  <2>3. CASE pairs' = pairs
    BY <2>1, <2>2, <2>3, StatusKept
  <2>4. CASE k >= 3
    <3>1. \A p \in Pairs : journal.lease[p].left = 0
      BY <1>2, <2>4, Nothing DEF LeaseInv, JournalOK
    <3>2. Lasting' /\ RecalledBy(cached)' /\ NoTableNoElement'
      BY <2>1, <3>1 DEF Lasting, RecalledBy, NoTableNoElement, StatusInv
    <3> QED
      BY <3>2 DEF StatusInv
  <2> QED
    BY <2>3, <2>4
<1> QED
  BY <1>1, <1>2

LEMMA HandoffLasts ==
  ASSUME LeaseInv, StatusInv, NEW a \in asks.open, NEW k \in 0..3, PhoneHandoff(a, k)
  PROVE  StatusInv'
<1>1. /\ Apply(Requested(a), k) /\ pairs' = pairs /\ a \in AskSet /\ Current(a.pair, a.cred)
      /\ cached' = IF k < 2 THEN Remembered(a.pair)
                   ELSE IF k = 3 /\ a.mode = "phone_vpn" THEN [held |-> TRUE, table |-> table']
                   ELSE NoCache
  BY DEF PhoneHandoff, LeaseInv, LeasesOK
<1>2. a.pair \in Pairs
  BY <1>1 DEF AskSet
<1>3. RecalledBy(Remembered(a.pair))
  BY <1>2, RememberedRecalls
<1>4. CASE k = 0
  <2>1. UNCHANGED <<journal, table, stray>>
    BY <1>1, <1>4 DEF Apply
  <2> QED
    BY <1>1, <1>3, <1>4, <2>1, StatusKept
<1>5. CASE k # 0
  <2>1. Requested(a).lease \in [Pairs -> LeaseSet]
    BY RequestedShape DEF LeaseInv
  <2>2. \A p \in Pairs : Requested(a).lease[p].left > 0 => Current(p, Requested(a).lease[p].cred)
    BY <1>1, Nothing DEF Requested, Granted, Found, Active
  <2>3. cached'.held => \/ k = 1 /\ cached'.table.present
                        \/ k = 3 /\ cached'.table = table'
    BY <1>1, <1>3, <1>5 DEF RecalledBy, NoCache
  <2>4. k \in 1..3
    BY <1>5
  <2> QED
    BY <1>1, <2>1, <2>2, <2>3, <2>4, ApplyLasts
<1> QED
  BY <1>4, <1>5

LEMMA TickLasts ==
  ASSUME LeaseInv, StatusInv, HandoffTick
  PROVE  StatusInv'
<1> DEFINE later == [p \in Pairs |-> Aged(journal.lease[p])]
           left == [p \in Pairs |-> IF table.elem[p].left > 1 THEN Aged(table.elem[p]) ELSE NoElement]
           kept == {Aged(r) : r \in {s \in journal.retired : s.left > 1}}
<1>1. /\ journal' = [journal EXCEPT !.lease = later, !.retired = kept]
      /\ table' = [table EXCEPT !.elem = left]
      /\ stray' = Less(stray) /\ pairs' = pairs /\ cached' \in {cached, NoCache}
  BY DEF HandoffTick
<1>2. journal'.lease = later /\ table'.elem = left /\ table'.present = table.present
  <2> HIDE DEF later, left, kept
  <2> QED
    BY <1>1 DEF LeaseInv, JournalOK, LeasesOK
<1>3. ASSUME NEW p \in Pairs
      PROVE  /\ journal'.lease[p].cred = journal.lease[p].cred
             /\ journal'.lease[p].claim = journal.lease[p].claim
             /\ journal'.lease[p].left = Less(journal.lease[p].left)
             /\ table.elem[p].left > 1 => /\ table'.elem[p].claim = table.elem[p].claim
                                          /\ table'.elem[p].left = table.elem[p].left - 1
             /\ table.elem[p].left <= 1 => table'.elem[p].left = 0
  <2>1. journal.lease[p] \in LeaseSet /\ table.elem[p] \in ElementSet
    BY DEF LeaseInv, LeasesOK
  <2>2. journal'.lease[p] = Aged(journal.lease[p])
    BY <1>2
  <2>3. table'.elem[p] = IF table.elem[p].left > 1 THEN Aged(table.elem[p]) ELSE NoElement
    BY <1>2
  <2>4. table.elem[p].left \in Nat
    BY LeaseTimes, LongestLease
  <2>5. table.elem[p].left <= 1 => table'.elem[p] = NoElement
    BY <2>3, <2>4
  <2> QED
    BY <2>1, <2>2, <2>3, <2>5, AgedLease, AgedElement DEF NoElement
<1>4. ASSUME NEW p \in Pairs
      PROVE  journal.lease[p].left \in Nat /\ table.elem[p].left \in Nat /\ stray \in Nat
  BY LeaseTimes, LongestLease
<1>5. NoTableNoElement'
  <2>1. ASSUME NEW p \in Pairs, table.elem[p].left = 0
        PROVE  table'.elem[p].left = 0
    BY <1>3, <2>1
  <2> QED
    BY <1>2, <2>1 DEF StatusInv, NoTableNoElement
<1>6. ASSUME NEW p \in Pairs, journal'.lease[p].left > 0
      PROVE  /\ Current(p, journal.lease[p].cred)'
             /\ \/ journal'.lease[p].left <= stray'
                \/ /\ table'.elem[p].claim = journal'.lease[p].claim
                   /\ table'.elem[p].left >= journal'.lease[p].left
  <2>1. journal.lease[p].left > 1 /\ journal'.lease[p].left = journal.lease[p].left - 1
    BY <1>3, <1>4, <1>6 DEF Less
  <2>2. Current(p, journal.lease[p].cred)'
    BY <1>1, <1>3, <1>4, <2>1 DEF StatusInv, Lasting, Current
  <2>3. CASE journal.lease[p].left <= stray
    BY <1>1, <1>4, <2>1, <2>2, <2>3 DEF Less
  <2>4. CASE /\ table.elem[p].claim = journal.lease[p].claim
             /\ table.elem[p].left >= journal.lease[p].left
    BY <1>3, <1>4, <2>1, <2>2, <2>4
  <2> QED
    BY <1>4, <2>1, <2>3, <2>4 DEF StatusInv, Lasting
<1>7. ASSUME cached'.held
      PROVE  RecalledBy(cached)'
  <2>1. cached' = cached
    BY <1>1, <1>7 DEF NoCache
  <2>2. ASSUME NEW p \in Pairs, journal'.lease[p].left > 0, ~(journal'.lease[p].left <= stray')
        PROVE  cached.table.elem[p].left > 0 /\ cached.table.elem[p].claim = journal'.lease[p].claim
    <3>1. journal.lease[p].left > 0 /\ ~(journal.lease[p].left <= stray)
      BY <1>1, <1>3, <1>4, <2>2 DEF Less
    <3> QED
      BY <1>3, <1>7, <2>1, <3>1 DEF StatusInv, RecalledBy
  <2> QED
    BY <1>7, <2>1, <2>2 DEF StatusInv, RecalledBy
<1> QED
  BY <1>5, <1>6, <1>7 DEF StatusInv, Lasting, RecalledBy

LEMMA StatusOwner ==
  ASSUME LeaseInv, StatusInv, KeysOK, OwnerCalls
  PROVE  StatusInv'
<1>0. RecalledBy(cached)
  BY DEF StatusInv
<1>1. CASE \/ \E k \in 0..2 : Unlock(k)
           \/ SetPinRefused
           \/ \E p \in Pairs : PairUnlock(p)
  <2>1. UNCHANGED <<journal, table, stray, cached, pairs>>
    BY <1>1 DEF Unlock, SetPinRefused, PairUnlock, keyvars, leasevars, policyvars
  <2> QED
    BY <1>0, <2>1, StatusKept
<1>2. CASE \E p \in Pairs, c \in Creds, k \in 0..1 : PairCreate(p, c, k)
  <2>1. PICK p \in Pairs, c \in Creds, k \in 0..1 : PairCreate(p, c, k)
    BY <1>2
  <2>2. UNCHANGED <<journal, table, stray, cached>> /\ pairs[p].cred = 0
    BY <2>1 DEF PairCreate, leasevars, policyvars
  <2>3. \A q \in Pairs : pairs'[q] = pairs[q] \/ q = p
    BY <2>1 DEF PairCreate, KeysOK
  <2> QED
    BY <1>0, <2>2, <2>3, StatusKept
<1>3. CASE \E k \in 0..6, setup \in BOOLEAN : SetPin(k, setup)
  <2>1. PICK k \in 0..6, setup \in BOOLEAN : SetPin(k, setup)
    BY <1>3
  <2>2. k < 5 => pairs' = pairs
    BY <2>1 DEF SetPin, StorePin
  <2>3. CASE k = 0
    <3>1. UNCHANGED <<journal, table, stray, cached>>
      BY <2>1, <2>3 DEF SetPin, StorePin, policyvars
    <3> QED
      BY <1>0, <2>2, <2>3, <3>1, StatusKept
  <2>4. CASE k # 0
    <3>1. RevokeHandoff(Pairs, k - 1) /\ k - 1 \in Nat
      BY <2>1, <2>4 DEF SetPin, StorePin
    <3>2. k < 5 \/ k - 1 >= 3
      OBVIOUS
    <3> QED
      BY <2>2, <3>1, <3>2, RevokeLasts
  <2> QED
    BY <2>3, <2>4
<1>4. CASE \E k \in 0..10 : SetupReset(k)
  <2>1. PICK k \in 0..10 : SetupReset(k)
    BY <1>4
  <2>2. (k < 8 => pairs' = pairs) /\ RevokeHandoff(Pairs, k)
    BY <2>1 DEF SetupReset
  <2>3. k \in Nat /\ (k < 8 \/ k >= 3)
    OBVIOUS
  <2> QED
    BY <2>2, <2>3, RevokeLasts
<1>5. CASE \E p \in Pairs, k \in 0..4 : PairRevoke(p, k)
  <2>1. PICK p \in Pairs, k \in 0..4 : PairRevoke(p, k)
    BY <1>5
  <2>2. RevokeHandoff({p}, k) /\ k \in Nat
    BY <2>1 DEF PairRevoke
  <2>3. CASE k = 4
    <3>1. \A q \in Pairs : pairs'[q] = pairs[q] \/ q \in {p}
      BY <2>1, <2>3 DEF PairRevoke, KeysOK
    <3> QED
      BY <2>2, <2>3, <3>1, RevokeLasts
  <2>4. CASE k # 4
    BY <2>1, <2>2, <2>4, RevokeLasts DEF PairRevoke
  <2> QED
    BY <2>3, <2>4
<1> QED
  BY <1>1, <1>2, <1>3, <1>4, <1>5 DEF OwnerCalls

LEMMA StatusStep ==
  ASSUME LeaseInv, StatusInv, KeysOK, [ANext]_vars
  PROVE  StatusInv'
<1>0. RecalledBy(cached) /\ RecalledBy(NoCache)
  BY DEF StatusInv, RecalledBy, NoCache
<1>1. CASE OwnerCalls
  BY <1>1, StatusOwner
<1>2. CASE LeaseCalls
  <2>1. CASE \E a \in asks.open, k \in 0..3 : PhoneHandoff(a, k)
    BY <2>1, HandoffLasts
  <2>2. CASE \E p \in Pairs : PhoneStatus(p)
    <3>1. PICK p \in Pairs : PhoneStatus(p)
      BY <2>2
    <3>2. UNCHANGED <<journal, table, stray, pairs>> /\ cached' = Remembered(p)
      BY <3>1 DEF PhoneStatus, keyvars
    <3> QED
      BY <3>2, RememberedRecalls, StatusKept
  <2>3. CASE (\E a \in Requests : Asking(a)) \/ Forgetting \/ LanTurn
    <3>1. UNCHANGED <<journal, table, stray, pairs>> /\ cached' \in {cached, NoCache}
      BY <2>3 DEF Asking, Ask, Forgetting, CacheLapses, LanTurn, LanChanges, leasevars, policyvars
    <3> QED
      BY <1>0, <3>1, StatusKept
  <2> QED
    BY <1>2, <2>1, <2>2, <2>3 DEF LeaseCalls
<1>3. CASE KeyCalls
  <2>1. UNCHANGED <<journal, table, stray, cached, pairs>>
    BY <1>3 DEF KeyCalls, Guess, SessionEnds, Enroll, FactoryPinLapses, leasevars, policyvars
  <2> QED
    BY <1>0, <2>1, StatusKept
<1>4. CASE ClientCalls
  <2>1. UNCHANGED <<journal, table, stray, cached, pairs>>
    BY <1>4 DEF ClientCalls, PhoneProvision, SaveClient, DeleteClient, ForceStarts, ForceEnds,
       Publisher, PublisherDies, ServerTurn, Midnight, RouterOnly, keyvars, leasevars, policyvars
  <2> QED
    BY <1>0, <2>1, StatusKept
<1>5. CASE Tick
  BY <1>5, TickLasts DEF Tick
<1>6. CASE Reboot
  <2>1. journal' = NoJournal /\ table' = NoTable /\ cached' = NoCache
    BY <1>6 DEF Reboot
  <2> QED
    BY <2>1, Nothing DEF NoJournal, NoTable, NoCache, NoElement, StatusInv, NoTableNoElement, Lasting,
       RecalledBy
<1>7. CASE RpcdDies \/ UNCHANGED vars
  <2>1. UNCHANGED <<journal, table, stray, pairs>> /\ cached' \in {cached, NoCache}
    BY <1>7 DEF RpcdDies, vars, keyvars, leasevars, policyvars
  <2> QED
    BY <1>0, <2>1, StatusKept
<1> QED
  BY <1>1, <1>2, <1>3, <1>4, <1>5, <1>6, <1>7 DEF ANext

LEMMA StatusInit ==
  ASSUME AInit
  PROVE  StatusInv
<1>1. journal = NoJournal /\ table = NoTable /\ cached = NoCache
  BY DEF AInit, HandoffInit
<1> QED
  BY <1>1, Nothing DEF NoJournal, NoTable, NoCache, NoElement, StatusInv, NoTableNoElement, Lasting,
     RecalledBy

LEMMA StatusHolds ==
  ASSUME LeaseInv, StatusInv
  PROVE  StatusIsTrue
<1> SUFFICES ASSUME NEW p \in Pairs, ~(cached.held /\ stray > 0)
             PROVE  Truthful(p)
  BY DEF StatusIsTrue
<1>1. table.elem[p].left \in Nat /\ journal.lease[p].left \in Nat /\ stray \in Nat
  BY LeaseTimes, LongestLease
<1>2. ~Current(p, NoLease.cred)
  BY Nothing DEF Current
<1>3. CASE ~cached.held
  <2>1. Seen = table
    BY <1>3 DEF Seen
  <2>2. Known(table) /\ table.elem[p].left > 0 =>
          Current(p, journal.lease[p].cred) /\ journal.lease[p].claim = table.elem[p].claim
    BY DEF Known
  <2>3. Observed(p) = "none" => table.elem[p].left = 0
    BY <1>1, <1>2, <2>1, <2>2 DEF Observed, StatusInv, NoTableNoElement
  <2>4. Observed(p) = "active" =>
          table.elem[p].left > 0 /\ table.elem[p].claim = journal.lease[p].claim
    BY <2>1 DEF Observed
  <2> QED
    BY <2>3, <2>4 DEF Truthful
<1>4. CASE cached.held
  <2>1. Seen = cached.table /\ Seen.present /\ stray = 0
    BY <1>1, <1>4 DEF Seen, StatusInv, RecalledBy
  <2>2. CASE journal.lease[p].left > 0
    <3>1. Active(p, journal.lease[p])
      BY <2>2 DEF StatusInv, Lasting, Active
    <3>2. /\ table.elem[p].left > 0 /\ table.elem[p].claim = journal.lease[p].claim
          /\ Seen.elem[p].left > 0 /\ Seen.elem[p].claim = journal.lease[p].claim
      BY <1>1, <1>4, <2>1, <2>2 DEF StatusInv, Lasting, RecalledBy
    <3>3. Observed(p) # "none"
      BY <2>1, <3>1, <3>2 DEF Observed
    <3> QED
      BY <3>2, <3>3 DEF Truthful
  <2>3. CASE journal.lease[p].left = 0
    <3>1. table.elem[p].left = 0
      BY <1>1, <2>1, <2>3 DEF LeaseInv, Covered, Leased
    <3>2. ~Active(p, journal.lease[p])
      BY <2>3 DEF Active
    <3>3. Observed(p) # "active"
      BY <3>2 DEF Observed
    <3> QED
      BY <3>1, <3>3 DEF Truthful
  <2> QED
    BY <1>1, <2>2, <2>3
<1> QED
  BY <1>3, <1>4

(* What a phone is told of its lease is right, or unknown, after whatever a  *)
(* torn change left and with another LAN device; and an answer from memory   *)
(* is wrong, if at all, only within the longest lease of a torn change, for  *)
(* what rpcd remembers and the kernel's elements come from the same leases.  *)
THEOREM StatusIsNeverWrong == ASpec => []StatusIsTrue
<1>1. AInit => PinInv /\ LeaseInv /\ StatusInv
  BY PinInit0, LeaseInit, StatusInit
<1>2. PinInv /\ LeaseInv /\ StatusInv /\ [ANext]_vars => (PinInv /\ LeaseInv /\ StatusInv)'
  BY PinStep, LeaseStep, StatusStep DEF PinInv
<1>3. LeaseInv /\ StatusInv => StatusIsTrue
  BY StatusHolds
<1> QED
  BY <1>1, <1>2, <1>3, PTL DEF ASpec

-----------------------------------------------------------------------------
(* Tombstones: a request of before a release that can still be fresh meets   *)
(* one that lives longer than it.                                            *)

TombSet == [pair : Pairs, cred : Nat, claim : Nat, left : Nat]
TombsOK ==
  /\ journal.retired \subseteq TombSet
  /\ over \subseteq Pairs \X (0..regs) \X Nat
  /\ \A p \in Pairs : pairs[p].reg \in 0..regs

Late(p, c) ==
  {a \in asks.open : a.pair = p /\ a.cred = pairs[p].cred /\ a.mode = "phone_vpn"
                     /\ a.claim = c /\ a.age <= Fresh}
Buried(p, c, age) ==
  \E r \in journal.retired :
    r.pair = p /\ r.cred = pairs[p].cred /\ r.claim = c /\ r.left + age > Fresh
Closed(p, c) ==
  /\ Active(p, journal.lease[p]) => journal.lease[p].claim # c
  /\ \A a \in Late(p, c) : Buried(p, c, a.age)
OverIsClosed ==
  \A p \in Pairs, c \in Nat : pairs[p].cred # 0 /\ Claim(p, c) \in over => Closed(p, c)

TombInv == TombsOK /\ OverIsClosed

(* Leases and pairs may go, and nothing else changes.                        *)
LEMMA TombsKept ==
  ASSUME TombInv, KeysOK, UNCHANGED <<asks, over, regs>>, journal'.retired = journal.retired,
         \A p \in Pairs : journal'.lease[p] \in {journal.lease[p], NoLease},
         \A p \in Pairs : pairs'[p] = pairs[p] \/ pairs'[p] = NoPair
  PROVE  TombInv'
<1>1. TombsOK'
  BY DEF TombInv, TombsOK, NoPair, KeysOK
<1>2. ASSUME NEW p \in Pairs, NEW c \in Nat, pairs'[p].cred # 0, Claim(p, c)' \in over'
      PROVE  Closed(p, c)'
  <2>1. pairs'[p] = pairs[p]
    BY <1>2 DEF NoPair
  <2>2. Closed(p, c)
    BY <1>2, <2>1 DEF TombInv, OverIsClosed, Claim
  <2>3. Active(p, journal.lease[p])' => Active(p, journal.lease[p]) /\ journal'.lease[p] = journal.lease[p]
    BY <2>1, Nothing DEF Active, Current
  <2>4. Late(p, c)' = Late(p, c) /\ \A age : Buried(p, c, age)' <=> Buried(p, c, age)
    BY <2>1 DEF Late, Buried
  <2> QED
    BY <2>2, <2>3, <2>4 DEF Closed
<1> QED
  BY <1>1, <1>2 DEF TombInv, OverIsClosed

LEMMA RevokeTombs ==
  ASSUME LeaseInv, NEW ids, NEW k \in Nat, RevokeHandoff(ids, k)
  PROVE  /\ journal'.retired = journal.retired
         /\ \A p \in Pairs : journal'.lease[p] \in {journal.lease[p], NoLease}
<1>1. \A p \in Pairs : journal'.lease[p] \in {journal.lease[p], NoLease}
  BY RevokeShape DEF LeaseInv
<1>2. journal' = journal \/ journal' = Without(ids)
  BY DEF RevokeHandoff, Apply, policyvars
<1>3. Without(ids).retired = journal.retired
  BY DEF Without, LeaseInv, JournalOK
<1> QED
  BY <1>1, <1>2, <1>3

LEMMA TombsOwner ==
  ASSUME LeaseInv, TombInv, KeysOK, OwnerCalls
  PROVE  TombInv'
<1>1. CASE \/ \E k \in 0..2 : Unlock(k)
           \/ SetPinRefused
           \/ \E p \in Pairs : PairUnlock(p)
  BY <1>1, TombsKept DEF Unlock, SetPinRefused, PairUnlock, keyvars, leasevars, policyvars, netvars
<1>2. CASE \E k \in 0..6, setup \in BOOLEAN : SetPin(k, setup)
  <2>1. PICK k \in 0..6, setup \in BOOLEAN : SetPin(k, setup)
    BY <1>2
  <2>2. /\ UNCHANGED <<asks, over, regs>>
        /\ \A p \in Pairs : pairs'[p] = pairs[p] \/ pairs'[p] = NoPair
    BY <2>1 DEF SetPin, StorePin, NoPairs, netvars
  <2>3. CASE k = 0
    BY <2>1, <2>2, <2>3, TombsKept DEF SetPin, StorePin, policyvars
  <2>4. CASE k # 0
    <3>1. RevokeHandoff(Pairs, k - 1) /\ k - 1 \in Nat
      BY <2>1, <2>4 DEF SetPin, StorePin
    <3> QED
      BY <2>2, <3>1, RevokeTombs, TombsKept
  <2> QED
    BY <2>3, <2>4
<1>3. CASE \E k \in 0..10 : SetupReset(k)
  <2>1. PICK k \in 0..10 : SetupReset(k)
    BY <1>3
  <2>2. /\ UNCHANGED <<asks, over, regs>> /\ RevokeHandoff(Pairs, k) /\ k \in Nat
        /\ \A p \in Pairs : pairs'[p] = pairs[p] \/ pairs'[p] = NoPair
    BY <2>1 DEF SetupReset, NoPairs, netvars
  <2> QED
    BY <2>2, RevokeTombs, TombsKept
<1>4. CASE \E p \in Pairs, k \in 0..4 : PairRevoke(p, k)
  <2>1. PICK p \in Pairs, k \in 0..4 : PairRevoke(p, k)
    BY <1>4
  <2>2. UNCHANGED <<asks, over, regs>> /\ RevokeHandoff({p}, k) /\ k \in Nat
    BY <2>1 DEF PairRevoke, netvars
  <2>3. \A q \in Pairs : pairs'[q] = pairs[q] \/ pairs'[q] = NoPair
    BY <2>1 DEF PairRevoke, KeysOK
  <2> QED
    BY <2>2, <2>3, RevokeTombs, TombsKept
<1>5. CASE \E p \in Pairs, c \in Creds, k \in 0..1 : PairCreate(p, c, k)
  <2>1. PICK p \in Pairs, c \in Creds, k \in 0..1 : PairCreate(p, c, k)
    BY <1>5
  <2>2. UNCHANGED <<journal, asks, over>>
    BY <2>1 DEF PairCreate, leasevars, policyvars, netvars
  <2>3. CASE UNCHANGED <<pairs, regs>>
    BY <2>2, <2>3, TombsKept
  <2>4. CASE /\ pairs' = [pairs EXCEPT ![p] = [cred |-> c, pin |-> auth.pin, reg |-> regs + 1]]
             /\ regs' = regs + 1
    <3>1. regs \in Nat
      BY DEF KeysOK
    <3>2. pairs'[p].reg = regs + 1 /\ \A q \in Pairs : q # p => pairs'[q] = pairs[q]
      BY <2>4 DEF KeysOK
    <3>3. TombsOK'
      <4>1. 0..regs \subseteq 0..regs' /\ regs + 1 \in 0..regs'
        BY <2>4, <3>1
      <4>2. over' \subseteq Pairs \X (0..regs') \X Nat
        BY <2>2, <4>1 DEF TombInv, TombsOK
      <4>3. \A q \in Pairs : pairs'[q].reg \in 0..regs'
        BY <3>2, <4>1 DEF TombInv, TombsOK
      <4> QED
        BY <2>2, <4>2, <4>3 DEF TombInv, TombsOK
    <3>4. \A d \in Nat : <<p, regs + 1, d>> \notin over
      BY <3>1 DEF TombInv, TombsOK
    <3>5. ASSUME NEW q \in Pairs, NEW d \in Nat, pairs'[q].cred # 0, Claim(q, d)' \in over'
          PROVE  Closed(q, d)'
      <4>1. q # p
        BY <2>2, <3>2, <3>4, <3>5 DEF Claim
      <4>2. pairs'[q] = pairs[q]
        BY <3>2, <4>1
      <4>3. Closed(q, d)
        BY <2>2, <3>5, <4>2 DEF TombInv, OverIsClosed, Claim
      <4> QED
        BY <2>2, <4>2, <4>3 DEF Closed, Late, Buried, Active, Current
    <3> QED
      BY <3>3, <3>5 DEF TombInv, OverIsClosed
  <2> QED
    BY <2>1, <2>3, <2>4 DEF PairCreate
<1> QED
  BY <1>1, <1>2, <1>3, <1>4, <1>5 DEF OwnerCalls

-----------------------------------------------------------------------------
(* A claim that is asked for anew is not over any more.                      *)
LEMMA TombsAsk ==
  ASSUME LeaseInv, TombInv, KeysOK, NEW a \in Requests, Asking(a)
  PROVE  TombInv'
<1>1. /\ UNCHANGED <<journal, pairs, regs>>
      /\ asks'.open = asks.open \cup {a}
      /\ over' = IF a.mode = "phone_vpn" THEN over \ {Claim(a.pair, a.claim)} ELSE over
  BY DEF Asking, Ask, policyvars
<1>2. TombsOK'
  BY <1>1 DEF TombInv, TombsOK
<1>3. ASSUME NEW p \in Pairs, NEW c \in Nat, pairs'[p].cred # 0, Claim(p, c)' \in over'
      PROVE  Closed(p, c)'
  <2>1. Claim(p, c)' = Claim(p, c) /\ Claim(p, c) \in over
    BY <1>1, <1>3 DEF Claim
  <2>2. Closed(p, c)
    BY <1>1, <1>3, <2>1 DEF TombInv, OverIsClosed
  <2>3. a \notin Late(p, c)'
    BY <1>1, <1>3, <2>1 DEF Late, Claim
  <2>4. Late(p, c)' \subseteq Late(p, c)
    BY <1>1, <2>3 DEF Late
  <2>5. \A age : Buried(p, c, age)' <=> Buried(p, c, age)
    BY <1>1 DEF Buried
  <2>6. Active(p, journal.lease[p])' => Active(p, journal.lease[p])
    BY <1>1 DEF Active, Current
  <2> QED
    BY <1>1, <2>2, <2>4, <2>5, <2>6 DEF Closed
<1> QED
  BY <1>2, <1>3 DEF TombInv, OverIsClosed

(* A tombstone that is still needed is still there.                          *)
LEMMA StillBuried ==
  ASSUME LeaseInv, TombInv, NEW p \in Pairs, NEW c \in Nat, pairs[p].cred # 0,
         NEW a \in Late(p, c), Buried(p, c, a.age)
  PROVE  \E r \in Retired :
           r.pair = p /\ r.cred = pairs[p].cred /\ r.claim = c /\ r.left + a.age > Fresh
<1>1. a.age \in Nat /\ a.age <= Fresh
  BY DEF Late, LeaseInv, LeasesOK, AskSet
<1>2. PICK r \in journal.retired :
        r.pair = p /\ r.cred = pairs[p].cred /\ r.claim = c /\ r.left + a.age > Fresh
  BY DEF Buried
<1>3. r.left \in Nat
  BY DEF TombInv, TombsOK, TombSet
<1>4. r.left > 0
  BY <1>1, <1>2, <1>3, HandoffAssumption
<1> QED
  BY <1>2, <1>4 DEF Retired, Current

LEMMA TombsGranted ==
  ASSUME LeaseInv, TombInv, KeysOK, NEW a \in asks.open, PhoneHandoff(a, 3), a.mode = "phone_vpn"
  PROVE  TombInv'
<1>1. /\ UNCHANGED <<pairs, asks, over, regs>> /\ journal' = Requested(a)
      /\ a.age <= Fresh /\ Current(a.pair, a.cred) /\ ~Conflict(a)
  BY DEF PhoneHandoff, Apply, netvars
<1>2. /\ journal'.retired = Retired /\ Retired \subseteq journal.retired
      /\ \A p \in Pairs : journal'.lease[p] = IF p # a.pair THEN Found(p) ELSE Granted(a)
  BY <1>1 DEF Requested, Retired
<1>3. TombsOK'
  BY <1>1, <1>2 DEF TombInv, TombsOK
<1>4. a \in AskSet
  BY DEF LeaseInv, LeasesOK
<1>5. ASSUME NEW p \in Pairs, NEW c \in Nat, pairs'[p].cred # 0, Claim(p, c)' \in over'
      PROVE  Closed(p, c)'
  <2>1. pairs[p].cred # 0 /\ Closed(p, c)
    BY <1>1, <1>5 DEF TombInv, OverIsClosed, Claim
  <2>2. \A b \in Late(p, c)' : Buried(p, c, b.age)'
    <3>1. Late(p, c)' = Late(p, c)
      BY <1>1 DEF Late
    <3>2. ASSUME NEW b \in Late(p, c)
          PROVE  Buried(p, c, b.age)'
      <4>1. Buried(p, c, b.age)
        BY <2>1 DEF Closed
      <4>2. \E r \in Retired :
              r.pair = p /\ r.cred = pairs[p].cred /\ r.claim = c /\ r.left + b.age > Fresh
        BY <2>1, <4>1, StillBuried
      <4> QED
        BY <1>1, <1>2, <4>2 DEF Buried
    <3> QED
      BY <3>1, <3>2
  <2>3. CASE p # a.pair
    <3>1. journal'.lease[p] = Found(p)
      BY <1>2, <2>3
    <3>2. Active(p, journal.lease[p])' => Active(p, journal.lease[p]) /\ journal'.lease[p] = journal.lease[p]
      BY <1>1, <3>1, Nothing DEF Found, Active, Current
    <3> QED
      BY <2>1, <2>2, <3>2 DEF Closed
  <2>4. CASE p = a.pair
    <3>1. journal'.lease[p].claim = a.claim
      BY <1>2, <2>4 DEF Granted
    <3>2. a.claim # c
      <4>1. SUFFICES ASSUME a.claim = c PROVE FALSE
        OBVIOUS
      <4>2. a \in Late(p, c)
        BY <1>1, <2>4, <4>1 DEF Late, Current
      <4>3. Buried(p, c, a.age)
        BY <2>1, <4>2 DEF Closed
      <4>4. \E r \in Retired : r.pair = p /\ r.claim = c
        BY <2>1, <4>2, <4>3, StillBuried
      <4> QED
        BY <1>1, <2>4, <4>1, <4>4 DEF Conflict
    <3> QED
      BY <2>2, <3>1, <3>2 DEF Closed
  <2> QED
    BY <2>3, <2>4
<1> QED
  BY <1>3, <1>5 DEF TombInv, OverIsClosed

(* A release buries the claim and those it had replaced, for longer than any *)
(* request stays fresh.                                                      *)
LEMMA TombsReleased ==
  ASSUME LeaseInv, TombInv, KeysOK, NEW a \in asks.open, PhoneHandoff(a, 3), a.mode # "phone_vpn"
  PROVE  TombInv'
<1> DEFINE found == Found(a.pair)
           tombs == {[pair |-> a.pair, cred |-> found.cred, claim |-> d, left |-> MaxLease] :
                       d \in Tombstones(found)}
<1>1. a \in AskSet /\ a.mode = "router_vpn" /\ a.pair \in Pairs
  BY DEF LeaseInv, LeasesOK, AskSet
<1>2. /\ UNCHANGED <<pairs, asks, regs>> /\ journal' = Requested(a)
      /\ over' = over \cup {Claim(a.pair, d) : d \in Tombstones(found)}
  BY <1>1 DEF PhoneHandoff, Apply, netvars
<1>3. /\ journal'.retired = Retired \cup tombs /\ Retired \subseteq journal.retired
      /\ \A p \in Pairs : journal'.lease[p] = IF p # a.pair THEN Found(p) ELSE NoLease
  BY <1>1, <1>2 DEF Requested, Retired, Retire
<1>4. /\ Found(a.pair) \in LeaseSet /\ Tombstones(found) \subseteq Nat
      /\ Tombstones(found) # {} => found.cred = pairs[a.pair].cred
  <2>1. journal.lease[a.pair] \in LeaseSet
    BY <1>1 DEF LeaseInv, LeasesOK
  <2>2. found \in LeaseSet
    BY <2>1, Nothing DEF Found
  <2>3. found # NoLease => Current(a.pair, found.cred)
    BY DEF Found, Active
  <2> HIDE DEF found
  <2>4. Tombstones(found) \subseteq Nat
    BY <2>2 DEF Tombstones, LeaseSet
  <2>5. Tombstones(found) # {} => found.cred = pairs[a.pair].cred
    BY <2>3 DEF Tombstones, Current
  <2> QED
    BY <2>2, <2>4, <2>5 DEF found
<1> HIDE DEF found
<1>5. TombsOK'
  <2>1. tombs \subseteq TombSet
    BY <1>1, <1>4, LongestLease DEF TombSet, LeaseSet, found
  <2>2. {Claim(a.pair, d) : d \in Tombstones(found)} \subseteq Pairs \X (0..regs) \X Nat
    BY <1>1, <1>4 DEF Claim, TombInv, TombsOK
  <2> HIDE DEF tombs
  <2> QED
    BY <1>2, <1>3, <2>1, <2>2 DEF TombInv, TombsOK
<1>6. ASSUME NEW p \in Pairs, NEW c \in Nat, pairs'[p].cred # 0, Claim(p, c)' \in over'
      PROVE  Closed(p, c)'
  <2>1. pairs[p].cred # 0 /\ Late(p, c)' = Late(p, c)
    BY <1>2, <1>6 DEF Late
  <2>2. Active(p, journal.lease[p])' =>
          /\ p # a.pair /\ Active(p, journal.lease[p]) /\ journal'.lease[p] = journal.lease[p]
    BY <1>2, <1>3, Nothing DEF Found, Active, Current
  <2>3. CASE Claim(p, c) \in over
    <3>1. Closed(p, c)
      BY <2>1, <2>3 DEF TombInv, OverIsClosed
    <3>2. ASSUME NEW b \in Late(p, c)
          PROVE  Buried(p, c, b.age)'
      <4>1. Buried(p, c, b.age)
        BY <3>1 DEF Closed
      <4>2. \E r \in Retired :
              r.pair = p /\ r.cred = pairs[p].cred /\ r.claim = c /\ r.left + b.age > Fresh
        BY <2>1, <4>1, StillBuried
      <4> HIDE DEF tombs
      <4> QED
        BY <1>2, <1>3, <4>2 DEF Buried
    <3> QED
      BY <2>1, <2>2, <3>1, <3>2 DEF Closed
  <2>4. CASE p = a.pair /\ c \in Tombstones(found)
    <3>1. [pair |-> p, cred |-> found.cred, claim |-> c, left |-> MaxLease] \in journal'.retired
      BY <1>3, <2>4
    <3>2. found.cred = pairs[p].cred
      BY <1>4, <2>4
    <3>3. ASSUME NEW b \in Late(p, c)
          PROVE  Buried(p, c, b.age)'
      <4>1. b.age \in Nat
        BY DEF Late, LeaseInv, LeasesOK, AskSet
      <4>2. MaxLease + b.age > Fresh
        BY <4>1, HandoffAssumption
      <4> QED
        BY <1>2, <3>1, <3>2, <4>2 DEF Buried
    <3> QED
      BY <2>1, <2>2, <2>4, <3>3 DEF Closed
  <2> QED
    BY <1>2, <1>6, <2>3, <2>4 DEF Claim
<1> QED
  BY <1>5, <1>6 DEF TombInv, OverIsClosed

-----------------------------------------------------------------------------
(* A request grows older as its tombstone does.                              *)
LEMMA AgedTomb ==
  ASSUME NEW r \in TombSet, r.left > 1
  PROVE  /\ Aged(r) \in TombSet /\ Aged(r).pair = r.pair /\ Aged(r).cred = r.cred
         /\ Aged(r).claim = r.claim /\ Aged(r).left = r.left - 1
<1>1. Aged(r) = [pair |-> r.pair, cred |-> r.cred, claim |-> r.claim, left |-> Less(r.left)]
  BY DEF Aged, TombSet
<1>2. Less(r.left) = r.left - 1 /\ r.left - 1 \in Nat
  BY DEF Less, TombSet
<1> QED
  BY <1>1, <1>2 DEF TombSet

LEMMA TombsTick ==
  ASSUME LeaseInv, TombInv, KeysOK, Tick
  PROVE  TombInv'
<1> DEFINE later == [p \in Pairs |-> Aged(journal.lease[p])]
           kept == {Aged(r) : r \in {s \in journal.retired : s.left > 1}}
           waiting == {[a EXCEPT !.age = @ + 1] : a \in {b \in asks.open : b.age < Fresh}}
<1>1. /\ journal' = [journal EXCEPT !.lease = later, !.retired = kept]
      /\ asks' = [asks EXCEPT !.open = waiting]
      /\ UNCHANGED <<pairs, over, regs>>
  BY DEF Tick, HandoffTick
<1>2. journal'.lease = later /\ journal'.retired = kept /\ asks'.open = waiting
  <2> HIDE DEF later, kept, waiting
  <2> QED
    BY <1>1 DEF LeaseInv, JournalOK, LeasesOK
<1>3. \A r \in journal.retired : r \in TombSet
  BY DEF TombInv, TombsOK
<1>4. TombsOK'
  <2>1. kept \subseteq TombSet
    BY <1>3, AgedTomb
  <2> HIDE DEF kept
  <2> QED
    BY <1>1, <1>2, <2>1 DEF TombInv, TombsOK
<1>5. \A p \in Pairs :
        /\ journal'.lease[p].cred = journal.lease[p].cred
        /\ journal'.lease[p].claim = journal.lease[p].claim
        /\ journal'.lease[p].left > 0 => journal.lease[p].left > 0
  <2>1. ASSUME NEW p \in Pairs
        PROVE  /\ journal'.lease[p] = Aged(journal.lease[p]) /\ journal.lease[p] \in LeaseSet
               /\ journal.lease[p].left \in Nat
    BY <1>2, LongestLease DEF LeaseInv, LeasesOK, LeaseSet
  <2>2. ASSUME NEW n \in Nat
        PROVE  Less(n) > 0 => n > 0
    BY DEF Less
  <2> QED
    BY <2>1, <2>2, AgedLease
<1>6. ASSUME NEW p \in Pairs, NEW c \in Nat, pairs'[p].cred # 0, Claim(p, c)' \in over'
      PROVE  Closed(p, c)'
  <2>1. pairs[p].cred # 0 /\ Closed(p, c)
    BY <1>1, <1>6 DEF TombInv, OverIsClosed, Claim
  <2>2. Active(p, journal.lease[p])' => Active(p, journal.lease[p])
    BY <1>1, <1>5 DEF Active, Current
  <2>3. ASSUME NEW b \in Late(p, c)'
        PROVE  Buried(p, c, b.age)'
    <3>1. PICK a \in asks.open : a.age < Fresh /\ b = [a EXCEPT !.age = a.age + 1]
      BY <1>2, <2>3 DEF Late
    <3>2. a \in AskSet
      BY DEF LeaseInv, LeasesOK
    <3>3. /\ b.pair = a.pair /\ b.cred = a.cred /\ b.mode = a.mode /\ b.claim = a.claim
          /\ b.age = a.age + 1 /\ a.age \in Nat
      BY <3>1, <3>2 DEF AskSet
    <3>4. a \in Late(p, c)
      <4>1. b.pair = p /\ b.cred = pairs'[p].cred /\ b.mode = "phone_vpn" /\ b.claim = c
        BY <2>3 DEF Late
      <4>2. a.pair = p /\ a.cred = pairs[p].cred /\ a.mode = "phone_vpn" /\ a.claim = c
        BY <1>1, <3>3, <4>1
      <4>3. a.age <= Fresh
        BY <3>1, <3>3, HandoffAssumption
      <4> QED
        BY <3>1, <4>2, <4>3 DEF Late
    <3>5. Buried(p, c, a.age)
      BY <2>1, <3>4 DEF Closed
    <3>6. PICK r \in journal.retired :
            r.pair = p /\ r.cred = pairs[p].cred /\ r.claim = c /\ r.left + a.age > Fresh
      BY <3>5 DEF Buried
    <3>7. r \in TombSet /\ r.left \in Nat
      BY <1>3 DEF TombSet
    <3>8. r.left > 1
      BY <3>1, <3>3, <3>6, <3>7, HandoffAssumption
    <3>9. /\ Aged(r) \in journal'.retired
          /\ Aged(r).pair = p /\ Aged(r).cred = pairs'[p].cred /\ Aged(r).claim = c
          /\ Aged(r).left = r.left - 1
      BY <1>1, <1>2, <3>6, <3>7, <3>8, AgedTomb
    <3>10. Aged(r).left + b.age > Fresh
      BY <3>3, <3>6, <3>7, <3>9, HandoffAssumption
    <3> QED
      BY <3>9, <3>10 DEF Buried
  <2> QED
    BY <1>5, <2>1, <2>2, <2>3 DEF Closed
<1> QED
  BY <1>4, <1>6 DEF TombInv, OverIsClosed

LEMMA TombsStep ==
  ASSUME LeaseInv, TombInv, KeysOK, [ANext]_vars
  PROVE  TombInv'
<1>1. CASE OwnerCalls
  BY <1>1, TombsOwner
<1>2. CASE LeaseCalls
  <2>1. CASE \E a \in Requests : Asking(a)
    BY <2>1, TombsAsk
  <2>2. CASE \E a \in asks.open, k \in 0..3 : PhoneHandoff(a, k)
    <3>1. PICK a \in asks.open, k \in 0..3 : PhoneHandoff(a, k)
      BY <2>2
    <3>2. CASE k = 3
      BY <3>1, <3>2, TombsGranted, TombsReleased
    <3>3. CASE k # 3
      BY <3>1, <3>3, TombsKept DEF PhoneHandoff, Apply, netvars
    <3> QED
      BY <3>2, <3>3
  <2>3. CASE LanTurn \/ Forgetting \/ \E p \in Pairs : PhoneStatus(p)
    BY <2>3, TombsKept DEF LanTurn, LanChanges, PhoneStatus, Forgetting, CacheLapses, keyvars, netvars, leasevars, policyvars
  <2> QED
    BY <1>2, <2>1, <2>2, <2>3 DEF LeaseCalls
<1>3. CASE KeyCalls
  BY <1>3, TombsKept DEF KeyCalls, Guess, SessionEnds, Enroll, FactoryPinLapses, leasevars, policyvars, netvars
<1>4. CASE ClientCalls
  BY <1>4, TombsKept DEF ClientCalls, PhoneProvision, SaveClient, DeleteClient, ForceStarts, ForceEnds,
     Publisher, PublisherDies, ServerTurn, Midnight, RouterOnly, keyvars, leasevars, policyvars, netvars
<1>5. CASE Tick
  BY <1>5, TombsTick
<1>6. CASE Reboot
  <2>1. journal' = NoJournal /\ over' = {} /\ UNCHANGED <<pairs, regs>>
    BY <1>6 DEF Reboot
  <2> QED
    BY <2>1 DEF NoJournal, TombInv, TombsOK, OverIsClosed
<1>7. CASE RpcdDies \/ UNCHANGED vars
  BY <1>7, TombsKept DEF RpcdDies, vars, keyvars, leasevars, policyvars, netvars
<1> QED
  BY <1>1, <1>2, <1>3, <1>4, <1>5, <1>6, <1>7 DEF ANext

LEMMA TombsInit ==
  ASSUME AInit
  PROVE  TombInv
<1>1. over = {} /\ journal = NoJournal
  BY DEF AInit, HandoffInit
<1>2. \A p \in Pairs : pairs[p].reg \in 0..regs
  <2>1. CASE FactoryInit \/ PanelInit
    BY <2>1 DEF FactoryInit, PanelInit, NoPairs, NoPair
  <2>2. CASE PhoneInit
    <3>1. PICK q \in Pairs, c \in Creds :
            pairs = [NoPairs EXCEPT ![q] = [cred |-> c, pin |-> 1, reg |-> 1]]
      BY <2>2 DEF PhoneInit
    <3>2. regs = 1
      BY <2>2 DEF PhoneInit
    <3> QED
      BY <3>1, <3>2 DEF NoPairs, NoPair
  <2> QED
    BY <2>1, <2>2 DEF AInit, InUseInit
<1> QED
  BY <1>1, <1>2 DEF NoJournal, TombInv, TombsOK, OverIsClosed

(* No late or repeated request of before an answered release gets a lease,   *)
(* for all lengths of leases that are longer than a request stays fresh:     *)
(* tombstone and request grow old together.                                  *)
THEOREM ReleaseIsForGood == ASpec => []ReleasedStaysReleased
<1>1. AInit => PinInv /\ LeaseInv /\ TombInv
  BY PinInit0, LeaseInit, TombsInit
<1>2. PinInv /\ LeaseInv /\ TombInv /\ [ANext]_vars => (PinInv /\ LeaseInv /\ TombInv)'
  BY PinStep, LeaseStep, TombsStep DEF PinInv
<1>3. LeaseInv /\ TombInv => ReleasedStaysReleased
  <2>1. ASSUME LeaseInv, TombInv, NEW p \in Pairs, Active(p, journal.lease[p])
        PROVE  Claim(p, journal.lease[p].claim) \notin over
    <3>1. pairs[p].cred # 0 /\ journal.lease[p].claim \in Nat
      BY <2>1 DEF Active, Current, LeaseInv, LeasesOK, LeaseSet
    <3> QED
      BY <2>1, <3>1 DEF TombInv, OverIsClosed, Closed
  <2> QED
    BY <2>1 DEF ReleasedStaysReleased
<1> QED
  BY <1>1, <1>2, <1>3, PTL DEF ASpec

=============================================================================
