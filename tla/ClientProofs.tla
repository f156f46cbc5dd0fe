---------------------------- MODULE ClientProofs ----------------------------
(* Remote clients of phones: none is made twice, none that was deleted comes *)
(* back, and none is served that should not be.                              *)
EXTENDS AccessProofs

(* The shape of phones and clients.  A phone has a client only if it is a    *)
(* remote one, and the ids are those that were made.                         *)
PhoneSet == [cred : Nat, remote : BOOLEAN, device : Nat, client : Nat, revoked : BOOLEAN]
Made == 1..Len(minted)
PhonesOK ==
  /\ minted \in Seq(Nat)
  /\ phones \in [Pairs -> PhoneSet]
  /\ \A p \in Pairs :
       /\ phones[p].device \in Made \cup {0} /\ phones[p].client \in Made \cup {0}
       /\ phones[p].client # 0 => phones[p].remote
  /\ state.clients \subseteq Made /\ state.devices \subseteq Made

(* A registration has a number of its own, and once it has ids, its phone is *)
(* remembered as long as the pair stays.                                     *)
OneMint ==
  /\ \A i, j \in Made : minted[i] = minted[j] /\ minted[i] # 0 => i = j
  /\ \A i \in Made : minted[i] <= regs
  /\ \A p \in Pairs : pairs[p].cred # 0 =>
       /\ pairs[p].reg \in 1..regs
       /\ \A q \in Pairs : pairs[q].cred # 0 /\ pairs[q].reg = pairs[p].reg => q = p
       /\ \A i \in Made : minted[i] = pairs[p].reg => phones[p].cred = pairs[p].cred

ClientInv == KeysOK /\ StateOK /\ PhonesOK /\ OneMint

LEMMA ClientsKept ==
  ASSUME ClientInv, UNCHANGED <<regs, pairs, minted, phones, state>>
  PROVE  (PhonesOK /\ OneMint)'
  BY DEF ClientInv, PhonesOK, OneMint, Made

(* A pair that goes takes nothing with it.                                   *)
LEMMA PairsGo ==
  ASSUME ClientInv, UNCHANGED <<regs, minted, phones, state>>,
         \A p \in Pairs : pairs'[p] = pairs[p] \/ pairs'[p].cred = 0
  PROVE  (PhonesOK /\ OneMint)'
<1>1. PhonesOK'
  BY DEF ClientInv, PhonesOK, Made
<1>2. OneMint'
  BY DEF ClientInv, OneMint, Made
<1> QED
  BY <1>1, <1>2

LEMMA ClientsOwner ==
  ASSUME ClientInv, OwnerCalls
  PROVE  (PhonesOK /\ OneMint)'
<1>1. CASE \/ \E k \in 0..2 : Unlock(k)
           \/ SetPinRefused
           \/ \E p \in Pairs : PairUnlock(p)
  BY <1>1, ClientsKept DEF Unlock, SetPinRefused, PairUnlock, keyvars, clientvars
<1>2. CASE \E k \in 0..6, setup \in BOOLEAN : SetPin(k, setup)
  <2>1. UNCHANGED <<regs, minted, phones, state>> /\ (pairs' = pairs \/ pairs' = NoPairs)
    BY <1>2 DEF SetPin, StorePin, clientvars
  <2> QED
    BY <2>1, PairsGo DEF NoPairs, NoPair
<1>3. CASE \E p \in Pairs, k \in 0..4 : PairRevoke(p, k)
  <2>1. PICK p \in Pairs : UNCHANGED <<regs, minted, phones, state>> /\
          (pairs' = pairs \/ pairs' = [pairs EXCEPT ![p] = NoPair])
    BY <1>3 DEF PairRevoke, clientvars
  <2>2. \A q \in Pairs : pairs'[q] = pairs[q] \/ pairs'[q].cred = 0
    BY <2>1 DEF NoPair, ClientInv, KeysOK
  <2> QED
    BY <2>1, <2>2, PairsGo
<1>4. CASE \E p \in Pairs, c \in Creds, k \in 0..1 : PairCreate(p, c, k)
  <2>1. PICK p \in Pairs, c \in Creds, k \in 0..1 : PairCreate(p, c, k)
    BY <1>4
  <2>2. UNCHANGED <<minted, phones, state>>
    BY <2>1 DEF PairCreate, clientvars
  <2>3. PhonesOK'
    BY <2>2 DEF ClientInv, PhonesOK, Made
  <2>4. CASE UNCHANGED <<pairs, regs>>
    BY <2>2, <2>4, ClientsKept
  <2>5. CASE /\ pairs' = [pairs EXCEPT ![p] = [cred |-> c, pin |-> auth.pin, reg |-> regs + 1]]
             /\ regs' = regs + 1
    <3>1. regs \in Nat
      BY DEF ClientInv, KeysOK
    <3>2. /\ pairs'[p] = [cred |-> c, pin |-> auth.pin, reg |-> regs + 1]
          /\ \A q \in Pairs : q # p => pairs'[q] = pairs[q]
      BY <2>5 DEF ClientInv, KeysOK
    <3>3. Made' = Made /\ \A i \in Made : minted[i] \in Nat
      BY <2>2 DEF ClientInv, PhonesOK, Made
    <3>4. ASSUME NEW q \in Pairs, pairs'[q].cred # 0
          PROVE  /\ pairs'[q].reg \in 1..regs'
                 /\ \A r \in Pairs : pairs'[r].cred # 0 /\ pairs'[r].reg = pairs'[q].reg => r = q
                 /\ \A i \in Made : minted[i] = pairs'[q].reg => phones[q].cred = pairs'[q].cred
      BY <2>5, <3>1, <3>2, <3>3, <3>4 DEF ClientInv, OneMint
    <3>5. \A i \in Made : minted[i] <= regs'
      BY <2>5, <3>1, <3>3 DEF ClientInv, OneMint
    <3> QED
      BY <2>2, <2>3, <3>3, <3>4, <3>5 DEF ClientInv, OneMint
  <2> QED
    BY <2>1, <2>4, <2>5 DEF PairCreate
<1>5. CASE \E k \in 0..10 : SetupReset(k)
  <2>1. PICK k \in 0..10 : SetupReset(k)
    BY <1>5
  <2>2. UNCHANGED <<regs, minted>>
    BY <2>1 DEF SetupReset
  <2>3. state' = state \/ (state'.clients = {} /\ state'.devices = {})
    BY <2>1 DEF SetupReset, NoState
  <2>4. phones' = phones \/ (k >= 9 /\ phones' = [p \in Pairs |-> NoPhone])
    BY <2>1 DEF SetupReset
  <2>5. pairs' = pairs \/ pairs' = NoPairs
    BY <2>1 DEF SetupReset
  <2>6. k >= 9 => pairs' = NoPairs
    BY <2>1 DEF SetupReset
  <2>7. PhonesOK'
    <3>1. /\ phones' \in [Pairs -> PhoneSet]
          /\ \A p \in Pairs : phones'[p] = phones[p] \/ phones'[p] = NoPhone
      <4>1. NoPhone \in PhoneSet
        BY DEF PhoneSet, NoPhone
      <4> QED
        BY <2>4, <4>1 DEF ClientInv, PhonesOK
    <3>2. NoPhone.device = 0 /\ NoPhone.client = 0 /\ Made' = Made
      BY <2>2 DEF NoPhone, Made
    <3> QED
      BY <2>2, <2>3, <3>1, <3>2 DEF ClientInv, PhonesOK
  <2>8. OneMint'
    BY <2>2, <2>4, <2>5, <2>6 DEF ClientInv, OneMint, Made, NoPairs, NoPair
  <2> QED
    BY <2>7, <2>8
<1> QED
  BY <1>1, <1>2, <1>3, <1>4, <1>5 DEF OwnerCalls

-----------------------------------------------------------------------------
(* phone_provision()                                                         *)
LEMMA KeptShape ==
  ASSUME ClientInv
  PROVE  /\ Kept \in [Pairs -> PhoneSet]
         /\ \A p \in Pairs : Kept[p] = phones[p] \/ Kept[p] = NoPhone
         /\ \A p \in Pairs : Current(p, phones[p].cred) => Kept[p] = phones[p]
         /\ \A p \in Pairs : Kept[p] # NoPhone => Kept[p] = phones[p] /\ Kept[p].cred = pairs[p].cred
  BY DEF Kept, ClientInv, PhonesOK, PhoneSet, NoPhone, Current

LEMMA Provisions ==
  ASSUME ClientInv, NEW p \in Pairs, NEW remote \in BOOLEAN, NEW k \in 0..3,
         PhoneProvision(p, remote, k)
  PROVE  (PhonesOK /\ OneMint)'
<1> DEFINE phone == Prepared(p, remote)
<1>1. UNCHANGED <<regs, pairs>> /\ pairs[p].cred # 0
  BY DEF PhoneProvision, PhoneSession, Current
<1>2. CASE k < 2
  BY <1>1, <1>2, ClientsKept DEF PhoneProvision, ProvisionWrites
<1>3. CASE k >= 2
  <2>1. /\ phones' = [Kept EXCEPT ![p] = phone]
        /\ state' = state \/ state' = Applied(phone)
        /\ minted' = IF Kept[p] = NoPhone THEN Append(minted, pairs[p].reg) ELSE minted
    BY <1>3 DEF PhoneProvision, ProvisionWrites
  <2>2. pairs[p].cred \in Nat /\ pairs[p].reg \in Nat /\ pairs[p].reg \in 1..regs /\ regs \in Nat
    BY <1>1 DEF ClientInv, KeysOK, OneMint
  <2>3. Len(minted) \in Nat /\ minted \in Seq(Nat)
    BY DEF ClientInv, PhonesOK
  <2>4. /\ minted' \in Seq(Nat) /\ Made \subseteq Made'
        /\ \A i \in Made : minted'[i] = minted[i]
        /\ \A i \in Made' : i \in Made \/ (Kept[p] = NoPhone /\ i = Len(minted) + 1 /\ minted'[i] = pairs[p].reg)
        /\ Kept[p] = NoPhone => Len(minted) + 1 \in Made'
    BY <2>1, <2>2, <2>3 DEF Made
  <2>5. /\ phone \in PhoneSet /\ phone.cred = pairs[p].cred
        /\ phone.device \in Made' \cup {0} /\ phone.client \in Made' \cup {0}
        /\ phone.client # 0 => phone.remote
    <3>1. CASE Kept[p] = NoPhone
      BY <2>2, <2>3, <2>4, <3>1 DEF Prepared, PhoneSet
    <3>2. CASE Kept[p] # NoPhone
      BY <2>4, <3>2, KeptShape DEF Prepared, ClientInv, PhonesOK
    <3> QED
      BY <3>1, <3>2
  <2> HIDE DEF phone
  <2>6. /\ phones' \in [Pairs -> PhoneSet]
        /\ phones'[p] = phone /\ \A q \in Pairs : q # p => phones'[q] = Kept[q]
    BY <2>1, <2>5, KeptShape
  <2>7. PhonesOK'
    <3>1. \A q \in Pairs :
            /\ phones'[q].device \in Made' \cup {0} /\ phones'[q].client \in Made' \cup {0}
            /\ phones'[q].client # 0 => phones'[q].remote
      <4>1. \A q \in Pairs : q # p => phones'[q] = phones[q] \/ phones'[q] = NoPhone
        BY <2>6, KeptShape
      <4>2. NoPhone.device = 0 /\ NoPhone.client = 0
        BY DEF NoPhone
      <4> QED
        BY <2>4, <2>5, <2>6, <4>1, <4>2 DEF ClientInv, PhonesOK
    <3>2. state'.clients \subseteq Made' /\ state'.devices \subseteq Made'
      <4>1. CASE state' = state
        BY <2>4, <4>1 DEF ClientInv, PhonesOK
      <4>2. CASE state' = Applied(phone)
        <5>1. /\ state'.devices = Add(state.devices, phone.device)
              /\ state'.clients = Add(state.clients, phone.client)
          BY <4>2 DEF Applied, ClientInv, StateOK
        <5> QED
          BY <2>4, <2>5, <5>1 DEF Add, ClientInv, PhonesOK
      <4> QED
        BY <2>1, <4>1, <4>2
    <3> QED
      BY <2>4, <2>6, <3>1, <3>2 DEF PhonesOK
  <2>8. Kept[p] = NoPhone => \A i \in Made : minted[i] # pairs[p].reg
    <3>1. \A i \in Made : minted[i] = pairs[p].reg => Current(p, phones[p].cred)
      BY <1>1 DEF ClientInv, OneMint, Current
    <3>2. Current(p, phones[p].cred) => Kept[p] # NoPhone
      BY KeptShape DEF NoPhone, Current
    <3> QED
      BY <3>1, <3>2
  <2>9. OneMint'
    <3>1. \A i, j \in Made' : minted'[i] = minted'[j] /\ minted'[i] # 0 => i = j
      BY <2>4, <2>8 DEF ClientInv, OneMint
    <3>2. \A i \in Made' : minted'[i] <= regs
      BY <2>2, <2>4 DEF ClientInv, OneMint
    <3>3. ASSUME NEW q \in Pairs, pairs[q].cred # 0, NEW i \in Made', minted'[i] = pairs[q].reg
          PROVE  phones'[q].cred = pairs[q].cred
      <4>1. CASE q = p
        BY <2>5, <2>6, <4>1
      <4>2. CASE q # p
        <5>1. i \in Made
          BY <1>1, <2>4, <3>3, <4>2 DEF ClientInv, OneMint
        <5>2. Current(q, phones[q].cred)
          BY <2>4, <3>3, <5>1 DEF ClientInv, OneMint, Current
        <5> QED
          BY <2>6, <4>2, <5>2, KeptShape DEF Current
      <4> QED
        BY <4>1, <4>2
    <3> QED
      BY <1>1, <3>1, <3>2, <3>3 DEF ClientInv, OneMint
  <2> QED
    BY <2>7, <2>9
<1> QED
  BY <1>2, <1>3

-----------------------------------------------------------------------------
(* save_client(), delete_client() and all others                             *)
LEMMA ClientSaved ==
  ASSUME ClientInv, NEW k \in 0..1, SaveClient(k)
  PROVE  (PhonesOK /\ OneMint)'
<1>1. UNCHANGED <<regs, pairs, phones>>
  BY DEF SaveClient
<1>2. CASE k # 1
  BY <1>1, <1>2, ClientsKept DEF SaveClient
<1>3. CASE k = 1
  <2>1. minted' = Append(minted, 0) /\ Len(minted) \in Nat /\ minted \in Seq(Nat)
    BY <1>3 DEF SaveClient, ClientInv, PhonesOK
  <2>2. /\ state'.devices = state.devices
        /\ state'.clients = state.clients \cup {Len(minted) + 1}
    BY <1>3, <2>1 DEF SaveClient, Add, ClientInv, StateOK
  <2>3. /\ minted' \in Seq(Nat) /\ Made' = Made \cup {Len(minted) + 1}
        /\ \A i \in Made : minted'[i] = minted[i]
        /\ minted'[Len(minted) + 1] = 0
    BY <2>1 DEF Made
  <2>4. PhonesOK'
    BY <1>1, <2>2, <2>3 DEF ClientInv, PhonesOK
  <2>5. OneMint'
    BY <1>1, <2>3 DEF ClientInv, OneMint, KeysOK
  <2> QED
    BY <2>4, <2>5
<1> QED
  BY <1>2, <1>3

LEMMA TombstoneShape ==
  ASSUME ClientInv, NEW c
  PROVE  /\ Tombstone(c) \in [Pairs -> PhoneSet]
         /\ \A p \in Pairs :
              /\ Tombstone(c)[p].cred = phones[p].cred /\ Tombstone(c)[p].device = phones[p].device
              /\ Tombstone(c)[p].client = phones[p].client /\ Tombstone(c)[p].remote = phones[p].remote
              /\ phones[p].revoked \/ phones[p].client = c => Tombstone(c)[p].revoked
<1>1. DOMAIN phones = Pairs /\ \A p \in Pairs : phones[p] \in PhoneSet
  BY DEF ClientInv, PhonesOK
<1>2. ASSUME NEW f \in PhoneSet
      PROVE  LET g == [f EXCEPT !.revoked = TRUE] IN
             /\ g \in PhoneSet /\ g.revoked
             /\ g.cred = f.cred /\ g.device = f.device /\ g.client = f.client /\ g.remote = f.remote
  BY DEF PhoneSet
<1>3. \A p \in Pairs : Tombstone(c)[p] =
        IF phones[p].client = c THEN [phones[p] EXCEPT !.revoked = TRUE] ELSE phones[p]
  BY <1>1 DEF Tombstone
<1>4. ASSUME NEW p \in Pairs PROVE Tombstone(c)[p] \in PhoneSet
  <2>1. [phones[p] EXCEPT !.revoked = TRUE] \in PhoneSet /\ phones[p] \in PhoneSet
    BY <1>1, <1>2
  <2> QED BY <1>3, <2>1
<1>5. Tombstone(c) \in [Pairs -> PhoneSet]
  BY <1>1, <1>4 DEF Tombstone
<1>6. ASSUME NEW p \in Pairs
      PROVE  /\ Tombstone(c)[p].cred = phones[p].cred /\ Tombstone(c)[p].device = phones[p].device
             /\ Tombstone(c)[p].client = phones[p].client /\ Tombstone(c)[p].remote = phones[p].remote
             /\ phones[p].revoked \/ phones[p].client = c => Tombstone(c)[p].revoked
  <2>1. CASE phones[p].client = c
    BY <1>1, <1>2, <1>3, <2>1
  <2>2. CASE phones[p].client # c
    BY <1>3, <2>2
  <2> QED BY <2>1, <2>2
<1> QED
  BY <1>5, <1>6

LEMMA ClientDeleted ==
  ASSUME ClientInv, NEW c \in state.clients, NEW k \in 0..4, DeleteClient(c, k)
  PROVE  (PhonesOK /\ OneMint)'
<1>1. UNCHANGED <<regs, pairs, minted>> /\ (phones' = phones \/ phones' = Tombstone(c))
  BY DEF DeleteClient
<1>2. state'.clients \subseteq state.clients /\ state'.devices = state.devices
  BY DEF DeleteClient, ClientInv, StateOK
<1>3. /\ phones' \in [Pairs -> PhoneSet]
      /\ \A p \in Pairs :
           /\ phones'[p].cred = phones[p].cred /\ phones'[p].device = phones[p].device
           /\ phones'[p].client = phones[p].client /\ phones'[p].remote = phones[p].remote
  BY <1>1, TombstoneShape DEF ClientInv, PhonesOK
<1>4. PhonesOK'
  BY <1>1, <1>2, <1>3 DEF ClientInv, PhonesOK, Made
<1>5. OneMint'
  BY <1>1, <1>3 DEF ClientInv, OneMint, Made
<1> QED
  BY <1>4, <1>5

LEMMA ClientsStep ==
  ASSUME ClientInv, [ANext]_vars
  PROVE  (PhonesOK /\ OneMint)'
<1>1. CASE OwnerCalls
  BY <1>1, ClientsOwner
<1>2. CASE ClientCalls
  <2>1. CASE ForceStarts \/ ForceEnds \/ Publisher \/ PublisherDies \/ ServerTurn \/ Midnight
    BY <2>1, ClientsKept DEF ForceStarts, ForceEnds, Publisher, PublisherDies, ServerTurn, Midnight,
       RouterOnly, keyvars, clientvars
  <2> QED
    BY <1>2, <2>1, Provisions, ClientSaved, ClientDeleted DEF ClientCalls
<1>3. CASE KeyCalls
  BY <1>3, ClientsKept DEF KeyCalls, Guess, SessionEnds, Enroll, FactoryPinLapses, clientvars
<1>4. CASE LeaseCalls
  BY <1>4, ClientsKept DEF LeaseCalls, Asking, Ask, PhoneHandoff, LanTurn, LanChanges, PhoneStatus, Forgetting, CacheLapses, keyvars, netvars, clientvars
<1>5. CASE Tick \/ RpcdDies \/ Reboot \/ UNCHANGED vars
  BY <1>5, ClientsKept DEF Tick, HandoffTick, RpcdDies, Reboot, vars, keyvars, clientvars
<1> QED
  BY <1>1, <1>2, <1>3, <1>4, <1>5 DEF ANext

LEMMA ClientsInit ==
  ASSUME AInit
  PROVE  PhonesOK /\ OneMint
<1>1. NoPhone \in PhoneSet /\ NoPhone.device = 0 /\ NoPhone.client = 0 /\ NoPhone.cred = 0
  BY DEF NoPhone, PhoneSet
<1>2. CASE FactoryInit
  BY <1>1, <1>2 DEF FactoryInit, NoPairs, NoPair, NoState, PhonesOK, OneMint, Made
<1>3. CASE PanelInit
  <2>1. /\ minted = <<0>> /\ phones = [p \in Pairs |-> NoPhone] /\ pairs = NoPairs /\ regs = 0
        /\ state.clients = {1} /\ state.devices = {}
    BY <1>3 DEF PanelInit, NoState
  <2>2. minted \in Seq(Nat) /\ Made = {1} /\ minted[1] = 0
    BY <2>1 DEF Made
  <2> QED
    BY <1>1, <2>1, <2>2 DEF PhonesOK, OneMint, NoPairs, NoPair
<1>4. CASE PhoneInit
  <2>1. PICK p \in Pairs, c \in Creds, ids \in SUBSET {1} :
          /\ pairs = [NoPairs EXCEPT ![p] = [cred |-> c, pin |-> 1, reg |-> 1]]
          /\ phones = [q \in Pairs |-> IF q # p \/ ids = {} THEN NoPhone ELSE
               [cred |-> c, remote |-> TRUE, device |-> 1, client |-> 1, revoked |-> FALSE]]
          /\ minted = IF ids = {} THEN <<>> ELSE <<1>>
          /\ state = [NoState EXCEPT !.devices = ids, !.clients = ids]
    BY <1>4 DEF PhoneInit
  <2>2. regs = 1 /\ c \in Nat
    BY <1>4, HandoffAssumption DEF PhoneInit
  <2>3. /\ pairs[p].cred = c /\ pairs[p].reg = 1
        /\ \A q \in Pairs : q # p => pairs[q].cred = 0
    BY <2>1 DEF NoPairs, NoPair
  <2>4. state.clients = ids /\ state.devices = ids
    BY <2>1 DEF NoState
  <2>5. CASE ids = {}
    <3>1. minted = <<>> /\ Made = {} /\ phones = [q \in Pairs |-> NoPhone]
      BY <2>1, <2>5 DEF Made
    <3> QED
      BY <1>1, <2>2, <2>3, <2>4, <2>5, <3>1 DEF PhonesOK, OneMint
  <2>6. CASE ids = {1}
    <3>1. minted = <<1>> /\ minted \in Seq(Nat) /\ Made = {1} /\ minted[1] = 1
      BY <2>1, <2>6 DEF Made
    <3>2. /\ phones[p] = [cred |-> c, remote |-> TRUE, device |-> 1, client |-> 1, revoked |-> FALSE]
          /\ \A q \in Pairs : q # p => phones[q] = NoPhone
          /\ phones \in [Pairs -> PhoneSet]
      BY <1>1, <2>1, <2>2, <2>6 DEF PhoneSet
    <3> QED
      BY <1>1, <2>2, <2>3, <2>4, <2>6, <3>1, <3>2 DEF PhonesOK, OneMint
  <2> QED
    BY <2>5, <2>6
<1> QED
  BY <1>2, <1>3, <1>4 DEF AInit, InUseInit

LEMMA ClientInvInit ==
  ASSUME AInit
  PROVE  PinInv /\ ClientInv
  BY PinInit0, EmptyInit, ClientsInit DEF EmptyInv, Shapes, PinInv, ClientInv

LEMMA ClientInvStep ==
  ASSUME PinInv, ClientInv, [ANext]_vars
  PROVE  (PinInv /\ ClientInv)'
  BY PinStep, StateStep, ClientsStep DEF PinInv, ClientInv

(* However often a phone asks again and whichever write was the last, each   *)
(* registration of a phone has one id, and so one client and one device.     *)
THEOREM OneIdPerRegistration == ASpec => []OneClientPerPhone
<1>1. AInit => PinInv /\ ClientInv
  BY ClientInvInit
<1>2. PinInv /\ ClientInv /\ [ANext]_vars => (PinInv /\ ClientInv)'
  BY ClientInvStep
<1>3. ClientInv => OneClientPerPhone
  BY DEF ClientInv, PhonesOK, OneMint, OneClientPerPhone
<1> QED
  BY <1>1, <1>2, <1>3, PTL DEF ASpec

-----------------------------------------------------------------------------
(* A deletion that was acknowledged: a phone that was made the client knows  *)
(* of it, so no retry may bring it back.                                     *)
GoneOK ==
  /\ gone = [acked |-> gone.acked, asked |-> gone.asked]
  /\ gone.asked \subseteq gone.acked /\ gone.acked \subseteq Made
  /\ gone.acked \cap state.clients = {}
  /\ \A p \in Pairs : phones[p].client \in gone.acked => phones[p].revoked

(* A publisher goes by the state it has read.  A shared listener that procd  *)
(* keeps was given no user that is gone, and one of its own is forgotten;    *)
(* without a listener that procd keeps it serves nobody, so that there is    *)
(* nothing to look at when a deletion is repeated.                           *)
ServedOK ==
  /\ pub.pc # "idle" => pub.sig.clients = pub.state.clients
  /\ gone.asked \cap served = {}
  /\ IF Shared THEN inst # {} => gone.asked \cap files.users = {}
     ELSE gone.asked \cap inst = {}
  /\ IF Shared THEN inst = {} => served = {} ELSE served \subseteq inst
  /\ files.ours => files.via = files.gen.via /\ files.listed = files.gen.clients

LEMMA GoneKept ==
  ASSUME ClientInv, GoneOK, UNCHANGED <<minted, phones, state, gone>>
  PROVE  GoneOK'
  BY DEF GoneOK, Made

LEMMA GoneReset ==
  ASSUME ClientInv, GoneOK, NEW k \in 0..10, SetupReset(k)
  PROVE  GoneOK'
<1>1. /\ UNCHANGED <<minted, gone>>
      /\ state' = state \/ state'.clients = {}
      /\ phones' = phones \/ phones' = [p \in Pairs |-> NoPhone]
  BY DEF SetupReset, NoState
<1>2. NoPhone.client = 0 /\ 0 \notin Made
  BY DEF NoPhone, Made
<1>3. \A p \in Pairs : phones'[p] = phones[p] \/ phones'[p] = NoPhone
  BY <1>1
<1>4. Made' = Made
  BY <1>1 DEF Made
<1> QED
  BY <1>1, <1>2, <1>3, <1>4 DEF GoneOK

LEMMA GoneProvision ==
  ASSUME ClientInv, GoneOK, NEW p \in Pairs, NEW remote \in BOOLEAN, NEW k \in 0..3,
         PhoneProvision(p, remote, k)
  PROVE  GoneOK'
<1> DEFINE phone == Prepared(p, remote)
<1>1. gone' = gone /\ MayProvision(p, remote)
  BY DEF PhoneProvision
<1>2. CASE k < 2
  BY <1>1, <1>2, GoneKept DEF PhoneProvision, ProvisionWrites
<1>3. CASE k >= 2
  <2>1. /\ phones' = [Kept EXCEPT ![p] = phone]
        /\ state' = state \/ state' = Applied(phone)
        /\ minted' = IF Kept[p] = NoPhone THEN Append(minted, pairs[p].reg) ELSE minted
    BY <1>3 DEF PhoneProvision, ProvisionWrites
  <2>2. Len(minted) \in Nat /\ minted \in Seq(Nat)
    BY DEF ClientInv, PhonesOK
  <2>3. Made \subseteq Made' /\ 0 \notin Made /\ Len(minted) + 1 \notin Made
    BY <2>1, <2>2 DEF Made
  <2>4. phone.client \notin gone.acked
    <3>1. CASE Kept[p] = NoPhone
      BY <2>3, <3>1 DEF Prepared, GoneOK
    <3>2. CASE Kept[p] # NoPhone
      <4>1. phone = phones[p] /\ Kept[p] = phones[p]
        BY <3>2, KeptShape DEF Prepared
      <4>2. phones[p].remote = remote /\ ~(remote /\ phones[p].revoked)
        BY <1>1, <3>2, <4>1 DEF MayProvision
      <4>3. phones[p].client # 0 => phones[p].remote
        BY DEF ClientInv, PhonesOK
      <4>4. phones[p].client \in gone.acked => phones[p].revoked /\ phones[p].client # 0
        BY <2>3 DEF GoneOK
      <4> HIDE DEF phone
      <4> QED
        BY <4>1, <4>2, <4>3, <4>4
    <3> QED
      BY <3>1, <3>2
  <2> HIDE DEF phone
  <2>5. /\ phones'[p] = phone
        /\ \A q \in Pairs : q # p => phones'[q] = phones[q] \/ phones'[q] = NoPhone
    BY <2>1, KeptShape
  <2>6. \A q \in Pairs : phones'[q].client \in gone.acked => phones'[q].revoked
    <3>1. NoPhone.client \notin gone.acked
      BY <2>3 DEF NoPhone, GoneOK
    <3> QED
      BY <2>4, <2>5, <3>1 DEF GoneOK
  <2>7. gone.acked \cap state'.clients = {}
    <3>1. CASE state' = state
      BY <3>1 DEF GoneOK
    <3>2. CASE state' = Applied(phone)
      <4>1. state'.clients = Add(state.clients, phone.client)
        BY <3>2 DEF Applied, ClientInv, StateOK
      <4> QED
        BY <2>4, <4>1 DEF Add, GoneOK
    <3> QED
      BY <2>1, <3>1, <3>2
  <2> QED
    BY <1>1, <2>3, <2>6, <2>7 DEF GoneOK
<1> QED
  BY <1>2, <1>3

LEMMA GoneSaved ==
  ASSUME ClientInv, GoneOK, NEW k \in 0..1, SaveClient(k)
  PROVE  GoneOK'
<1>1. UNCHANGED <<phones, gone>>
  BY DEF SaveClient
<1>2. CASE k # 1
  BY <1>1, <1>2, GoneKept DEF SaveClient
<1>3. CASE k = 1
  <2>1. minted' = Append(minted, 0) /\ Len(minted) \in Nat /\ minted \in Seq(Nat)
    BY <1>3 DEF SaveClient, ClientInv, PhonesOK
  <2>2. Made \subseteq Made' /\ Len(minted) + 1 \notin Made
    BY <2>1 DEF Made
  <2>3. state'.clients = state.clients \cup {Len(minted) + 1}
    BY <1>3, <2>1 DEF SaveClient, Add, ClientInv, StateOK
  <2> QED
    BY <1>1, <2>2, <2>3 DEF GoneOK
<1> QED
  BY <1>2, <1>3

LEMMA GoneDeleted ==
  ASSUME ClientInv, GoneOK, NEW c \in state.clients, NEW k \in 0..4, DeleteClient(c, k)
  PROVE  GoneOK'
<1>1. Made' = Made /\ c \in Made
  BY DEF DeleteClient, ClientInv, PhonesOK, Made
<1>2. \A p \in Pairs :
        /\ phones'[p].client = phones[p].client
        /\ phones[p].revoked => phones'[p].revoked
        /\ k = 4 /\ phones[p].client = c => phones'[p].revoked
  <2>1. IF k >= 3 THEN phones' = Tombstone(c) ELSE phones' = phones
    BY DEF DeleteClient
  <2> QED
    BY <2>1, TombstoneShape
<1>3. CASE k = 4
  <2>1. gone' = [acked |-> gone.acked \cup {c},
                 asked |-> IF base THEN gone.asked \cup {c} ELSE gone.asked]
    BY <1>3 DEF DeleteClient
  <2>2. state'.clients = state.clients \ {c}
    BY <1>3 DEF DeleteClient, ClientInv, StateOK
  <2> QED
    BY <1>1, <1>2, <1>3, <2>1, <2>2 DEF GoneOK
<1>4. CASE k # 4
  <2>1. gone' = gone /\ state' = state
    BY <1>4 DEF DeleteClient
  <2> QED
    BY <1>1, <1>2, <2>1 DEF GoneOK
<1> QED
  BY <1>3, <1>4

LEMMA GoneStep ==
  ASSUME ClientInv, GoneOK, [ANext]_vars
  PROVE  GoneOK'
<1>1. CASE OwnerCalls
  <2>1. CASE \E k \in 0..10 : SetupReset(k)
    BY <2>1, GoneReset
  <2>2. CASE \/ \E k \in 0..2 : Unlock(k)
             \/ \E k \in 0..6, setup \in BOOLEAN : SetPin(k, setup)
             \/ SetPinRefused
             \/ \E p \in Pairs, c \in Creds, k \in 0..1 : PairCreate(p, c, k)
             \/ \E p \in Pairs : PairUnlock(p)
             \/ \E p \in Pairs, k \in 0..4 : PairRevoke(p, k)
    BY <2>2, GoneKept DEF Unlock, SetPin, SetPinRefused, PairCreate, PairUnlock, PairRevoke, clientvars
  <2> QED
    BY <1>1, <2>1, <2>2 DEF OwnerCalls
<1>2. CASE ClientCalls
  <2>1. CASE ForceStarts \/ ForceEnds \/ Publisher \/ PublisherDies \/ ServerTurn \/ Midnight
    BY <2>1, GoneKept DEF ForceStarts, ForceEnds, Publisher, PublisherDies, ServerTurn, Midnight,
       RouterOnly, clientvars
  <2> QED
    BY <1>2, <2>1, GoneProvision, GoneSaved, GoneDeleted DEF ClientCalls
<1>3. CASE KeyCalls \/ LeaseCalls
  BY <1>3, GoneKept DEF KeyCalls, Guess, SessionEnds, Enroll, FactoryPinLapses, LeaseCalls, Asking,
     PhoneHandoff, PhoneStatus, Forgetting, LanTurn, clientvars
<1>4. CASE Tick \/ RpcdDies \/ Reboot \/ UNCHANGED vars
  BY <1>4, GoneKept DEF Tick, RpcdDies, Reboot, vars, clientvars
<1> QED
  BY <1>1, <1>2, <1>3, <1>4 DEF ANext

-----------------------------------------------------------------------------
(* What is served                                                            *)
LEMMA ServedKept ==
  ASSUME ServedOK, UNCHANGED <<pub, files, servers>>, gone'.asked = gone.asked
  PROVE  ServedOK'
  BY DEF ServedOK, servers

LEMMA ServedSlept ==
  ASSUME ServedOK, pub' = Slept, UNCHANGED <<files, servers, gone>>
  PROVE  ServedOK'
  BY SleptShape DEF ServedOK, servers

LEMMA ServedPublish ==
  ASSUME GoneOK, PubOK, ServedOK, NEW k \in 1..5, PubPublish(k), gone' = gone
  PROVE  ServedOK'
<1>1. pub.sig.clients = state.clients /\ gone.asked \cap state.clients = {}
  BY DEF PubPublish, PubCurrent, ServedOK, GoneOK
<1>2. /\ files'.users = state.clients
      /\ files'.ours => k = 5
      /\ k = 5 => files'.via = files'.gen.via /\ files'.listed = files'.gen.clients
  <2>1. /\ files'.users = IF k >= 1 THEN pub.sig.clients ELSE files.users
        /\ files'.via = IF k >= 1 THEN pub.sig.via ELSE files.via
        /\ files'.listed = IF k >= 2 THEN pub.sig.clients ELSE files.listed
        /\ files'.gen = IF k >= 4 THEN pub.sig ELSE files.gen
    BY DEF PubPublish
  <2>2. files'.ours = IF k = 0 THEN files.ours ELSE k = 5
    BY DEF PubPublish
  <2>3. files'.ours => k = 5
    <3>1. k # 0
      OBVIOUS
    <3> QED
      BY <2>2, <3>1, Zenon
  <2> QED
    BY <1>1, <2>1, <2>3
<1>3. \/ inst' = state.clients /\ served' = state.clients
      \/ UNCHANGED <<inst, served>>
  BY <1>1 DEF PubPublish, servers
<1>4. pub'.pc = "idle"
  BY SleptShape DEF PubPublish
<1> QED
  BY <1>1, <1>2, <1>3, <1>4 DEF ServedOK

LEMMA ServedByServer ==
  ASSUME GoneOK, PubOK, ServedOK,
         ForceStarts \/ ForceEnds \/ Publisher \/ PublisherDies \/ ServerTurn \/ Midnight
  PROVE  ServedOK'
<1>1. gone' = gone
  BY DEF ForceStarts, ForceEnds, Publisher, PublisherDies, ServerTurn, Midnight, RouterOnly, clientvars
<1>2. ASSUME NEW force, PubBegin(force)
      PROVE  ServedOK'
  <2>1. pub' = [pc |-> "read", force |-> force, state |-> state, sig |-> Signature]
        /\ UNCHANGED <<files, served, inst>>
    BY <1>2 DEF PubBegin, servers
  <2>2. Signature.clients = state.clients
    BY DEF Signature
  <2> QED
    BY <1>1, <2>1, <2>2 DEF ServedOK
<1>3. CASE PubEnds \/ PubFast \/ PubStale
  BY <1>1, <1>3, ServedSlept DEF PubEnds, PubFast, PubStale
<1>4. CASE PubPrepare
  <2>1. pub' = [pub EXCEPT !.pc = "ready"] /\ pub.pc = "read" /\ UNCHANGED <<files, served, inst>>
    BY <1>4 DEF PubPrepare, servers
  <2>2. pub'.sig = pub.sig /\ pub'.state = pub.state
    BY <2>1 DEF PubOK
  <2> QED
    BY <1>1, <2>1, <2>2 DEF ServedOK
<1>5. CASE UNCHANGED <<pub, files, servers>>
  BY <1>1, <1>5, ServedKept
<1>6. CASE ForceStarts
  BY <1>2, <1>5, <1>6 DEF ForceStarts, pubvars, servers
<1>7. CASE Publisher
  <2>1. PubBegin(FALSE) \/ PubFast \/ PubPrepare \/ PubStale \/ PubPublish(5)
    BY <1>7 DEF Publisher, PublisherStep
  <2>2. 5 \in 1..5
    OBVIOUS
  <2>3. CASE PubPublish(5)
    BY <1>1, <2>2, <2>3, ServedPublish
  <2> QED
    BY <1>2, <1>3, <1>4, <2>1, <2>3
<1>8. CASE PublisherDies
  <2>1. PubEnds \/ \E k \in 1..4 : PubPublish(k)
    BY <1>8 DEF PublisherDies
  <2>2. CASE \E k \in 1..4 : PubPublish(k)
    <3>1. PICK k \in 1..4 : PubPublish(k)
      BY <2>2
    <3>2. k \in 1..5
      OBVIOUS
    <3> QED
      BY <1>1, <3>1, <3>2, ServedPublish
  <2> QED
    BY <1>3, <2>1, <2>2
<1>9. CASE ServerTurn
  <2>1. CASE Respawn
    <3>1. /\ UNCHANGED <<pub, files, inst>>
          /\ served' = IF ~Shared THEN inst \cap files.users
                       ELSE IF inst = {} THEN {} ELSE files.users
      BY <2>1 DEF Respawn
    <3> QED
      BY <1>1, <3>1 DEF ServedOK
  <2>2. CASE TunnelFlips
    BY <1>5, <2>2 DEF TunnelFlips
  <2>3. CASE ListenerEnds
    BY <1>1, <2>3 DEF ListenerEnds, ServedOK
  <2> QED
    BY <1>9, <2>1, <2>2, <2>3 DEF ServerTurn
<1>10. CASE ForceEnds \/ Midnight
  BY <1>5, <1>10 DEF ForceEnds, Midnight, DayPasses, pubvars, servers
<1> QED
  BY <1>6, <1>7, <1>8, <1>9, <1>10

LEMMA ServedDeleted ==
  ASSUME GoneOK, ServedOK, NEW c, NEW k \in 0..4, DeleteClient(c, k)
  PROVE  ServedOK'
<1>1. UNCHANGED <<pub, files>>
  BY DEF DeleteClient
<1>2. CASE ~base \/ k = 0
  <2>1. UNCHANGED servers /\ gone'.asked = gone.asked
    BY <1>2 DEF DeleteClient
  <2> QED
    BY <1>1, <2>1, ServedKept
<1>3. CASE base /\ k # 0
  <2>1. gone'.asked \subseteq gone.asked \cup {c} /\ Revoked(c, k >= 2)
    BY <1>3 DEF DeleteClient
  <2>2. inst' = Left(c) /\ (served' = served \cap Left(c) \/ (served' = served /\ inst = Left(c)))
    BY <2>1 DEF Revoked, servers
  <2>3. CASE Shared
    <3>1. Left(c) = {}
      BY <2>3 DEF Left
    <3>2. inst' = {} /\ served' = {}
      BY <2>2, <2>3, <3>1 DEF ServedOK
    <3> QED
      BY <1>1, <2>3, <3>2 DEF ServedOK
  <2>4. CASE ~Shared
    <3>1. Left(c) = inst \ {c}
      BY <2>4 DEF Left
    <3>2. inst' \subseteq inst \ {c} /\ served' \subseteq inst' /\ served' \subseteq served
      BY <2>2, <2>4, <3>1 DEF ServedOK
    <3>3. gone'.asked \cap inst' = {} /\ gone'.asked \cap served' = {}
      BY <2>1, <2>4, <3>2 DEF ServedOK
    <3> QED
      BY <1>1, <2>4, <3>2, <3>3 DEF ServedOK
  <2> QED
    BY <2>3, <2>4
<1> QED
  BY <1>2, <1>3

LEMMA ServedStep ==
  ASSUME GoneOK, PubOK, ServedOK, [ANext]_vars
  PROVE  ServedOK'
<1>1. CASE OwnerCalls
  <2>1. CASE \E k \in 0..10 : SetupReset(k)
    <3>1. /\ UNCHANGED <<pub, files, gone>>
          /\ UNCHANGED <<served, inst>> \/ (served' = {} /\ inst' = {})
      BY <2>1 DEF SetupReset, StopInbound, servers
    <3> QED
      BY <3>1 DEF ServedOK
  <2>2. CASE \/ \E k \in 0..2 : Unlock(k)
             \/ \E k \in 0..6, setup \in BOOLEAN : SetPin(k, setup)
             \/ SetPinRefused
             \/ \E p \in Pairs, c \in Creds, k \in 0..1 : PairCreate(p, c, k)
             \/ \E p \in Pairs : PairUnlock(p)
             \/ \E p \in Pairs, k \in 0..4 : PairRevoke(p, k)
    BY <2>2, ServedKept DEF Unlock, SetPin, SetPinRefused, PairCreate, PairUnlock, PairRevoke,
       clientvars, pubvars, servers
  <2> QED
    BY <1>1, <2>1, <2>2 DEF OwnerCalls
<1>2. CASE ClientCalls
  <2>1. CASE \/ \E p \in Pairs, remote \in BOOLEAN, k \in 0..3 : PhoneProvision(p, remote, k)
             \/ \E k \in 0..1 : SaveClient(k)
    BY <2>1, ServedKept DEF PhoneProvision, SaveClient, pubvars, servers
  <2> QED
    BY <1>2, <2>1, ServedByServer, ServedDeleted DEF ClientCalls
<1>3. CASE KeyCalls \/ LeaseCalls
  BY <1>3, ServedKept DEF KeyCalls, Guess, SessionEnds, Enroll, FactoryPinLapses, LeaseCalls, Asking,
     PhoneHandoff, PhoneStatus, Forgetting, LanTurn, clientvars, pubvars, servers
<1>4. CASE Reboot
  <2>1. /\ pub' = Asleep /\ files' = NoFiles /\ served' = {} /\ inst' = {}
    BY <1>4 DEF Reboot
  <2> QED
    BY <2>1 DEF Asleep, NoFiles, ServedOK
<1>5. CASE Tick \/ RpcdDies \/ UNCHANGED vars
  BY <1>5, ServedKept DEF Tick, RpcdDies, vars, clientvars, pubvars, servers
<1> QED
  BY <1>1, <1>2, <1>3, <1>4, <1>5 DEF ANext

DeletedInv == ClientInv /\ PubOK /\ GoneOK /\ ServedOK

LEMMA DeletedInit ==
  ASSUME AInit
  PROVE  PinInv /\ DeletedInv
<1>1. PinInv /\ ClientInv /\ PubOK
  BY ClientInvInit, EmptyInit DEF EmptyInv, Shapes
<1>2. GoneOK
  BY DEF AInit, GoneOK
<1>3. ServedOK
  BY DEF AInit, PublisherInit, Asleep, NoFiles, ServedOK
<1> QED
  BY <1>1, <1>2, <1>3 DEF DeletedInv

LEMMA DeletedStep ==
  ASSUME PinInv, DeletedInv, [ANext]_vars
  PROVE  (PinInv /\ DeletedInv)'
<1>1. StateOK
  BY DEF DeletedInv, ClientInv
<1> QED
  BY <1>1, ClientInvStep, PubStep, GoneStep, ServedStep DEF DeletedInv

(* A deletion that was answered is for good, however often it was cut and    *)
(* repeated: the phone's record says that its client was revoked before the  *)
(* client is dropped, a publication that began before is not published, and  *)
(* what procd does not keep it does not start again.  (Not so of a process   *)
(* that procd was told to end: it may live on after the answer.)             *)
THEOREM DeletionIsForGood == ASpec => []DeletedStaysDeleted
<1>1. AInit => PinInv /\ DeletedInv
  BY DeletedInit
<1>2. PinInv /\ DeletedInv /\ [ANext]_vars => (PinInv /\ DeletedInv)'
  BY DeletedStep
<1>3. DeletedInv => DeletedStaysDeleted
  BY DEF DeletedInv, GoneOK, ServedOK, DeletedStaysDeleted
<1> QED
  BY <1>1, <1>2, <1>3, PTL DEF ASpec

(* A publisher that finds nothing to do may rely on it, however many         *)
(* publications were cut: the mark that the files are its own is taken away  *)
(* with the first write and comes back with the last.                        *)
THEOREM NothingToDoIsProved == ASpec => []NothingToDoIsTrue
<1>1. AInit => PinInv /\ DeletedInv
  BY DeletedInit
<1>2. PinInv /\ DeletedInv /\ [ANext]_vars => (PinInv /\ DeletedInv)'
  BY DeletedStep
<1>3. DeletedInv => NothingToDoIsTrue
  BY DEF DeletedInv, ServedOK, Rebinds, NothingToDoIsTrue
<1> QED
  BY <1>1, <1>2, <1>3, PTL DEF ASpec

=============================================================================
