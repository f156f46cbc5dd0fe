---------------------------- MODULE AccessProofs ----------------------------
(* What Access promises for every number of pairs, PINs, cuts and clients.   *)
EXTENDS Access, TLAPS

-----------------------------------------------------------------------------
(* The PIN policy, for every limit and every length of the waits             *)

(* After n whole batches of wrong guesses, of which the last one's wait may  *)
(* not be over yet, and some failures more.                                  *)
Waits(n) == IF n = 0 THEN 0 ELSE ShortBlock + (n - 1) * LongBlock
Batches(n) ==
  /\ tally.wrong = n * PinLimit + policy.failures
  /\ policy.tier = IF n < 2 THEN n ELSE 2
  /\ policy.blocked > 0 => policy.failures = 0 /\ n > 0
  /\ policy.blocked <= IF n = 1 THEN ShortBlock ELSE LongBlock
  /\ tally.ticks + policy.blocked >= Waits(n)

SlowInv ==
  /\ policy \in [failures : 0..(PinLimit - 1), tier : 0..2, blocked : Nat]
  /\ tally \in [wrong : 0..MaxGuesses, ticks : Nat]
  /\ \E n \in Nat : Batches(n)

LEMMA Product ==
  ASSUME NEW m \in Nat, NEW n \in Nat, m <= n, NEW b \in Nat
  PROVE  m * b <= n * b /\ n * b \in Nat
  OBVIOUS

LEMMA WaitsAreBounded ==
  ASSUME NEW n \in Nat, n <= MaxGuesses
  PROVE  Waits(n) \in Nat /\ Waits(n) <= MaxGuesses * LongBlock
<1>1. n * LongBlock <= MaxGuesses * LongBlock
  BY Product, PinAssumption
<1>2. n > 0 => (n - 1) * LongBlock \in Nat /\ n * LongBlock = (n - 1) * LongBlock + LongBlock
  BY PinAssumption
<1>3. MaxGuesses * LongBlock \in Nat /\ ShortBlock \in Nat /\ LongBlock \in Nat
  BY PinAssumption
<1> QED
  BY <1>1, <1>2, <1>3, PinAssumption DEF Waits

LEMMA InitSlow ==
  ASSUME PinInit
  PROVE  SlowInv
<1>1. policy = [failures |-> 0, tier |-> 0, blocked |-> 0] /\ tally = [wrong |-> 0, ticks |-> 0]
  BY DEF PinInit, Cleared, NoGuess
<1>2. Batches(0)
  BY <1>1, PinAssumption DEF Batches, Waits
<1> QED
  BY <1>1, <1>2, PinAssumption DEF SlowInv

LEMMA ClearSlow ==
  ASSUME ClearPin
  PROVE  SlowInv'
<1>1. policy' = [failures |-> 0, tier |-> 0, blocked |-> 0] /\ tally' = [wrong |-> 0, ticks |-> 0]
  BY DEF ClearPin, Cleared, NoGuess
<1>2. Batches(0)'
  BY <1>1, PinAssumption DEF Batches, Waits
<1> QED
  BY <1>1, <1>2, PinAssumption DEF SlowInv

LEMMA WrongSlow ==
  ASSUME SlowInv, WrongPin
  PROVE  SlowInv'
<1>1. PICK n \in Nat : Batches(n)
  BY DEF SlowInv
<1>2. /\ tally' = [wrong |-> tally.wrong + 1, ticks |-> tally.ticks]
      /\ tally.wrong + 1 \in 0..MaxGuesses
  BY PinAssumption DEF WrongPin, SlowInv
<1>3. policy.blocked = 0 /\ n * PinLimit \in Nat
  BY PinAssumption DEF WrongPin, Cooling, SlowInv
<1>4. CASE policy.failures + 1 < PinLimit
  <2>1. policy' = [failures |-> policy.failures + 1, tier |-> policy.tier, blocked |-> policy.blocked]
    BY <1>4 DEF WrongPin, Failed, SlowInv
  <2>2. Batches(n)'
    BY <1>1, <1>2, <1>3, <2>1, PinAssumption DEF Batches, SlowInv, Waits
  <2> QED
    BY <1>2, <1>4, <2>1, <2>2, PinAssumption DEF SlowInv
<1>5. CASE ~(policy.failures + 1 < PinLimit)
  <2>1. policy' = [failures |-> 0, tier |-> IF policy.tier = 0 THEN 1 ELSE 2,
                   blocked |-> IF policy.tier = 0 THEN ShortBlock ELSE LongBlock]
    BY <1>5 DEF WrongPin, Failed
  <2>2. (n + 1) * PinLimit = n * PinLimit + PinLimit /\ policy.failures + 1 = PinLimit
    BY <1>5, PinAssumption DEF SlowInv
  <2>3. policy.tier = 0 <=> n = 0
    BY <1>1 DEF Batches
  <2>4. Waits(n + 1) <= Waits(n) + policy'.blocked
    <3>1. CASE n = 0
      BY <2>1, <2>3, <3>1, PinAssumption DEF Waits
    <3>2. CASE n # 0
      <4>1. ((n + 1) - 1) * LongBlock = (n - 1) * LongBlock + LongBlock
            /\ (n - 1) * LongBlock \in Nat
        BY <3>2, PinAssumption
      <4>2. policy'.blocked = LongBlock
        BY <2>1, <2>3, <3>2
      <4> QED
        BY <3>2, <4>1, <4>2, PinAssumption DEF Waits
    <3> QED
      BY <3>1, <3>2
  <2>5. tally.ticks >= Waits(n)
    BY <1>1, <1>3 DEF Batches, SlowInv
  <2>6. Waits(n) \in Nat /\ Waits(n + 1) \in Nat /\ policy'.blocked \in Nat
    BY <2>1, PinAssumption DEF Waits
  <2>7. tally'.ticks + policy'.blocked >= Waits(n + 1)
    BY <1>2, <2>4, <2>5, <2>6 DEF SlowInv
  <2>8. Batches(n + 1)'
    <3>1. tally'.wrong = (n + 1) * PinLimit + policy'.failures
      BY <1>1, <1>2, <1>3, <2>1, <2>2, PinAssumption DEF Batches, SlowInv
    <3>2. policy'.tier = IF n + 1 < 2 THEN n + 1 ELSE 2
      BY <2>1, <2>3
    <3>3. policy'.failures = 0 /\ n + 1 > 0
      BY <2>1
    <3>4. policy'.blocked <= IF n + 1 = 1 THEN ShortBlock ELSE LongBlock
      BY <2>1, <2>3, PinAssumption
    <3> QED
      BY <2>7, <3>1, <3>2, <3>3, <3>4 DEF Batches, Waits
  <2> QED
    BY <1>2, <2>1, <2>8, PinAssumption DEF SlowInv
<1> QED
  BY <1>4, <1>5

LEMMA TickSlow ==
  ASSUME SlowInv, PinTick
  PROVE  SlowInv'
<1>1. PICK n \in Nat : Batches(n)
  BY DEF SlowInv
<1>2. policy' = [failures |-> policy.failures, tier |-> policy.tier,
                 blocked |-> IF policy.blocked = 0 THEN 0 ELSE policy.blocked - 1]
  BY DEF PinTick, SlowInv
<1>3. /\ tally' = [wrong |-> tally.wrong, ticks |-> tally'.ticks]
      /\ tally'.ticks \in Nat /\ tally'.ticks >= tally.ticks
      /\ tally'.ticks = tally.ticks \/ tally'.ticks = tally.ticks + 1
      /\ tally'.ticks = tally.ticks =>
           tally.wrong = 0 \/ tally.ticks >= MaxGuesses * LongBlock
  <2>1. MaxGuesses * LongBlock \in Nat
    BY PinAssumption
  <2> QED
    BY <2>1 DEF PinTick, SlowInv
<1>4. tally'.ticks + policy'.blocked >= Waits(n)
  <2>1. n * PinLimit \in Nat /\ n * PinLimit >= n
    BY PinAssumption
  <2>2. n <= tally.wrong
    BY <1>1, <2>1 DEF Batches, SlowInv
  <2>3. n <= MaxGuesses
    BY <2>2, PinAssumption DEF SlowInv
  <2>4. Waits(n) \in Nat /\ Waits(n) <= MaxGuesses * LongBlock
    BY <2>3, WaitsAreBounded
  <2>5. MaxGuesses * LongBlock \in Nat
    BY PinAssumption
  <2>6. CASE tally'.ticks = tally.ticks + 1
    BY <1>1, <1>2, <2>4, <2>6 DEF Batches, SlowInv
  <2>7. CASE tally.ticks >= MaxGuesses * LongBlock
    BY <1>2, <1>3, <2>4, <2>5, <2>7 DEF SlowInv
  <2>8. CASE tally.wrong = 0
    <3>1. n = 0
      BY <2>2, <2>8
    <3> QED
      BY <1>2, <1>3, <3>1 DEF Waits, SlowInv
  <2> QED
    BY <1>3, <2>6, <2>7, <2>8
<1>5. Batches(n)'
  <2>1. policy'.blocked <= IF n = 1 THEN ShortBlock ELSE LongBlock
    BY <1>1, <1>2, PinAssumption DEF Batches, SlowInv
  <2>2. policy'.blocked > 0 => policy'.failures = 0 /\ n > 0
    BY <1>1, <1>2 DEF Batches, SlowInv
  <2>3. tally'.wrong = n * PinLimit + policy'.failures
    BY <1>1, <1>2, <1>3 DEF Batches
  <2>4. policy'.tier = IF n < 2 THEN n ELSE 2
    BY <1>1, <1>2 DEF Batches
  <2> QED
    BY <1>4, <2>1, <2>2, <2>3, <2>4 DEF Batches, Waits
<1> QED
  BY <1>2, <1>3, <1>5, PinAssumption DEF SlowInv

LEMMA SlowEnough ==
  ASSUME SlowInv
  PROVE  GuessesAreSlow
<1>1. PICK n \in Nat : Batches(n)
  BY DEF SlowInv
<1> DEFINE batches == (tally.wrong - 1) \div PinLimit
<1>2. SUFFICES ASSUME tally.wrong > PinLimit
               PROVE  tally.ticks >= ShortBlock + (batches - 1) * LongBlock
  BY DEF GuessesAreSlow
<1>3. tally.wrong = n * PinLimit + policy.failures /\ n * PinLimit \in Nat
  BY <1>1, PinAssumption DEF Batches
<1>4. n > 0
  BY <1>2, <1>3, PinAssumption DEF SlowInv
<1>5. CASE policy.failures > 0
  <2>1. batches = n
    BY <1>3, <1>5, PinAssumption DEF SlowInv
  <2>2. tally.ticks >= Waits(n)
    BY <1>1, <1>5 DEF Batches, SlowInv
  <2> QED
    BY <1>4, <2>1, <2>2 DEF Waits
<1>6. CASE policy.failures = 0
  <2>1. n > 1
    BY <1>2, <1>3, <1>4, <1>6, PinAssumption
  <2>2. batches = n - 1
    <3>1. tally.wrong - 1 = (n - 1) * PinLimit + (PinLimit - 1)
      BY <1>3, <1>6, PinAssumption
    <3> QED
      BY <3>1, PinAssumption
  <2>3. tally.ticks + LongBlock >= ShortBlock + (n - 1) * LongBlock
    BY <1>1, <2>1, PinAssumption DEF Batches, Waits, SlowInv
  <2>4. (n - 1) * LongBlock = (n - 2) * LongBlock + LongBlock /\ (n - 2) * LongBlock \in Nat
    BY <2>1, PinAssumption
  <2> QED
    BY <2>2, <2>3, <2>4, PinAssumption DEF SlowInv
<1> QED
  BY <1>5, <1>6 DEF SlowInv

-----------------------------------------------------------------------------
(* What survives a PIN change                                                *)

(* The shape of what store_pin(), pair_create() and setup_reset() write.     *)
KeysOK ==
  /\ auth \in [pin : Nat, changed : BOOLEAN, factory : BOOLEAN, pending : BOOLEAN]
  /\ regs \in Nat
  /\ pairs \in [Pairs -> [cred : Nat, pin : Nat, reg : Nat]]

PinInv == KeysOK /\ NothingOutlivesThePin

(* A call that leaves the PIN and the pairs alone and gives nobody a session *)
(* keeps the invariant.                                                      *)
LEMMA KeysKept ==
  ASSUME PinInv, UNCHANGED <<auth, pairs, regs>>, sessions' \subseteq sessions
  PROVE  PinInv'
  BY DEF PinInv, KeysOK, NothingOutlivesThePin

(* So does one that only adds sessions of the present PIN.                   *)
LEMMA SessionAdded ==
  ASSUME PinInv, pairs' = pairs, regs' = regs, auth' \in [pin : Nat, changed : BOOLEAN, factory : BOOLEAN, pending : BOOLEAN],
         auth'.pin = auth.pin, \A s \in sessions' : s \in sessions \/ s.pin = auth.pin
  PROVE  PinInv'
  BY DEF PinInv, KeysOK, NothingOutlivesThePin

LEMMA SessionsShrink ==
  ASSUME NEW k, NEW n, k # n, NEW after, Sessions(k, n, after)
  PROVE  sessions' \subseteq sessions
  BY DEF Sessions

LEMMA SessionPin ==
  ASSUME NEW kind, NEW p, NEW c
  PROVE  Session(kind, p, c).pin = auth.pin
  BY DEF Session

(* The PIN and its sessions *)
LEMMA PinOwner ==
  ASSUME PinInv,
         \/ \E k \in 0..2 : Unlock(k)
         \/ \E k \in 0..6, setup \in BOOLEAN : SetPin(k, setup)
         \/ SetPinRefused
         \/ \E k \in 0..10 : SetupReset(k)
  PROVE  PinInv'
<1>1. CASE \E k \in 0..2 : Unlock(k)
  <2>1. PICK k \in 0..2 : Unlock(k)
    BY <1>1
  <2>2. /\ pairs' = pairs /\ regs' = regs
        /\ auth' = auth \/ auth' = [auth EXCEPT !.factory = FALSE]
    BY <2>1 DEF Unlock
  <2>3. auth' \in [pin : Nat, changed : BOOLEAN, factory : BOOLEAN, pending : BOOLEAN]
        /\ auth'.pin = auth.pin
    BY <2>2 DEF PinInv, KeysOK
  <2>4. \A s \in sessions' : s \in sessions \/ s.pin = auth.pin
    <3> DEFINE opened == Session(IF auth.changed THEN "owner" ELSE "setup", NoPairId, 0)
    <3>1. sessions' \in {sessions \cup {opened}, sessions, {}}
      BY <2>1 DEF Unlock, Sessions
    <3>2. opened.pin = auth.pin
      BY SessionPin
    <3> QED
      BY <3>1, <3>2
  <2> QED
    BY <2>2, <2>3, <2>4, SessionAdded
<1>2. CASE \E k \in 0..6, setup \in BOOLEAN : SetPin(k, setup)
  <2>1. PICK k \in 0..6, setup \in BOOLEAN : SetPin(k, setup)
    BY <1>2
  <2>2. CASE k = 6
    <3>1. auth' = NewAuth /\ pairs' = NoPairs /\ regs' = regs
      BY <2>1, <2>2 DEF SetPin, StorePin
    <3>2. KeysOK'
      BY <3>1 DEF NewAuth, NoPairs, NoPair, PinInv, KeysOK
    <3>3. \A s \in sessions' : s.pin = auth.pin + 1
      BY <2>1, <2>2 DEF SetPin, Sessions, Session, PinInv, KeysOK
    <3>4. \A p \in Pairs : pairs'[p].cred = 0
      BY <3>1 DEF NoPairs, NoPair
    <3>5. auth'.pin = auth.pin + 1
      BY <3>1 DEF NewAuth
    <3> QED
      BY <3>2, <3>3, <3>4, <3>5 DEF PinInv, NothingOutlivesThePin
  <2>3. CASE k # 6
    <3>1. auth' = auth /\ regs' = regs /\ (pairs' = pairs \/ pairs' = NoPairs)
      BY <2>1, <2>3 DEF SetPin, StorePin
    <3>2. sessions' \subseteq sessions
      BY <2>1, <2>3, SessionsShrink DEF SetPin
    <3> QED
      BY <3>1, <3>2 DEF PinInv, KeysOK, NothingOutlivesThePin, NoPairs, NoPair
  <2> QED
    BY <2>2, <2>3
<1>3. CASE SetPinRefused
  BY <1>3, KeysKept DEF SetPinRefused, keyvars
<1>4. CASE \E k \in 0..10 : SetupReset(k)
  <2>1. PICK k \in 0..10 : SetupReset(k)
    BY <1>4
  <2>2. /\ pairs' = pairs \/ pairs' = NoPairs
        /\ regs' = regs
        /\ auth' = auth \/ auth' = [auth EXCEPT !.changed = FALSE, !.pending = TRUE]
    BY <2>1 DEF SetupReset, ResetAuth
  <2>3. KeysOK' /\ auth'.pin = auth.pin
    <3>1. auth' \in [pin : Nat, changed : BOOLEAN, factory : BOOLEAN, pending : BOOLEAN]
          /\ auth'.pin = auth.pin
      BY <2>2 DEF PinInv, KeysOK
    <3>2. pairs' \in [Pairs -> [cred : Nat, pin : Nat, reg : Nat]]
      BY <2>2 DEF PinInv, KeysOK, NoPairs, NoPair
    <3> QED
      BY <2>2, <3>1, <3>2 DEF PinInv, KeysOK
  <2>4. \A s \in sessions' : s \in sessions \/ s.pin = auth.pin
    BY <2>1 DEF SetupReset, Sessions, Session
  <2> QED
    BY <2>2, <2>3, <2>4 DEF PinInv, NothingOutlivesThePin, NoPairs, NoPair
<1> QED
  BY <1>1, <1>2, <1>3, <1>4

(* Pairs, and what is done with a pair's session *)
LEMMA PinPhones ==
  ASSUME PinInv,
         \/ \E p \in Pairs, c \in Creds, k \in 0..1 : PairCreate(p, c, k)
         \/ \E p \in Pairs : PairUnlock(p)
         \/ \E p \in Pairs, k \in 0..4 : PairRevoke(p, k)
  PROVE  PinInv'
<1>1. CASE \E p \in Pairs, c \in Creds, k \in 0..1 : PairCreate(p, c, k)
  <2>1. PICK p \in Pairs, c \in Creds, k \in 0..1 : PairCreate(p, c, k)
    BY <1>1
  <2>2. sessions' \subseteq sessions /\ auth' = auth
    BY <2>1 DEF PairCreate, Sessions
  <2>3. CASE k = 1
    <3>1. /\ pairs' = [pairs EXCEPT ![p] = [cred |-> c, pin |-> auth.pin, reg |-> regs + 1]]
          /\ regs' = regs + 1
      BY <2>1, <2>3 DEF PairCreate
    <3>2. c \in Nat /\ auth.pin \in Nat /\ regs + 1 \in Nat
      BY HandoffAssumption DEF PinInv, KeysOK
    <3>3. KeysOK'
      BY <2>2, <3>1, <3>2 DEF PinInv, KeysOK
    <3>4. \A q \in Pairs : pairs'[q].cred # 0 => pairs'[q].pin = auth.pin
      BY <3>1 DEF PinInv, KeysOK, NothingOutlivesThePin
    <3> QED
      BY <2>2, <3>3, <3>4 DEF PinInv, NothingOutlivesThePin
  <2>4. CASE k # 1
    BY <2>1, <2>2, <2>4, KeysKept DEF PairCreate
  <2> QED
    BY <2>3, <2>4
<1>2. CASE \E p \in Pairs : PairUnlock(p)
  <2>1. PICK p \in Pairs : PairUnlock(p)
    BY <1>2
  <2>2. sessions' = sessions \cup {Session("phone", p, pairs[p].cred)}
        /\ UNCHANGED <<auth, pairs, regs>>
    BY <2>1 DEF PairUnlock
  <2>3. \A s \in sessions' : s \in sessions \/ s.pin = auth.pin
    BY <2>2, SessionPin
  <2> QED
    BY <2>2, <2>3, SessionAdded DEF PinInv, KeysOK
<1>3. CASE \E p \in Pairs, k \in 0..4 : PairRevoke(p, k)
  <2>1. PICK p \in Pairs, k \in 0..4 : PairRevoke(p, k)
    BY <1>3
  <2>2. /\ sessions' \subseteq sessions /\ auth' = auth /\ regs' = regs
        /\ pairs' = pairs \/ pairs' = [pairs EXCEPT ![p] = NoPair]
    BY <2>1 DEF PairRevoke, Sessions
  <2>3. KeysOK'
    BY <2>2 DEF PinInv, KeysOK, NoPair
  <2>4. \A q \in Pairs : pairs'[q].cred # 0 => pairs'[q].pin = auth.pin
    BY <2>2 DEF PinInv, KeysOK, NothingOutlivesThePin, NoPair
  <2> QED
    BY <2>2, <2>3, <2>4 DEF PinInv, NothingOutlivesThePin
<1> QED
  BY <1>1, <1>2, <1>3

(* The steps that neither set a PIN nor make a pair.                         *)
LEMMA PinKeys ==
  ASSUME PinInv, KeyCalls
  PROVE  PinInv'
<1>1. CASE \E k \in 0..1 : Guess(k)
  BY <1>1, KeysKept DEF Guess, Sessions
<1>2. CASE \E s \in sessions : SessionEnds(s)
  BY <1>2, KeysKept DEF SessionEnds
<1>3. CASE \E k \in 0..2 : Enroll(k)
  <2>1. PICK k \in 0..2 : Enroll(k)
    BY <1>3
  <2>2. /\ pairs' = pairs /\ regs' = regs /\ sessions' \subseteq sessions
        /\ auth' = auth \/ auth' = [auth EXCEPT !.factory = TRUE, !.pending = FALSE]
    BY <2>1 DEF Enroll, Sessions
  <2>3. /\ auth' \in [pin : Nat, changed : BOOLEAN, factory : BOOLEAN, pending : BOOLEAN]
        /\ auth'.pin = auth.pin
    BY <2>2 DEF PinInv, KeysOK
  <2> QED
    BY <2>2, <2>3, SessionAdded
<1>4. CASE FactoryPinLapses
  <2>1. auth' = [auth EXCEPT !.factory = FALSE] /\ UNCHANGED <<pairs, regs, sessions>>
    BY <1>4 DEF FactoryPinLapses
  <2>2. /\ auth' \in [pin : Nat, changed : BOOLEAN, factory : BOOLEAN, pending : BOOLEAN]
        /\ auth'.pin = auth.pin
    BY <2>1 DEF PinInv, KeysOK
  <2> QED
    BY <2>1, <2>2, SessionAdded
<1> QED
  BY <1>1, <1>2, <1>3, <1>4 DEF KeyCalls

LEMMA PinLeases ==
  ASSUME PinInv, LeaseCalls
  PROVE  PinInv'
<1>1. CASE \E a \in Requests : Asking(a)
  BY <1>1, KeysKept DEF Asking, Ask
<1>2. CASE \E a \in asks.open, k \in 0..3 : PhoneHandoff(a, k)
  BY <1>2, KeysKept DEF PhoneHandoff, Sessions
<1>3. CASE LanTurn \/ Forgetting \/ \E p \in Pairs : PhoneStatus(p)
  BY <1>3, KeysKept DEF LanTurn, LanChanges, PhoneStatus, Forgetting, CacheLapses, keyvars, netvars
<1> QED
  BY <1>1, <1>2, <1>3 DEF LeaseCalls

LEMMA PinClients ==
  ASSUME PinInv, ClientCalls
  PROVE  PinInv'
<1>1. CASE \E p \in Pairs, remote \in BOOLEAN, k \in 0..3 : PhoneProvision(p, remote, k)
  BY <1>1, KeysKept DEF PhoneProvision, Sessions
<1>2. CASE \E k \in 0..1 : SaveClient(k)
  BY <1>2, KeysKept DEF SaveClient, Sessions
<1>3. CASE \E c \in state.clients, k \in 0..4 : DeleteClient(c, k)
  BY <1>3, KeysKept DEF DeleteClient, Sessions
<1>4. CASE ForceStarts \/ ForceEnds \/ Publisher \/ PublisherDies \/ ServerTurn \/ Midnight
  BY <1>4, KeysKept DEF ForceStarts, ForceEnds, Publisher, PublisherDies, ServerTurn, Midnight,
     RouterOnly, keyvars
<1> QED
  BY <1>1, <1>2, <1>3, <1>4 DEF ClientCalls

LEMMA PinRest ==
  ASSUME PinInv, Tick \/ RpcdDies \/ Reboot \/ UNCHANGED vars
  PROVE  PinInv'
<1>1. CASE Tick
  BY <1>1, KeysKept DEF Tick, HandoffTick
<1>2. CASE RpcdDies \/ Reboot
  BY <1>2, KeysKept DEF RpcdDies, Reboot
<1>3. CASE UNCHANGED vars
  BY <1>3, KeysKept DEF vars, keyvars
<1> QED
  BY <1>1, <1>2, <1>3

LEMMA PinInit0 ==
  ASSUME AInit
  PROVE  PinInv
<1>1. sessions = {}
  BY DEF AInit
<1>2. CASE FactoryInit
  BY <1>1, <1>2 DEF FactoryInit, NoPairs, NoPair, PinInv, KeysOK, NothingOutlivesThePin
<1>3. CASE InUseInit
  <2>1. auth = [pin |-> 1, changed |-> TRUE, factory |-> FALSE, pending |-> FALSE]
    BY <1>3 DEF InUseInit
  <2>2. CASE PanelInit
    BY <1>1, <2>1, <2>2 DEF PanelInit, NoPairs, NoPair, PinInv, KeysOK, NothingOutlivesThePin
  <2>3. CASE PhoneInit
    <3>1. PICK p \in Pairs, c \in Creds :
            pairs = [NoPairs EXCEPT ![p] = [cred |-> c, pin |-> 1, reg |-> 1]]
      BY <2>3 DEF PhoneInit
    <3>2. regs = 1 /\ c \in Nat
      BY <2>3, HandoffAssumption DEF PhoneInit
    <3> QED
      BY <1>1, <2>1, <3>1, <3>2 DEF NoPairs, NoPair, PinInv, KeysOK, NothingOutlivesThePin
  <2> QED
    BY <1>3, <2>2, <2>3 DEF InUseInit
<1> QED
  BY <1>2, <1>3 DEF AInit

(* Whatever is cut and whoever dies, a pair or a session is of the PIN that  *)
(* is set now: store_pin() clears the pairs before it writes the PIN, and    *)
(* forgets the sessions before anybody can ask again.                        *)
THEOREM PinIsTheOwners == ASpec => []NothingOutlivesThePin
<1>1. AInit => PinInv
  BY PinInit0
<1>2. PinInv /\ [ANext]_vars => PinInv'
  BY PinOwner, PinPhones, PinKeys, PinLeases, PinClients, PinRest DEF ANext, OwnerCalls
<1>3. PinInv => NothingOutlivesThePin
  BY DEF PinInv
<1> QED
  BY <1>1, <1>2, <1>3, PTL DEF ASpec

-----------------------------------------------------------------------------
(* What setup_reset() leaves.  Three things that hold all the time: the      *)
(* shape of the leases' journal, of state.json, and of what the publisher    *)
(* has read, which is never of a reset that is still to come.                *)
JournalOK ==
  /\ journal = [written |-> journal.written, lease |-> [p \in Pairs |-> journal.lease[p]],
                retired |-> journal.retired]
  /\ journal.written \in BOOLEAN
  /\ ~journal.written => \A p \in Pairs : journal.lease[p] = NoLease
StateOK ==
  /\ state = [resets |-> state.resets, devices |-> state.devices, clients |-> state.clients]
  /\ state.resets \in Nat
PubOK ==
  /\ pub = [pc |-> pub.pc, force |-> pub.force, state |-> pub.state, sig |-> pub.sig]
  /\ pub.state.resets \in Nat
  /\ pub.pc # "idle" => pub.state.resets <= state.resets

LEMMA RevokeShape ==
  ASSUME JournalOK, NEW ids, NEW k \in Nat, RevokeHandoff(ids, k)
  PROVE  /\ JournalOK'
         /\ \A p \in Pairs : journal'.lease[p] \in {journal.lease[p], NoLease}
<1>1. CASE UNCHANGED journal
  BY <1>1 DEF JournalOK
<1>2. CASE journal' = Without(ids)
  <2>1. journal' = [written |-> journal.written, retired |-> journal.retired,
          lease |-> [p \in Pairs |-> IF p \in ids THEN NoLease ELSE journal.lease[p]]]
    BY <1>2 DEF Without, JournalOK
  <2> QED
    BY <2>1 DEF JournalOK
<1> QED
  BY <1>1, <1>2 DEF RevokeHandoff, Apply, policyvars

LEMMA TickShape ==
  ASSUME JournalOK, HandoffTick
  PROVE  /\ JournalOK'
         /\ \A p \in Pairs : journal.lease[p] = NoLease => journal'.lease[p] = NoLease
<1> DEFINE later == [p \in Pairs |-> Aged(journal.lease[p])]
<1> DEFINE kept == {Aged(r) : r \in {s \in journal.retired : s.left > 1}}
<1>1. journal' = [journal EXCEPT !.lease = later, !.retired = kept]
  BY DEF HandoffTick
<1>2. /\ journal' = [written |-> journal'.written, lease |-> later, retired |-> journal'.retired]
      /\ journal'.written = journal.written
  <2> HIDE DEF later, kept
  <2> QED
    BY <1>1 DEF JournalOK
<1>3. Aged(NoLease) = NoLease
  BY DEF NoLease, Aged, Less
<1>4. \A p \in Pairs : journal.lease[p] = NoLease => journal'.lease[p] = NoLease
  BY <1>2, <1>3
<1> QED
  BY <1>2, <1>4 DEF JournalOK

LEMMA JournalStep ==
  ASSUME JournalOK, [ANext]_vars
  PROVE  JournalOK'
<1>1. CASE OwnerCalls
  <2>1. CASE \E k \in 0..6, setup \in BOOLEAN : SetPin(k, setup)
    <3>1. PICK k \in 0..6 : StorePin(k)
      BY <2>1 DEF SetPin
    <3>2. CASE k = 0
      BY <3>1, <3>2 DEF StorePin, policyvars, JournalOK
    <3>3. CASE k # 0
      <4>1. RevokeHandoff(Pairs, k - 1) /\ k - 1 \in Nat
        BY <3>1, <3>3 DEF StorePin
      <4> QED
        BY <4>1, RevokeShape
    <3> QED
      BY <3>2, <3>3
  <2>2. CASE \E k \in 0..10 : SetupReset(k)
    <3>1. PICK k \in 0..10 : RevokeHandoff(Pairs, k)
      BY <2>2 DEF SetupReset
    <3> QED
      BY <3>1, RevokeShape
  <2>3. CASE \E p \in Pairs, k \in 0..4 : PairRevoke(p, k)
    <3>1. PICK p \in Pairs, k \in 0..4 : RevokeHandoff({p}, k)
      BY <2>3 DEF PairRevoke
    <3> QED
      BY <3>1, RevokeShape
  <2>4. CASE \/ \E k \in 0..2 : Unlock(k)
             \/ SetPinRefused
             \/ \E p \in Pairs, c \in Creds, k \in 0..1 : PairCreate(p, c, k)
             \/ \E p \in Pairs : PairUnlock(p)
    BY <2>4 DEF Unlock, SetPinRefused, PairCreate, PairUnlock, leasevars, policyvars, JournalOK
  <2> QED
    BY <1>1, <2>1, <2>2, <2>3, <2>4 DEF OwnerCalls
<1>2. CASE KeyCalls
  BY <1>2 DEF KeyCalls, Guess, SessionEnds, Enroll, FactoryPinLapses, leasevars, policyvars, JournalOK
<1>3. CASE LeaseCalls
  <2>1. CASE \E a \in asks.open, k \in 0..3 : PhoneHandoff(a, k)
    <3>1. PICK a \in asks.open, k \in 0..3 : Apply(Requested(a), k)
      BY <2>1 DEF PhoneHandoff
    <3>2. journal' = journal \/ journal' = Requested(a)
      BY <3>1 DEF Apply
    <3> DEFINE granted == [p \in Pairs |->
          IF p # a.pair THEN Found(p) ELSE IF a.mode = "router_vpn" THEN NoLease ELSE Granted(a)]
    <3> DEFINE tombs == IF a.mode = "router_vpn" THEN Retire(a.pair) ELSE Retired
    <3>3. Requested(a) = [written |-> TRUE, lease |-> granted, retired |-> tombs]
      BY DEF Requested
    <3>4. granted = [p \in Pairs |-> granted[p]]
      OBVIOUS
    <3> HIDE DEF granted, tombs
    <3>5. CASE journal' = Requested(a)
      <4>1. /\ journal' = [written |-> TRUE, lease |-> granted, retired |-> tombs]
            /\ journal'.lease = granted /\ journal'.retired = tombs /\ journal'.written = TRUE
        BY <3>3, <3>5
      <4>2. journal'.lease = [p \in Pairs |-> journal'.lease[p]]
        BY <4>1, <3>4
      <4> QED
        BY <4>1, <4>2 DEF JournalOK
    <3> QED
      BY <3>2, <3>5 DEF JournalOK
  <2> QED
    BY <1>3, <2>1 DEF LeaseCalls, Asking, Ask, LanTurn, LanChanges, PhoneStatus, Forgetting, CacheLapses, keyvars, netvars, leasevars, policyvars, JournalOK
<1>4. CASE ClientCalls
  <2>1. CASE \/ ForceStarts \/ ForceEnds \/ Publisher \/ PublisherDies \/ ServerTurn \/ Midnight
    BY <2>1 DEF ForceStarts, ForceEnds, Publisher, PublisherDies, ServerTurn, Midnight,
       RouterOnly, leasevars, policyvars, JournalOK
  <2>2. CASE \E p \in Pairs, remote \in BOOLEAN, k \in 0..3 : PhoneProvision(p, remote, k)
    BY <2>2 DEF PhoneProvision, leasevars, policyvars, JournalOK
  <2>3. CASE \E k \in 0..1 : SaveClient(k)
    BY <2>3 DEF SaveClient, leasevars, policyvars, JournalOK
  <2>4. CASE \E c \in state.clients, k \in 0..4 : DeleteClient(c, k)
    BY <2>4 DEF DeleteClient, leasevars, policyvars, JournalOK
  <2> QED
    BY <1>4, <2>1, <2>2, <2>3, <2>4 DEF ClientCalls
<1>5. CASE Tick
  BY <1>5, TickShape DEF Tick
<1>6. CASE Reboot
  BY <1>6 DEF Reboot, NoJournal, JournalOK
<1>7. CASE RpcdDies \/ UNCHANGED vars
  BY <1>7 DEF RpcdDies, vars, leasevars, policyvars, JournalOK
<1> QED
  BY <1>1, <1>2, <1>3, <1>4, <1>5, <1>6, <1>7 DEF ANext

LEMMA StateStep ==
  ASSUME StateOK, [ANext]_vars
  PROVE  StateOK' /\ state'.resets >= state.resets
<1>1. ASSUME NEW d, NEW c, state' = [state EXCEPT !.devices = d, !.clients = c]
      PROVE  StateOK' /\ state'.resets >= state.resets
  <2>1. state' = [resets |-> state.resets, devices |-> d, clients |-> c]
    BY <1>1 DEF StateOK
  <2> QED
    BY <2>1 DEF StateOK
<1>2. CASE state' = state
  BY <1>2 DEF StateOK
<1>3. CASE \E k \in 0..10 : SetupReset(k)
  <2>1. state' = [NoState EXCEPT !.resets = state.resets + 1] \/ state' = state
    BY <1>3 DEF SetupReset
  <2> QED
    BY <2>1 DEF StateOK, NoState
<1>4. CASE \E p \in Pairs, remote \in BOOLEAN, k \in 0..3 : PhoneProvision(p, remote, k)
  <2>1. PICK phone : state' = state \/ state' = Applied(phone)
    BY <1>4 DEF PhoneProvision, ProvisionWrites
  <2>2. Applied(phone) = [state EXCEPT !.devices = Add(state.devices, phone.device),
                                       !.clients = Add(state.clients, phone.client)]
    BY DEF Applied, StateOK
  <2> QED
    BY <1>1, <1>2, <2>1, <2>2
<1>5. CASE \E k \in 0..1 : SaveClient(k)
  <2>1. state' = state \/ state' = [state EXCEPT !.clients = Add(state.clients, Len(minted) + 1)]
    BY <1>5 DEF SaveClient
  <2> QED
    BY <2>1 DEF StateOK
<1>6. CASE \E c \in state.clients, k \in 0..4 : DeleteClient(c, k)
  <2>1. PICK c : state' = state \/ state' = [state EXCEPT !.clients = state.clients \ {c}]
    BY <1>6 DEF DeleteClient
  <2> QED
    BY <2>1 DEF StateOK
<1>7. CASE \/ \E k \in 0..2 : Unlock(k)
           \/ \E k \in 0..6, setup \in BOOLEAN : SetPin(k, setup)
           \/ SetPinRefused
           \/ \E p \in Pairs, c \in Creds, k \in 0..1 : PairCreate(p, c, k)
           \/ \E p \in Pairs : PairUnlock(p)
           \/ \E p \in Pairs, k \in 0..4 : PairRevoke(p, k)
  BY <1>2, <1>7 DEF Unlock, SetPin, SetPinRefused, PairCreate, PairUnlock, PairRevoke, clientvars
<1>8. CASE KeyCalls \/ Tick \/ RpcdDies \/ Reboot \/ UNCHANGED vars
  BY <1>2, <1>8 DEF KeyCalls, Guess, SessionEnds, Enroll, FactoryPinLapses, Tick, RpcdDies, Reboot,
     vars, clientvars
<1>9. CASE LeaseCalls
  BY <1>2, <1>9 DEF LeaseCalls, Asking, PhoneHandoff, LanTurn, PhoneStatus, Forgetting, clientvars
<1>10. CASE ForceStarts \/ ForceEnds \/ Publisher \/ PublisherDies \/ ServerTurn \/ Midnight
  BY <1>2, <1>10 DEF ForceStarts, ForceEnds, Publisher, PublisherDies, ServerTurn, Midnight,
     RouterOnly, clientvars
<1> QED
  BY <1>3, <1>4, <1>5, <1>6, <1>7, <1>8, <1>9, <1>10 DEF ANext, OwnerCalls, ClientCalls

(* What a step of the publisher makes of it.                                 *)
LEMMA SleptShape ==
  /\ Slept.pc = "idle" /\ Slept.state.resets \in Nat
  /\ Slept = [pc |-> Slept.pc, force |-> Slept.force, state |-> Slept.state, sig |-> Slept.sig]
<1>1. Asleep = [pc |-> "idle", force |-> FALSE, state |-> NoState, sig |-> NoSig]
  BY DEF Asleep
<1>2. PICK sig : Slept = [Asleep EXCEPT !.sig = sig]
  BY DEF Slept
<1>3. Slept = [pc |-> "idle", force |-> FALSE, state |-> NoState, sig |-> sig]
  BY <1>1, <1>2
<1> QED
  BY <1>3 DEF NoState

LEMMA PubMoves ==
  ASSUME StateOK, PubOK, state' = state,
         \/ PubBegin(TRUE) \/ PubBegin(FALSE) \/ PubEnds \/ PubFast \/ PubPrepare \/ PubStale
         \/ \E k \in 1..5 : PubPublish(k)
  PROVE  PubOK'
<1>1. CASE PubBegin(TRUE) \/ PubBegin(FALSE)
  <2>1. PICK f : pub' = [pc |-> "read", force |-> f, state |-> state, sig |-> Signature]
    BY <1>1 DEF PubBegin
  <2> QED
    BY <2>1 DEF PubOK, StateOK
<1>2. CASE PubPrepare
  <2>1. pub' = [pub EXCEPT !.pc = "ready"] /\ pub.pc = "read"
    BY <1>2 DEF PubPrepare
  <2> QED
    BY <2>1 DEF PubOK
<1>3. CASE PubEnds \/ PubFast \/ PubStale \/ \E k \in 1..5 : PubPublish(k)
  <2>1. pub' = Slept
    BY <1>3 DEF PubFast, PubStale, PubPublish, PubEnds
  <2> QED
    BY <2>1, SleptShape DEF PubOK
<1> QED
  BY <1>1, <1>2, <1>3

LEMMA PubStep ==
  ASSUME StateOK, PubOK, [ANext]_vars
  PROVE  PubOK'
<1>1. StateOK' /\ state'.resets >= state.resets
  BY StateStep
<1>2. CASE pub' = pub
  BY <1>1, <1>2 DEF PubOK, StateOK
<1>3. CASE ForceStarts \/ Publisher \/ PublisherDies
  <2>1. state' = state
    BY <1>3 DEF ForceStarts, Publisher, PublisherDies, RouterOnly, clientvars
  <2>2. CASE ForceStarts
    BY <1>2, <2>1, <2>2, PubMoves DEF ForceStarts, pubvars, servers
  <2>3. CASE Publisher
    <3>1. PubBegin(FALSE) \/ PubFast \/ PubPrepare \/ PubStale \/ PubPublish(5)
      BY <2>3 DEF Publisher, PublisherStep
    <3>2. 5 \in 1..5
      OBVIOUS
    <3>3. CASE PubPublish(5)
      BY <2>1, <3>2, <3>3, PubMoves
    <3> QED
      BY <2>1, <3>1, <3>3, PubMoves
  <2>4. CASE PublisherDies
    <3>1. PubEnds \/ \E k \in 1..5 : PubPublish(k)
      BY <2>4 DEF PublisherDies
    <3> QED
      BY <2>1, <3>1, PubMoves
  <2> QED
    BY <1>3, <2>2, <2>3, <2>4
<1>4. CASE Reboot
  BY <1>4 DEF Reboot, Asleep, NoState, PubOK
<1>5. CASE OwnerCalls
  BY <1>2, <1>5 DEF OwnerCalls, Unlock, SetPin, SetPinRefused, SetupReset, PairCreate, PairUnlock,
     PairRevoke, pubvars, servers
<1>6. CASE KeyCalls \/ LeaseCalls
  BY <1>2, <1>6 DEF KeyCalls, Guess, SessionEnds, Enroll, FactoryPinLapses, LeaseCalls, Asking,
     PhoneHandoff, LanTurn, PhoneStatus, Forgetting, pubvars, servers
<1>7. CASE \/ \E p \in Pairs, remote \in BOOLEAN, k \in 0..3 : PhoneProvision(p, remote, k)
           \/ \E k \in 0..1 : SaveClient(k)
           \/ \E c \in state.clients, k \in 0..4 : DeleteClient(c, k)
  BY <1>2, <1>7 DEF PhoneProvision, SaveClient, DeleteClient, pubvars, servers
<1>8. CASE ForceEnds \/ ServerTurn \/ Midnight \/ Tick \/ RpcdDies \/ UNCHANGED vars
  BY <1>2, <1>8 DEF ForceEnds, ServerTurn, Respawn, ListenerEnds, TunnelFlips, Midnight, DayPasses, Tick, RpcdDies,
     vars, pubvars, servers
<1> QED
  BY <1>3, <1>4, <1>5, <1>6, <1>7, <1>8 DEF ANext, ClientCalls

(* Nothing is left of the last owner, and nothing comes back of itself: procd *)
(* keeps no listener, and a publisher that is still at work has read a state *)
(* of before the reset.                                                      *)
Emptied ==
  /\ \A p \in Pairs : pairs[p] = NoPair /\ phones[p] = NoPhone /\ journal.lease[p] = NoLease
  /\ state.clients = {} /\ state.devices = {} /\ ~base /\ served = {} /\ inst = {}
  /\ \A s \in sessions : s.kind \in {"setup", "reset"}
  /\ pub.pc # "idle" => pub.state.resets < state.resets
Shapes == KeysOK /\ JournalOK /\ StateOK /\ PubOK
EmptyInv == PinInv /\ Shapes /\ (~auth.changed => Emptied)

LEMMA ResetEmpties ==
  ASSUME EmptyInv, NEW k \in 0..10, SetupReset(k), ~auth'.changed
  PROVE  Emptied'
<1>1. k = 10
  BY DEF SetupReset, ResetAuth
<1>2. \A p \in Pairs : journal'.lease[p] = NoLease
  <2>1. CASE journal.written
    <3>1. journal' = Without(Pairs)
      BY <1>1, <2>1 DEF SetupReset, RevokeHandoff, Apply
    <3>2. journal' = [written |-> journal.written, retired |-> journal.retired,
            lease |-> [p \in Pairs |-> IF p \in Pairs THEN NoLease ELSE journal.lease[p]]]
      BY <3>1 DEF Without, EmptyInv, Shapes, JournalOK
    <3> QED
      BY <3>2
  <2>2. CASE ~journal.written
    BY <1>1, <2>2 DEF SetupReset, RevokeHandoff, policyvars, EmptyInv, Shapes, JournalOK
  <2> QED
    BY <2>1, <2>2
<1>3. /\ \A p \in Pairs : pairs'[p] = NoPair /\ phones'[p] = NoPhone
      /\ ~base' /\ served' = {} /\ inst' = {}
  <2>1. pairs' = NoPairs /\ phones' = [p \in Pairs |-> NoPhone]
    BY <1>1 DEF SetupReset
  <2>2. ~base'
    <3>1. base' = (base /\ k < 5)
      BY DEF SetupReset
    <3>2. ~(k < 5)
      BY <1>1
    <3> QED
      BY <3>1, <3>2, Zenon
  <2>3. served' = {} /\ inst' = {}
    BY <1>1 DEF SetupReset, StopInbound
  <2> QED
    BY <2>1, <2>2, <2>3 DEF NoPairs
<1>4. state'.clients = {} /\ state'.devices = {} /\ state'.resets = state.resets + 1
  BY <1>1 DEF SetupReset, NoState
<1>5. \A s \in sessions' : s.kind \in {"setup", "reset"}
  BY <1>1 DEF SetupReset, Sessions, Session
<1>6. pub'.pc # "idle" => pub'.state.resets < state'.resets
  BY <1>1, <1>4 DEF SetupReset, EmptyInv, Shapes, StateOK, PubOK
<1> QED
  BY <1>2, <1>3, <1>4, <1>5, <1>6 DEF Emptied

(* Until the next owner sets a PIN nobody may write any of it again.         *)
LEMMA NobodyThere ==
  ASSUME Emptied
  PROVE  ~OwnSession /\ \A p \in Pairs : ~PhoneSession(p)
  BY DEF Emptied, OwnSession, Owner, PhoneSession

LEMMA EmptyOwner ==
  ASSUME EmptyInv, Emptied, ~auth.changed, ~auth'.changed, OwnerCalls
  PROVE  Emptied'
<1>1. CASE \E k \in 0..2 : Unlock(k)
  <2>1. PICK k \in 0..2 : Unlock(k)
    BY <1>1
  <2>2. sessions' \in {sessions \cup {Session("setup", NoPairId, 0)}, sessions, {}}
    BY <2>1 DEF Unlock, Sessions
  <2>3. \A s \in sessions' : s.kind \in {"setup", "reset"}
    BY <2>2 DEF Emptied, Session
  <2>4. UNCHANGED <<pairs, journal, state, phones, base, served, inst, pub>>
    BY <2>1 DEF Unlock, leasevars, policyvars, clientvars, pubvars, servers
  <2> QED
    BY <2>3, <2>4 DEF Emptied
<1>2. CASE \E k \in 0..6, setup \in BOOLEAN : SetPin(k, setup)
  <2>1. PICK k \in 0..6, setup \in BOOLEAN : SetPin(k, setup)
    BY <1>2
  <2>2. k # 6
    BY <2>1 DEF SetPin, StorePin, NewAuth
  <2>3. sessions' \subseteq sessions
    BY <2>1, <2>2, SessionsShrink DEF SetPin
  <2>4. \A p \in Pairs : pairs'[p] = NoPair
    BY <2>1 DEF SetPin, StorePin, NoPairs, Emptied
  <2>5. \A p \in Pairs : journal'.lease[p] = NoLease
    <3>1. CASE k = 0
      BY <2>1, <3>1 DEF SetPin, StorePin, policyvars, Emptied
    <3>2. CASE k # 0
      <4>1. RevokeHandoff(Pairs, k - 1) /\ k - 1 \in Nat
        BY <2>1, <3>2 DEF SetPin, StorePin
      <4> QED
        BY <4>1, RevokeShape DEF EmptyInv, Shapes, Emptied
    <3> QED
      BY <3>1, <3>2
  <2>6. UNCHANGED <<state, phones, base, served, inst, pub>>
    BY <2>1 DEF SetPin, clientvars, pubvars, servers
  <2> QED
    BY <2>3, <2>4, <2>5, <2>6 DEF Emptied
<1>3. CASE SetPinRefused
  BY <1>3 DEF SetPinRefused, keyvars, leasevars, policyvars, clientvars, pubvars, servers, Emptied
<1>4. CASE \/ \E k \in 0..10 : SetupReset(k)
           \/ \E p \in Pairs, c \in Creds, k \in 0..1 : PairCreate(p, c, k)
           \/ \E p \in Pairs : PairUnlock(p)
  BY <1>4 DEF SetupReset, PairCreate, PairUnlock
<1>5. CASE \E p \in Pairs, k \in 0..4 : PairRevoke(p, k)
  BY <1>5, NobodyThere DEF PairRevoke
<1> QED
  BY <1>1, <1>2, <1>3, <1>4, <1>5 DEF OwnerCalls

LEMMA EmptyLeases ==
  ASSUME Emptied, KeyCalls \/ LeaseCalls
  PROVE  Emptied'
<1>1. CASE \E k \in 0..1 : Guess(k)
  BY <1>1 DEF Guess, Sessions, leasevars, policyvars, clientvars, pubvars, servers, Emptied
<1>2. CASE \E s \in sessions : SessionEnds(s)
  BY <1>2 DEF SessionEnds, leasevars, policyvars, clientvars, pubvars, servers, Emptied
<1>3. CASE \E k \in 0..2 : Enroll(k)
  BY <1>3 DEF Enroll, Sessions, leasevars, policyvars, clientvars, pubvars, servers, Emptied
<1>4. CASE FactoryPinLapses
  BY <1>4 DEF FactoryPinLapses, leasevars, policyvars, clientvars, pubvars, servers, Emptied
<1>5. CASE \E a \in Requests : Asking(a)
  BY <1>5 DEF Asking, Ask, leasevars, policyvars, clientvars, pubvars, servers, Emptied
<1>6. CASE LanTurn \/ Forgetting \/ \E p \in Pairs : PhoneStatus(p)
  BY <1>6 DEF LanTurn, LanChanges, PhoneStatus, Forgetting, CacheLapses, keyvars, netvars, leasevars, policyvars, clientvars, pubvars, servers, Emptied
<1>7. CASE \E a \in asks.open, k \in 0..3 : PhoneHandoff(a, k)
  <2>1. PICK a \in asks.open : PhoneSession(a.pair) /\ Current(a.pair, a.cred)
    BY <1>7 DEF PhoneHandoff
  <2>2. \A s \in sessions : s.kind # "phone"
    BY DEF Emptied
  <2> QED
    BY <2>1, <2>2 DEF PhoneSession
<1> QED
  BY <1>1, <1>2, <1>3, <1>4, <1>5, <1>6, <1>7 DEF KeyCalls, LeaseCalls

LEMMA EmptyServer ==
  ASSUME EmptyInv, Emptied, ~auth.changed, ClientCalls
  PROVE  Emptied'
<1>1. CASE \E p \in Pairs, remote \in BOOLEAN, k \in 0..3 : PhoneProvision(p, remote, k)
  BY <1>1, NobodyThere DEF PhoneProvision
<1>2. CASE \/ \E k \in 0..1 : SaveClient(k)
           \/ \E c \in state.clients, k \in 0..4 : DeleteClient(c, k)
  BY <1>2 DEF SaveClient, DeleteClient
<1>3. ASSUME UNCHANGED <<pairs, journal, state, phones, base, sessions, inst, served>>,
             pub'.pc # "idle" => pub.pc # "idle" /\ pub'.state.resets = pub.state.resets
      PROVE  Emptied'
  BY <1>3 DEF Emptied
<1>4. CASE ForceStarts
  BY <1>3, <1>4 DEF ForceStarts, RouterOnly, keyvars, leasevars, policyvars, clientvars, pubvars, servers, Emptied
<1>5. CASE ForceEnds \/ Midnight
  BY <1>3, <1>5 DEF ForceEnds, Midnight, DayPasses, RouterOnly, keyvars, leasevars, policyvars, clientvars, pubvars, servers
<1>6. CASE Publisher \/ PublisherDies
  <2>1. UNCHANGED <<pairs, journal, state, phones, base, sessions>>
    BY <1>6 DEF Publisher, PublisherDies, RouterOnly, keyvars, leasevars, policyvars, clientvars
  <2>2. \/ PubBegin(FALSE) \/ PubEnds \/ PubFast \/ PubPrepare \/ PubStale
        \/ \E k : PubPublish(k)
    <3>1. Publisher =>
            PubBegin(FALSE) \/ PubFast \/ PubPrepare \/ PubStale \/ PubPublish(5)
      BY DEF Publisher, PublisherStep
    <3>2. PublisherDies => PubEnds \/ \E k \in 1..4 : PubPublish(k)
      BY DEF PublisherDies
    <3> QED
      BY <1>6, <3>1, <3>2
  <2>3. CASE PubBegin(FALSE)
    BY <2>3 DEF PubBegin, Emptied
  <2>4. CASE PubEnds \/ PubFast \/ PubStale
    BY <1>3, <2>1, <2>4, SleptShape DEF PubEnds, PubFast, PubStale, servers
  <2>5. CASE PubPrepare
    <3>1. pub' = [pub EXCEPT !.pc = "ready"] /\ pub.pc = "read" /\ UNCHANGED <<inst, served>>
      BY <2>5 DEF PubPrepare, servers
    <3>2. pub'.state = pub.state
      BY <3>1 DEF EmptyInv, Shapes, PubOK
    <3> QED
      BY <1>3, <2>1, <3>1, <3>2
  <2>6. CASE \E k : PubPublish(k)
    <3>1. state = pub.state /\ pub.pc = "ready"
      BY <2>6 DEF PubPublish, PubCurrent
    <3> QED
      BY <3>1 DEF Emptied, EmptyInv, Shapes, StateOK
  <2> QED
    BY <2>2, <2>3, <2>4, <2>5, <2>6
<1>7. CASE ServerTurn
  <2>1. UNCHANGED <<pairs, journal, state, phones, base, sessions, inst, pub>>
    BY <1>7 DEF ServerTurn, Respawn, ListenerEnds, TunnelFlips, servers, RouterOnly, keyvars, leasevars, policyvars, clientvars
  <2>2. served' = served
    <3>1. CASE Respawn
      BY <3>1 DEF Respawn, Emptied
    <3>2. CASE ListenerEnds \/ TunnelFlips
      BY <3>2 DEF ListenerEnds, TunnelFlips, servers
    <3> QED
      BY <1>7, <3>1, <3>2 DEF ServerTurn
  <2> QED
    BY <1>3, <2>1, <2>2
<1> QED
  BY <1>1, <1>2, <1>4, <1>5, <1>6, <1>7 DEF ClientCalls

LEMMA EmptyRest ==
  ASSUME EmptyInv, Emptied, Tick \/ RpcdDies \/ Reboot \/ UNCHANGED vars
  PROVE  Emptied'
<1>1. CASE Tick
  <2>1. UNCHANGED <<pairs, state, phones, base, sessions, served, inst, pub>> /\ HandoffTick
    BY <1>1 DEF Tick, HandoffTick, clientvars, pubvars, servers
  <2>2. \A p \in Pairs : journal'.lease[p] = NoLease
    BY <2>1, TickShape DEF EmptyInv, Shapes, Emptied
  <2> QED
    BY <2>1, <2>2 DEF Emptied
<1>2. CASE RpcdDies
  BY <1>2 DEF RpcdDies, leasevars, policyvars, clientvars, pubvars, servers, Emptied
<1>3. CASE Reboot
  BY <1>3 DEF Reboot, NoJournal, Asleep, clientvars, Emptied
<1>4. CASE UNCHANGED vars
  BY <1>4 DEF vars, keyvars, leasevars, policyvars, clientvars, pubvars, servers, Emptied
<1> QED
  BY <1>1, <1>2, <1>3, <1>4

LEMMA PinStep ==
  ASSUME PinInv, [ANext]_vars
  PROVE  PinInv'
  BY PinOwner, PinPhones, PinKeys, PinLeases, PinClients, PinRest DEF ANext, OwnerCalls

(* Nobody but setup_reset() takes the owner's PIN away.                      *)
LEMMA StaysChanged ==
  ASSUME KeysOK, auth.changed, [ANext]_vars, \A k \in 0..10 : ~SetupReset(k)
  PROVE  auth'.changed
<1>1. auth' = auth => auth'.changed
  OBVIOUS
<1>2. CASE OwnerCalls
  <2>1. CASE \E k \in 0..2 : Unlock(k)
    BY <1>1, <2>1 DEF Unlock, KeysOK
  <2>2. CASE \E k \in 0..6, setup \in BOOLEAN : SetPin(k, setup)
    <3>1. auth' = NewAuth \/ auth' = auth
      BY <2>2 DEF SetPin, StorePin
    <3> QED
      BY <1>1, <3>1 DEF NewAuth
  <2>3. CASE SetPinRefused
    BY <1>1, <2>3 DEF SetPinRefused, keyvars
  <2>4. CASE \/ \E p \in Pairs, c \in Creds, k \in 0..1 : PairCreate(p, c, k)
             \/ \E p \in Pairs : PairUnlock(p)
             \/ \E p \in Pairs, k \in 0..4 : PairRevoke(p, k)
    BY <1>1, <2>4 DEF PairCreate, PairUnlock, PairRevoke
  <2> QED
    BY <1>2, <2>1, <2>2, <2>3, <2>4 DEF OwnerCalls
<1>3. CASE KeyCalls
  BY <1>1, <1>3 DEF KeyCalls, Guess, SessionEnds, Enroll, FactoryPinLapses, KeysOK
<1>4. CASE LeaseCalls
  BY <1>1, <1>4 DEF LeaseCalls, Asking, PhoneHandoff, LanTurn, PhoneStatus, Forgetting, keyvars
<1>5. CASE ClientCalls
  BY <1>1, <1>5 DEF ClientCalls, PhoneProvision, SaveClient, DeleteClient, ForceStarts, ForceEnds,
     Publisher, PublisherDies, ServerTurn, Midnight, RouterOnly, keyvars
<1>6. CASE Tick \/ RpcdDies \/ Reboot \/ UNCHANGED vars
  BY <1>1, <1>6 DEF Tick, RpcdDies, Reboot, vars, keyvars
<1> QED
  BY <1>2, <1>3, <1>4, <1>5, <1>6 DEF ANext

LEMMA EmptyStep ==
  ASSUME EmptyInv, [ANext]_vars
  PROVE  EmptyInv'
<1>1. PinInv'
  BY PinStep DEF EmptyInv
<1>2. Shapes'
  BY <1>1, JournalStep, StateStep, PubStep DEF EmptyInv, Shapes, PinInv
<1>3. ASSUME ~auth'.changed
      PROVE  Emptied'
  <2>1. CASE \E k \in 0..10 : SetupReset(k)
    BY <1>3, <2>1, ResetEmpties
  <2>2. CASE \A k \in 0..10 : ~SetupReset(k)
    <3>1. ~auth.changed
      BY <1>3, <2>2, StaysChanged DEF EmptyInv, Shapes
    <3> QED
      BY <1>3, <3>1, EmptyOwner, EmptyLeases, EmptyServer, EmptyRest DEF ANext, EmptyInv
  <2> QED
    BY <2>1, <2>2
<1> QED
  BY <1>1, <1>2, <1>3 DEF EmptyInv

LEMMA EmptyInit ==
  ASSUME AInit
  PROVE  EmptyInv
<1>1. PinInv
  BY PinInit0
<1>2. JournalOK
  BY DEF AInit, HandoffInit, NoJournal, JournalOK
<1>3. StateOK
  <2>1. CASE FactoryInit
    BY <2>1 DEF FactoryInit, NoState, StateOK
  <2>2. CASE InUseInit
    <3>1. CASE PanelInit
      BY <3>1 DEF PanelInit, NoState, StateOK
    <3>2. CASE PhoneInit
      <4>1. PICK ids : state = [NoState EXCEPT !.devices = ids, !.clients = ids]
        BY <3>2 DEF PhoneInit
      <4> QED
        BY <4>1 DEF NoState, StateOK
    <3> QED
      BY <2>2, <3>1, <3>2 DEF InUseInit
  <2> QED
    BY <2>1, <2>2 DEF AInit
<1>4. PubOK /\ pub.pc = "idle"
  BY DEF AInit, PublisherInit, Asleep, NoState, PubOK
<1>5. ~auth.changed => Emptied
  <2>1. CASE FactoryInit
    BY <1>4, <2>1 DEF AInit, FactoryInit, NoPairs, NoState, HandoffInit, NoJournal, PublisherInit, Emptied
  <2>2. CASE InUseInit
    BY <2>2 DEF InUseInit
  <2> QED
    BY <2>1, <2>2 DEF AInit
<1> QED
  BY <1>1, <1>2, <1>3, <1>4, <1>5 DEF EmptyInv, Shapes, PinInv

(* Whenever a router asks for its PIN to be set anew, it has nothing of the  *)
(* owner before: setup_reset() writes the record that says so last, and what *)
(* is still at work cannot bring anything back.                              *)
THEOREM ResetLeavesNothing == ASpec => []SetupIsEmpty
<1>1. AInit => EmptyInv
  BY EmptyInit
<1>2. EmptyInv /\ [ANext]_vars => EmptyInv'
  BY EmptyStep
<1>3. EmptyInv => SetupIsEmpty
  BY DEF EmptyInv, Emptied, SetupIsEmpty
<1> QED
  BY <1>1, <1>2, <1>3, PTL DEF ASpec

-----------------------------------------------------------------------------
(* What any call may do to the policy: clear it after the right PIN or with  *)
(* a new one, count a wrong guess, or nothing.                               *)
LEMMA PolicyMoves ==
  ASSUME [ANext]_vars
  PROVE  ClearPin \/ WrongPin \/ PinTick \/ UNCHANGED pinvars
<1>1. CASE OwnerCalls
  <2>1. CASE \/ \E k \in 0..2 : Unlock(k)
             \/ \E k \in 0..10 : SetupReset(k)
    BY <2>1 DEF Unlock, SetupReset
  <2>2. CASE \E k \in 0..6, setup \in BOOLEAN : SetPin(k, setup)
    BY <2>2 DEF SetPin, StorePin
  <2>3. CASE \/ SetPinRefused
             \/ \E p \in Pairs, c \in Creds, k \in 0..1 : PairCreate(p, c, k)
             \/ \E p \in Pairs : PairUnlock(p)
             \/ \E p \in Pairs, k \in 0..4 : PairRevoke(p, k)
    BY <2>3 DEF SetPinRefused, PairCreate, PairUnlock, PairRevoke
  <2> QED
    BY <1>1, <2>1, <2>2, <2>3 DEF OwnerCalls
<1>2. CASE KeyCalls
  BY <1>2 DEF KeyCalls, Guess, SessionEnds, Enroll, FactoryPinLapses
<1>3. CASE LeaseCalls
  BY <1>3 DEF LeaseCalls, Asking, PhoneHandoff, LanTurn, PhoneStatus, Forgetting, keyvars
<1>4. CASE ClientCalls
  BY <1>4 DEF ClientCalls, PhoneProvision, SaveClient, DeleteClient, ForceStarts, ForceEnds,
     Publisher, PublisherDies, ServerTurn, Midnight, RouterOnly
<1>5. CASE Tick \/ RpcdDies \/ Reboot \/ UNCHANGED vars
  BY <1>5 DEF Tick, RpcdDies, Reboot, vars
<1> QED
  BY <1>1, <1>2, <1>3, <1>4, <1>5 DEF ANext

(* No cut, no death of rpcd and no other call gives back a guess: for every  *)
(* limit and all waits of which the first is not the longest, n batches of   *)
(* wrong guesses have cost n waits before the next guess is answered.        *)
THEOREM GuessingIsSlow == ASpec => []GuessesAreSlow
<1>1. AInit => SlowInv
  BY InitSlow DEF AInit
<1>2. SlowInv /\ [ANext]_vars => SlowInv'
  <2>1. SlowInv /\ UNCHANGED pinvars => SlowInv'
    BY DEF SlowInv, Batches, Waits, pinvars
  <2> QED
    BY <2>1, PolicyMoves, ClearSlow, WrongSlow, TickSlow
<1>3. SlowInv => GuessesAreSlow
  BY SlowEnough
<1> QED
  BY <1>1, <1>2, <1>3, PTL DEF ASpec

=============================================================================
