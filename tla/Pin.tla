-------------------------------- MODULE Pin --------------------------------
(* The panel's PIN policy (pin-policy.uc, check_pin() of the RPCs): wrong    *)
(* guesses are counted in a file that outlives rpcd and not a reboot; every  *)
(* PinLimit of them cost a wait, the first a short one, the later ones long. *)
EXTENDS Naturals

CONSTANTS
  PinLimit,    \* wrong guesses before a wait (6)
  ShortBlock,  \* ticks of the first wait (60 s)
  LongBlock,   \* ticks of the later ones (300 s)
  MaxGuesses   \* wrong guesses that are answered in a behaviour

ASSUME PinAssumption ==
  /\ PinLimit \in Nat \ {0} /\ MaxGuesses \in Nat
  /\ ShortBlock \in Nat \ {0} /\ LongBlock \in Nat /\ ShortBlock <= LongBlock

VARIABLES
  policy,  \* pin-attempts.json: failures, tier, ticks that are left of a wait
  tally    \* history: guesses answered as wrong since the policy was cleared,
           \* and the ticks since the first of them

pinvars == <<policy, tally>>

Cleared == [failures |-> 0, tier |-> 0, blocked |-> 0]
NoGuess == [wrong |-> 0, ticks |-> 0]

PinInit == policy = Cleared /\ tally = NoGuess
ClearPin == policy' = Cleared /\ tally' = NoGuess

Cooling == policy.blocked > 0

X_Failed ==
  IF policy.failures + 1 < PinLimit THEN [policy EXCEPT !.failures = @ + 1]
  ELSE [failures |-> 0, tier |-> 1, blocked |-> ShortBlock]
Failed ==
  IF policy.failures + 1 < PinLimit THEN [policy EXCEPT !.failures = @ + 1]
  ELSE [failures |-> 0, tier |-> IF policy.tier = 0 THEN 1 ELSE 2,
        blocked |-> IF policy.tier = 0 THEN ShortBlock ELSE LongBlock]

(* check_pin() of a wrong PIN: the verdict is given only once it is counted. *)
WrongPin ==
  /\ ~Cooling /\ tally.wrong < MaxGuesses
  /\ policy' = Failed
  /\ tally' = [tally EXCEPT !.wrong = @ + 1]

PinTick ==
  /\ policy' = [policy EXCEPT !.blocked = IF @ = 0 THEN 0 ELSE @ - 1]
  /\ tally' = IF tally.wrong = 0 THEN tally
              ELSE [tally EXCEPT !.ticks = IF @ < MaxGuesses * LongBlock THEN @ + 1 ELSE @]

-----------------------------------------------------------------------------
(* Whoever guesses on after n batches of PinLimit wrong guesses has waited   *)
(* the first short and n - 1 long blocks, whatever failed writes and deaths  *)
(* of rpcd came in between.  (pin-policy.uc failed(), check_pin())           *)
GuessesAreSlow ==
  LET batches == (tally.wrong - 1) \div PinLimit IN
  tally.wrong > PinLimit => tally.ticks >= ShortBlock + (batches - 1) * LongBlock

=============================================================================
