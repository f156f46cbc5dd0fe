------------------------------ MODULE Settings ------------------------------
(* What a restore promises: the files it replaces are one thing, which changes *)
(* at once and in few ways, and a power loss leaves one of the settings there  *)
(* were, never parts of two.                                                   *)
EXTENDS Naturals

CONSTANTS
  Jobs, Docs  \* request ids, and the document each of them restores

VARIABLES
  settings,   \* the settings in force
  kept,       \* those a power loss may leave
  disturbed   \* something happened nothing is promised for

svars == <<settings, kept, disturbed>>

\* The document's settings, as the next revision of state.json.
Restored(s, j) ==
  [state  |-> [rev |-> s.state.rev + 1, active |-> Docs[j].active,
               body |-> [doc |-> j, edits |-> 0, cut |-> FALSE]],
   config |-> Docs[j].panel,
   policy |-> j]

\* A job replaces everything, and none does it again over its own document.
Restore ==
  \E j \in Jobs : settings.state.body.doc # j /\ settings' = Restored(settings, j)

\* A call writes state.json and keeps the document it came from.
Serve ==
  /\ settings' = [settings EXCEPT !.state = settings'.state]
  /\ settings'.state.rev = settings.state.rev + 1
  /\ settings'.state.body.doc = settings.state.body.doc

\* The update tick writes the policy.
Retime ==
  /\ settings' = [settings EXCEPT !.policy = settings'.policy]
  /\ settings'.policy \in Nat

Change ==
  /\ Restore \/ Serve \/ Retime
  /\ settings' \in kept' /\ kept' \subseteq kept \union {settings'}

Flush == settings' = settings /\ settings \in kept' /\ kept' \subseteq kept

Lose == settings' \in kept /\ kept' = {settings'}

SInit == kept = {settings}
SNext == disturbed' \/ Change \/ Flush \/ Lose
SSpec == SInit /\ [][SNext]_svars

=============================================================================
