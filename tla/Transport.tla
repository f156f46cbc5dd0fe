----------------------------- MODULE Transport -----------------------------
(* tools/build-bundle-transport.py wraps a flat release bundle for transport:*)
(* the dependencies go into one archive, the other files beside it.          *)
(*                                                                           *)
(* Somebody may write to a file of the bundle, or to its SHA256SUMS, while it *)
(* is being wrapped, two runs may be given one output directory, and a run   *)
(* may be killed.  A digest is the content it was taken of: the contents of  *)
(* a file are numbered, and a file that is written to gets one it has never  *)
(* had.  SHA256SUMS is what it lists, a content for every file; it may list  *)
(* contents that are gone or that are still to be written.                   *)
EXTENDS Naturals, Sequences, FiniteSets

CONSTANTS
  Members,     \* the bundle's files; the first Archived of them are dependencies
  Archived,
  Wrappers,    \* runs of build-bundle-transport.py with the same --output
  MaxTampered  \* writes to the bundle

ASSUME TransportAssumption ==
  /\ Members \in Seq(STRING) /\ Archived \in 1..Len(Members) /\ MaxTampered \in Nat
  /\ "nobody" \notin Wrappers

VARIABLES
  flat,      \* the bundle: file -> content
  manifest,  \* its SHA256SUMS: file -> content
  tampered,  \* writes to either so far
  wrapper,   \* the wrapping processes
  out        \* the output directory: who made it, the archive's members and
             \* the files in it, the archive's digest, and its SHA256SUMS

bvars == <<flat, manifest, tampered>>
wvars == <<bvars, wrapper, out>>

MemberNames == {Members[n] : n \in DOMAIN Members}
NoWrapper == "nobody"
NoBodies == [f \in MemberNames |-> 0]
(* What the SHA256SUMS lists whose digest the operator has given.            *)
Given == [f \in MemberNames |-> 1]

WInit ==
  /\ flat = Given /\ manifest = Given /\ tampered = 0
  /\ wrapper = [w \in Wrappers |-> [pc |-> "begin", at |-> 1, rows |-> NoBodies]]
  /\ out = [by |-> NoWrapper, body |-> NoBodies, archive |-> NoBodies, sums |-> NoBodies]

Tamper(f) ==
  /\ tampered < MaxTampered /\ tampered' = tampered + 1
  /\ flat' = [flat EXCEPT ![f] = @ + 1]
  /\ UNCHANGED <<manifest, wrapper, out>>

TamperManifest(rows) ==
  /\ tampered < MaxTampered /\ tampered' = tampered + 1
  /\ manifest' = rows
  /\ UNCHANGED <<flat, wrapper, out>>

Member(w) == Members[wrapper[w].at]
WrapGoto(w, pc) == wrapper' = [wrapper EXCEPT ![w].pc = pc, ![w].at = 1]
WrapNext(w, last, after) ==
  IF wrapper[w].at < last THEN wrapper' = [wrapper EXCEPT ![w].at = @ + 1]
  ELSE WrapGoto(w, after)

-----------------------------------------------------------------------------
(* build()                                                                   *)

(* A fresh output, and a manifest of the digest that was given.              *)
WrapBegin(w) ==
  /\ wrapper[w].pc = "begin"
  /\ WrapGoto(w, IF out.by = NoWrapper /\ manifest = Given THEN "read" ELSE "refused")
  /\ UNCHANGED <<bvars, out>>

(* The manifest is read once more, for its lines.                            *)
WrapRead(w) ==
  /\ wrapper[w].pc = "read"
  /\ wrapper' = [wrapper EXCEPT ![w] = [pc |-> "check", at |-> 1, rows |-> manifest]]
  /\ UNCHANGED <<bvars, out>>

(* Each file against its line.                                               *)
AsListed(w) == flat[Member(w)] = wrapper[w].rows[Member(w)]
WrapCheck(w) ==
  /\ wrapper[w].pc = "check"
  /\ IF AsListed(w) THEN WrapNext(w, Len(Members), "mkdir") ELSE WrapGoto(w, "refused")
  /\ UNCHANGED <<bvars, out>>

WrapMkdir(w) ==
  /\ wrapper[w].pc = "mkdir"
  /\ IF out.by = NoWrapper
       THEN WrapGoto(w, "tar") /\ out' = [out EXCEPT !.by = w]
       ELSE WrapGoto(w, "refused") /\ UNCHANGED out
  /\ UNCHANGED bvars

(* The dependencies are read again into the archive, ...                     *)
WrapTar(w) ==
  /\ wrapper[w].pc = "tar"
  /\ out' = [out EXCEPT !.body[Member(w)] = flat[Member(w)]]
  /\ WrapNext(w, Archived, "descriptor")
  /\ UNCHANGED bvars

(* ... the descriptor pins the archive as it is now, ...                     *)
WrapDescriptor(w) ==
  /\ wrapper[w].pc = "descriptor"
  /\ out' = [out EXCEPT !.archive = out.body]
  /\ IF Archived < Len(Members)
       THEN wrapper' = [wrapper EXCEPT ![w].pc = "copy", ![w].at = Archived + 1]
       ELSE WrapGoto(w, "sums")
  /\ UNCHANGED bvars

(* ... and the others are copied.                                            *)
WrapCopy(w) ==
  /\ wrapper[w].pc = "copy"
  /\ out' = [out EXCEPT !.body[Member(w)] = flat[Member(w)]]
  /\ WrapNext(w, Len(Members), "sums")
  /\ UNCHANGED bvars

(* The new SHA256SUMS takes the digests of the files from the lines.         *)
WrapSums(w) ==
  /\ wrapper[w].pc = "sums"
  /\ out' = [out EXCEPT !.sums = wrapper[w].rows]
  /\ WrapGoto(w, "recheck")
  /\ UNCHANGED bvars

X_WrapRecheck(w) ==
  /\ wrapper[w].pc = "recheck"
  /\ WrapGoto(w, "done")
  /\ UNCHANGED <<bvars, out>>
(* Every file is read a third time; a refusal leaves the output there.       *)
WrapRecheck(w) ==
  /\ wrapper[w].pc = "recheck"
  /\ IF AsListed(w) THEN WrapNext(w, Len(Members), "done") ELSE WrapGoto(w, "refused")
  /\ UNCHANGED <<bvars, out>>

WrapKilled(w) ==
  /\ wrapper[w].pc \notin {"begin", "done", "refused", "dead"}
  /\ WrapGoto(w, "dead")
  /\ UNCHANGED <<bvars, out>>

WrapStep(w) ==
  \/ WrapBegin(w) \/ WrapRead(w) \/ WrapCheck(w) \/ WrapMkdir(w) \/ WrapTar(w) \/ WrapDescriptor(w)
  \/ WrapCopy(w) \/ WrapSums(w) \/ WrapRecheck(w) \/ WrapKilled(w)

WNext ==
  \/ \E f \in MemberNames : Tamper(f)
  \/ \E rows \in [MemberNames -> 1..(MaxTampered + 1)] \ {Given} : TamperManifest(rows)
  \/ \E w \in Wrappers : WrapStep(w)

-----------------------------------------------------------------------------
(* A run that ended well has left a transport whose archive and files have   *)
(* exactly the digests its own SHA256SUMS gives, even if somebody wrote to   *)
(* the bundle or its manifest or another run was given the same output; and  *)
(* as long as the manifest has not been rewritten, these are the digests of  *)
(* the manifest the operator vouched for.                                    *)
(* (build-bundle-transport.py build())                                       *)
TransportIsTheBundle ==
  (\E w \in Wrappers : wrapper[w].pc = "done") =>
    /\ manifest = Given => out.sums = Given
    /\ \A n \in DOMAIN Members :
         /\ out.body[Members[n]] = out.sums[Members[n]] /\ out.body[Members[n]] # 0
         /\ n <= Archived => out.archive[Members[n]] = out.sums[Members[n]]

=============================================================================
