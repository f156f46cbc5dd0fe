---------------------------- MODULE ReleaseProofs ----------------------------
(* What the release lines promise, for any number of runs, files, writes and *)
(* deaths: the transport, the installation of the helper, and the two bundle *)
(* lines as implementations of Publication.                                  *)
EXTENDS Release, TLAPS

-----------------------------------------------------------------------------
(* build-bundle-transport.py                                                 *)

WPcs == {"begin", "read", "check", "mkdir", "tar", "descriptor", "copy", "sums", "recheck",
         "done", "refused", "dead"}
Owning == {"tar", "descriptor", "copy", "sums", "recheck", "done"}
Bodies == [MemberNames -> Nat]
Runs == [Wrappers -> [pc : WPcs, at : 1..Len(Members), rows : Bodies]]
Outputs == [by : Wrappers \cup {NoWrapper}, body : Bodies, archive : Bodies, sums : Bodies]

WrapOK ==
  /\ flat \in [MemberNames -> Nat \ {0}] /\ manifest \in Bodies
  /\ wrapper \in Runs
  /\ out \in Outputs

(* The output is of one run at most, and nothing in it is newer than the     *)
(* bundle.                                                                   *)
Owned == \A w \in Wrappers : wrapper[w].pc \in Owning => out.by = w
NotNewer == \A f \in MemberNames : out.body[f] <= flat[f] /\ out.archive[f] <= flat[f]

(* No file is older than the line a run has checked it against, ...          *)
Row(w, m) == wrapper[w].rows[Members[m]]
NotOlder(w, m) == 0 < Row(w, m) /\ Row(w, m) <= flat[Members[m]]
Vouched(w) ==
  /\ wrapper[w].pc \in Owning \cup {"check", "mkdir"} /\ manifest = Given =>
       wrapper[w].rows = Given
  /\ wrapper[w].pc = "check" => \A m \in 1..Len(Members) : m < wrapper[w].at => NotOlder(w, m)
  /\ wrapper[w].pc \in Owning \cup {"mkdir"} => \A m \in 1..Len(Members) : NotOlder(w, m)

(* ... and neither is what the run has taken of it since.                    *)
There(w, m) == Row(w, m) <= out.body[Members[m]]
Packed(w, m) == m <= Archived => Row(w, m) <= out.archive[Members[m]]
Right(w, m) ==
  /\ out.body[Members[m]] = Row(w, m)
  /\ m <= Archived => out.archive[Members[m]] = Row(w, m)
Tarred(w) ==
  wrapper[w].pc = "tar" =>
    /\ wrapper[w].at <= Archived
    /\ \A m \in 1..Len(Members) : m < wrapper[w].at => There(w, m)
Described(w) ==
  wrapper[w].pc = "descriptor" => \A m \in 1..Len(Members) : m <= Archived => There(w, m)
Copied(w) ==
  wrapper[w].pc = "copy" =>
    \A m \in 1..Len(Members) : (m < wrapper[w].at => There(w, m)) /\ Packed(w, m)
Summed(w) ==
  wrapper[w].pc \in {"sums", "recheck", "done"} =>
    \A m \in 1..Len(Members) : There(w, m) /\ Packed(w, m)
Reread(w) ==
  /\ wrapper[w].pc \in {"recheck", "done"} => out.sums = wrapper[w].rows
  /\ wrapper[w].pc = "recheck" => \A m \in 1..Len(Members) : m < wrapper[w].at => Right(w, m)
  /\ wrapper[w].pc = "done" => \A m \in 1..Len(Members) : Right(w, m)
Taken(w) == Tarred(w) /\ Described(w) /\ Copied(w) /\ Summed(w) /\ Reread(w)

WrapInv == WrapOK /\ Owned /\ NotNewer /\ \A w \in Wrappers : Vouched(w) /\ Taken(w)

LEMMA MembersAre ==
  /\ Len(Members) \in Nat /\ DOMAIN Members = 1..Len(Members)
  /\ Archived \in 1..Len(Members) /\ NoWrapper \notin Wrappers
  /\ \A m \in 1..Len(Members) : Members[m] \in MemberNames
  BY TransportAssumption DEF MemberNames, NoWrapper

LEMMA WrapTypes ==
  ASSUME WrapOK, NEW w \in Wrappers
  PROVE  /\ wrapper[w].at \in 1..Len(Members) /\ wrapper[w].pc \in WPcs
         /\ wrapper[w].rows \in Bodies
         /\ \A m \in 1..Len(Members) :
              /\ Row(w, m) \in Nat /\ flat[Members[m]] \in Nat \ {0}
              /\ out.body[Members[m]] \in Nat /\ out.archive[Members[m]] \in Nat
<1>1. wrapper[w].at \in 1..Len(Members) /\ wrapper[w].pc \in WPcs /\ wrapper[w].rows \in Bodies
  BY DEF WrapOK, Runs
<1>2. out.body \in Bodies /\ out.archive \in Bodies
  BY DEF WrapOK, Outputs
<1>3. ASSUME NEW m \in 1..Len(Members)
      PROVE  /\ Row(w, m) \in Nat /\ flat[Members[m]] \in Nat \ {0}
             /\ out.body[Members[m]] \in Nat /\ out.archive[Members[m]] \in Nat
  <2>1. Members[m] \in MemberNames
    BY MembersAre
  <2> QED
    BY <1>1, <1>2, <2>1 DEF WrapOK, Bodies, Row
<1> QED
  BY <1>1, <1>3

(* What nobody writes to vouches as before.                                  *)
LEMMA VouchedKept ==
  ASSUME WrapInv, NEW w \in Wrappers, wrapper'[w] = wrapper[w], WrapOK',
         manifest' = Given => manifest = Given,
         \A f \in MemberNames : flat[f] <= flat'[f]
  PROVE  Vouched(w)'
<1>1. ASSUME NEW m \in 1..Len(Members), NotOlder(w, m)
      PROVE  NotOlder(w, m)'
  <2>1. Row(w, m)' = Row(w, m)
    BY DEF Row
  <2>2. Row(w, m) \in Nat /\ flat[Members[m]] \in Nat /\ flat'[Members[m]] \in Nat
    BY MembersAre, WrapTypes DEF WrapInv, WrapOK
  <2>3. flat[Members[m]] <= flat'[Members[m]]
    BY MembersAre
  <2> QED
    BY <1>1, <2>1, <2>2, <2>3 DEF NotOlder
<1> QED
  BY <1>1 DEF WrapInv, Vouched

(* Whatever leaves the output alone and brings no run further than its end.  *)
LEMMA OutputKept ==
  ASSUME WrapInv, WrapOK', out' = out, manifest' = Given => manifest = Given,
         \A f \in MemberNames : flat[f] <= flat'[f],
         \A w \in Wrappers :
           wrapper'[w] = wrapper[w] \/ (wrapper'[w].pc \notin Owning /\ Vouched(w)')
  PROVE  WrapInv'
<1>1. Owned'
  BY DEF WrapInv, Owned
<1>2. NotNewer'
  <2> SUFFICES ASSUME NEW f \in MemberNames
               PROVE  out.body[f] <= flat'[f] /\ out.archive[f] <= flat'[f]
    BY DEF NotNewer
  <2>1. /\ flat[f] \in Nat /\ flat'[f] \in Nat /\ out.body[f] \in Nat /\ out.archive[f] \in Nat
        /\ out.body[f] <= flat[f] /\ out.archive[f] <= flat[f] /\ flat[f] <= flat'[f]
    BY DEF WrapInv, WrapOK, Outputs, Bodies, NotNewer
  <2> QED
    BY <2>1
<1>3. ASSUME NEW w \in Wrappers
      PROVE  Vouched(w)' /\ Taken(w)'
  <2>1. CASE wrapper'[w] = wrapper[w]
    <3>1. Taken(w)'
      BY <2>1 DEF WrapInv, Taken, Tarred, Described, Copied, Summed, Reread, There, Packed, Right, Row
    <3> QED
      BY <2>1, <3>1, VouchedKept
  <2>2. CASE wrapper'[w].pc \notin Owning /\ Vouched(w)'
    BY <2>2 DEF Taken, Tarred, Described, Copied, Summed, Reread, Owning
  <2> QED
    BY <2>1, <2>2
<1> QED
  BY <1>1, <1>2, <1>3 DEF WrapInv

LEMMA WrapStarts ==
  ASSUME WInit
  PROVE  WrapInv
<1>1. WrapOK
  BY MembersAre DEF WInit, WrapOK, Runs, Outputs, NoBodies, Given, Bodies, WPcs
<1>2. \A w \in Wrappers : wrapper[w].pc = "begin"
  BY DEF WInit
<1>3. Owned /\ \A w \in Wrappers : Vouched(w) /\ Taken(w)
  BY <1>2 DEF Owned, Owning, Vouched, Taken, Tarred, Described, Copied, Summed, Reread
<1>4. NotNewer
  BY DEF WInit, NotNewer, NoBodies, Given
<1> QED
  BY <1>1, <1>3, <1>4 DEF WrapInv

(* A run goes to a stage, or to the next file of the one it is in.           *)
LEMMA Goes ==
  ASSUME WrapOK, NEW w \in Wrappers, NEW pc \in WPcs, WrapGoto(w, pc)
  PROVE  /\ wrapper' \in Runs
         /\ wrapper'[w].pc = pc /\ wrapper'[w].at = 1 /\ wrapper'[w].rows = wrapper[w].rows
         /\ \A v \in Wrappers : v # w => wrapper'[v] = wrapper[v]
<1>1. 1 \in 1..Len(Members)
  BY MembersAre
<1>2. wrapper' = [wrapper EXCEPT ![w].pc = pc, ![w].at = 1]
  BY DEF WrapGoto
<1> QED
  BY <1>1, <1>2 DEF WrapOK, Runs

LEMMA GoesOn ==
  ASSUME WrapOK, NEW w \in Wrappers, NEW last \in 1..Len(Members), NEW pc \in WPcs,
         WrapNext(w, last, pc)
  PROVE  /\ wrapper' \in Runs
         /\ \/ /\ wrapper[w].at < last
               /\ wrapper'[w].pc = wrapper[w].pc /\ wrapper'[w].at = wrapper[w].at + 1
            \/ ~(wrapper[w].at < last) /\ wrapper'[w].pc = pc /\ wrapper'[w].at = 1
         /\ wrapper'[w].rows = wrapper[w].rows
         /\ \A v \in Wrappers : v # w => wrapper'[v] = wrapper[v]
<1>1. CASE wrapper[w].at < last
  <2>1. wrapper' = [wrapper EXCEPT ![w].at = @ + 1]
    BY <1>1 DEF WrapNext
  <2>2. wrapper[w].at + 1 \in 1..Len(Members)
    BY <1>1, MembersAre DEF WrapOK, Runs
  <2> QED
    BY <1>1, <2>1, <2>2 DEF WrapOK, Runs
<1>2. CASE ~(wrapper[w].at < last)
  <2>1. WrapGoto(w, pc)
    BY <1>2 DEF WrapNext
  <2> QED
    BY <1>2, <2>1, Goes
<1> QED
  BY <1>1, <1>2

(* A step that leaves the bundle and the output alone and goes to no stage   *)
(* that counts.                                                              *)
LEMMA Unmoved ==
  ASSUME WrapInv, NEW w \in Wrappers, UNCHANGED <<bvars, out>>, wrapper' \in Runs,
         wrapper'[w].pc \notin Owning, Vouched(w)',
         \A v \in Wrappers : v # w => wrapper'[v] = wrapper[v]
  PROVE  WrapInv'
<1>1. flat' = flat /\ manifest' = manifest /\ out' = out /\ WrapOK'
  BY DEF bvars, WrapInv, WrapOK
<1>2. \A f \in MemberNames : flat[f] <= flat'[f]
  BY <1>1 DEF WrapInv, WrapOK
<1> QED
  BY <1>1, <1>2, OutputKept

LEMMA LeavesOff ==
  ASSUME WrapInv, NEW w \in Wrappers, UNCHANGED <<bvars, out>>,
         NEW pc \in {"read", "refused", "dead"}, WrapGoto(w, pc)
  PROVE  WrapInv'
<1>1. /\ wrapper' \in Runs /\ wrapper'[w].pc = pc
      /\ \A v \in Wrappers : v # w => wrapper'[v] = wrapper[v]
  BY Goes DEF WrapInv, WPcs
<1>2. wrapper'[w].pc \notin Owning /\ Vouched(w)'
  BY <1>1 DEF Owning, Vouched
<1> QED
  BY <1>1, <1>2, Unmoved

LEMMA ReadsManifest ==
  ASSUME WrapInv, NEW w \in Wrappers, WrapRead(w)
  PROVE  WrapInv'
<1>1. /\ UNCHANGED <<bvars, out>> /\ manifest' = manifest
      /\ wrapper' = [wrapper EXCEPT ![w] = [pc |-> "check", at |-> 1, rows |-> manifest]]
  BY DEF WrapRead, bvars
<1>2. /\ wrapper' \in Runs
      /\ wrapper'[w].pc = "check" /\ wrapper'[w].at = 1 /\ wrapper'[w].rows = manifest
      /\ \A v \in Wrappers : v # w => wrapper'[v] = wrapper[v]
  BY <1>1, MembersAre DEF WrapInv, WrapOK, Runs, WPcs
<1>3. Vouched(w)'
  BY <1>1, <1>2, MembersAre DEF Vouched, Owning
<1> QED
  BY <1>1, <1>2, <1>3, Unmoved DEF Owning

LEMMA Checks ==
  ASSUME WrapInv, NEW w \in Wrappers, WrapCheck(w)
  PROVE  WrapInv'
<1>1. /\ UNCHANGED <<bvars, out>> /\ wrapper[w].pc = "check" /\ WrapOK /\ Vouched(w)
      /\ flat' = flat /\ manifest' = manifest
  BY DEF WrapCheck, WrapInv, bvars
<1>2. CASE WrapGoto(w, "refused")
  BY <1>1, <1>2, LeavesOff
<1>3. CASE AsListed(w) /\ WrapNext(w, Len(Members), "mkdir")
  <2>1. "mkdir" \in WPcs /\ Len(Members) \in 1..Len(Members)
    BY MembersAre DEF WPcs
  <2>2. /\ wrapper' \in Runs /\ wrapper'[w].rows = wrapper[w].rows
        /\ \/ /\ wrapper[w].at < Len(Members)
              /\ wrapper'[w].pc = "check" /\ wrapper'[w].at = wrapper[w].at + 1
           \/ ~(wrapper[w].at < Len(Members)) /\ wrapper'[w].pc = "mkdir" /\ wrapper'[w].at = 1
        /\ \A v \in Wrappers : v # w => wrapper'[v] = wrapper[v]
    BY <1>1, <1>3, <2>1, GoesOn
  <2>3. wrapper[w].at \in 1..Len(Members)
    BY <1>1, WrapTypes
  <2>4. NotOlder(w, wrapper[w].at)
    <3>1. Row(w, wrapper[w].at) = flat[Members[wrapper[w].at]]
      BY <1>3 DEF AsListed, Member, Row
    <3>2. flat[Members[wrapper[w].at]] \in Nat \ {0}
      BY <1>1, <2>3, WrapTypes
    <3> QED
      BY <3>1, <3>2 DEF NotOlder
  <2>5. \A m \in 1..Len(Members) : m < wrapper[w].at + 1 => NotOlder(w, m)'
    <3> SUFFICES ASSUME NEW m \in 1..Len(Members), m < wrapper[w].at + 1
                 PROVE  NotOlder(w, m)'
      OBVIOUS
    <3>1. m < wrapper[w].at \/ m = wrapper[w].at
      BY <2>3
    <3>2. NotOlder(w, m)
      BY <1>1, <2>4, <3>1 DEF Vouched
    <3> QED
      BY <1>1, <2>2, <3>2 DEF NotOlder, Row
  <2>6. Vouched(w)'
    <3>1. manifest' = Given => wrapper'[w].rows = Given
      BY <1>1, <2>2 DEF Vouched
    <3>2. CASE wrapper'[w].pc = "check" /\ wrapper'[w].at = wrapper[w].at + 1
      BY <2>5, <3>1, <3>2 DEF Vouched, Owning
    <3>3. CASE ~(wrapper[w].at < Len(Members)) /\ wrapper'[w].pc = "mkdir"
      <4>1. \A m \in 1..Len(Members) : m < wrapper[w].at + 1
        BY <2>3, <3>3, MembersAre
      <4> QED
        BY <2>5, <3>1, <3>3, <4>1 DEF Vouched, Owning
    <3> QED
      BY <2>2, <3>2, <3>3
  <2>7. wrapper'[w].pc \notin Owning
    BY <2>2 DEF Owning
  <2> QED
    BY <1>1, <2>2, <2>6, <2>7, Unmoved
<1> QED
  BY <1>2, <1>3 DEF WrapCheck

(* The steps that leave the output alone.                                    *)
LEMMA OutputUntouched ==
  ASSUME WrapInv, NEW w \in Wrappers,
         \/ WrapBegin(w) \/ WrapRead(w) \/ WrapCheck(w) \/ WrapKilled(w)
         \/ WrapMkdir(w) /\ out.by # NoWrapper
  PROVE  WrapInv'
<1>1. CASE WrapBegin(w) \/ WrapKilled(w) \/ (WrapMkdir(w) /\ out.by # NoWrapper)
  <2>1. UNCHANGED <<bvars, out>> /\ \E pc \in {"read", "refused", "dead"} : WrapGoto(w, pc)
    BY <1>1 DEF WrapBegin, WrapKilled, WrapMkdir
  <2> QED
    BY <2>1, LeavesOff
<1> QED
  BY <1>1, ReadsManifest, Checks

LEMMA Tampers ==
  ASSUME WrapInv, NEW f \in MemberNames, Tamper(f)
  PROVE  WrapInv'
<1>1. /\ wrapper' = wrapper /\ out' = out /\ manifest' = manifest
      /\ flat' = [flat EXCEPT ![f] = @ + 1] /\ WrapOK
  BY DEF WrapInv, Tamper
<1>2. WrapOK' /\ \A g \in MemberNames : flat[g] <= flat'[g]
  BY <1>1 DEF WrapOK
<1> QED
  BY <1>1, <1>2, OutputKept

LEMMA TampersManifest ==
  ASSUME WrapInv, NEW rows \in [MemberNames -> 1..(MaxTampered + 1)] \ {Given},
         TamperManifest(rows)
  PROVE  WrapInv'
<1>1. /\ wrapper' = wrapper /\ out' = out /\ manifest' = rows /\ flat' = flat /\ WrapOK
  BY DEF WrapInv, TamperManifest
<1>2. WrapOK' /\ \A g \in MemberNames : flat[g] <= flat'[g]
  <2>1. rows \in Bodies
    BY TransportAssumption DEF Bodies
  <2> QED
    BY <1>1, <2>1 DEF WrapOK
<1>3. manifest' # Given
  BY <1>1
<1> QED
  BY <1>1, <1>2, <1>3, OutputKept

(* While one run owns the output, no other is at a stage that counts.        *)
LEMMA OthersOut ==
  ASSUME WrapInv, NEW w \in Wrappers, out'.by = w, out.by \in {w, NoWrapper},
         flat' = flat, manifest' = manifest,
         wrapper[w].pc \in Owning \cup {"mkdir"}, wrapper'[w].pc \in Owning,
         wrapper'[w].rows = wrapper[w].rows,
         \A v \in Wrappers : v # w => wrapper'[v] = wrapper[v]
  PROVE  /\ Owned' /\ \A v \in Wrappers : Vouched(v)'
         /\ \A v \in Wrappers : v # w => Taken(v)'
<1>1. \A v \in Wrappers : v # w => wrapper'[v].pc \notin Owning
  BY MembersAre DEF WrapInv, Owned
<1>2. Owned'
  BY <1>1 DEF Owned
<1>3. ASSUME NEW v \in Wrappers, v # w
      PROVE  Taken(v)'
  BY <1>1, <1>3 DEF Taken, Tarred, Described, Copied, Summed, Reread, Owning
<1>4. ASSUME NEW v \in Wrappers, v # w
      PROVE  Vouched(v)'
  BY <1>4 DEF WrapInv, Vouched, NotOlder, Row
<1>5. Vouched(w)'
  BY DEF WrapInv, Vouched, NotOlder, Row, Owning
<1> QED
  BY <1>2, <1>3, <1>4, <1>5

LEMMA MakesOutput ==
  ASSUME WrapInv, NEW w \in Wrappers, WrapMkdir(w), out.by = NoWrapper
  PROVE  WrapInv'
<1>1. /\ wrapper[w].pc = "mkdir" /\ WrapGoto(w, "tar") /\ out' = [out EXCEPT !.by = w]
      /\ flat' = flat /\ manifest' = manifest /\ WrapOK
  BY DEF WrapMkdir, WrapInv, bvars
<1>2. /\ wrapper' \in Runs
      /\ wrapper'[w].pc = "tar" /\ wrapper'[w].at = 1 /\ wrapper'[w].rows = wrapper[w].rows
      /\ \A v \in Wrappers : v # w => wrapper'[v] = wrapper[v]
  BY <1>1, Goes DEF WPcs
<1>3. out'.by = w /\ out'.body = out.body /\ out'.archive = out.archive /\ WrapOK'
  BY <1>1, <1>2 DEF WrapOK, Outputs
<1>4. NotNewer'
  BY <1>1, <1>3 DEF WrapInv, NotNewer
<1>5. Taken(w)'
  BY <1>2, MembersAre DEF Taken, Tarred, Described, Copied, Summed, Reread
<1> QED
  BY <1>1, <1>2, <1>3, <1>4, <1>5, OthersOut DEF WrapInv, Owning

(* One file is read, and is no older than its line.                          *)
LEMMA Reads ==
  ASSUME WrapInv, NEW w \in Wrappers, UNCHANGED bvars, wrapper[w].pc \in Owning,
         wrapper'[w].rows = wrapper[w].rows,
         out' = [out EXCEPT !.body[Member(w)] = flat[Member(w)]]
  PROVE  /\ flat' = flat /\ manifest' = manifest
         /\ out' \in Outputs
         /\ out'.by = out.by /\ out'.archive = out.archive /\ out'.sums = out.sums
         /\ \A m \in 1..Len(Members) :
              m = wrapper[w].at \/ There(w, m) => There(w, m)'
         /\ NotNewer'
<1>0. flat' = flat /\ manifest' = manifest
  BY DEF bvars
<1>1. Member(w) \in MemberNames /\ wrapper[w].at \in 1..Len(Members)
  BY MembersAre, WrapTypes DEF WrapInv, Member
<1>2. flat[Member(w)] \in Nat /\ out.body \in Bodies /\ out \in Outputs
  BY <1>1 DEF WrapInv, WrapOK, Outputs
<1>3. out'.body = [out.body EXCEPT ![Member(w)] = flat[Member(w)]]
  BY <1>2 DEF Outputs
<1>4. out'.body \in Bodies /\ \A f \in MemberNames :
        out'.body[f] = IF f = Member(w) THEN flat[f] ELSE out.body[f]
  BY <1>1, <1>2, <1>3 DEF Bodies
<1>5. /\ out' \in Outputs
      /\ out'.by = out.by /\ out'.archive = out.archive /\ out'.sums = out.sums
  BY <1>2, <1>3, <1>4 DEF Outputs
<1>6. ASSUME NEW m \in 1..Len(Members), m = wrapper[w].at \/ There(w, m)
      PROVE  There(w, m)'
  <2>1. Row(w, m) <= flat[Members[m]] /\ Members[m] \in MemberNames
    BY MembersAre DEF WrapInv, Vouched, NotOlder
  <2>2. Row(w, m)' = Row(w, m)
    BY DEF Row
  <2>3. CASE Members[m] = Member(w)
    BY <1>4, <2>1, <2>2, <2>3 DEF There
  <2>4. CASE Members[m] # Member(w)
    BY <1>4, <1>6, <2>1, <2>2, <2>4 DEF There, Member
  <2> QED
    BY <2>3, <2>4
<1>7. NotNewer'
  <2> SUFFICES ASSUME NEW f \in MemberNames
               PROVE  out'.body[f] <= flat[f] /\ out.archive[f] <= flat[f]
    BY <1>0, <1>5 DEF NotNewer
  <2>1. flat[f] \in Nat /\ out.body[f] <= flat[f] /\ out.archive[f] <= flat[f]
    BY DEF WrapInv, NotNewer, WrapOK
  <2> QED
    BY <1>4, <2>1
<1> QED
  BY <1>0, <1>5, <1>6, <1>7

LEMMA Tars ==
  ASSUME WrapInv, NEW w \in Wrappers, WrapTar(w)
  PROVE  WrapInv'
<1>1. /\ wrapper[w].pc = "tar" /\ UNCHANGED bvars /\ out.by = w /\ WrapOK /\ Tarred(w)
      /\ WrapNext(w, Archived, "descriptor")
      /\ out' = [out EXCEPT !.body[Member(w)] = flat[Member(w)]]
  BY DEF WrapTar, WrapInv, Owned, Owning, Taken
<1>2. /\ wrapper' \in Runs /\ wrapper'[w].rows = wrapper[w].rows
      /\ \/ /\ wrapper[w].at < Archived
            /\ wrapper'[w].pc = "tar" /\ wrapper'[w].at = wrapper[w].at + 1
         \/ ~(wrapper[w].at < Archived) /\ wrapper'[w].pc = "descriptor" /\ wrapper'[w].at = 1
      /\ \A v \in Wrappers : v # w => wrapper'[v] = wrapper[v]
  <2>1. "descriptor" \in WPcs /\ Archived \in 1..Len(Members)
    BY MembersAre DEF WPcs
  <2> QED
    BY <1>1, <2>1, GoesOn
<1>3. /\ flat' = flat /\ manifest' = manifest /\ out' \in Outputs /\ out'.by = w /\ NotNewer'
      /\ \A m \in 1..Len(Members) : m = wrapper[w].at \/ There(w, m) => There(w, m)'
  BY <1>1, <1>2, Reads DEF Owning
<1>4. wrapper[w].at \in 1..Len(Members) /\ WrapOK'
  BY <1>1, <1>2, <1>3, WrapTypes DEF WrapOK
<1>5. Tarred(w)'
  BY <1>1, <1>2, <1>3, <1>4, MembersAre DEF Tarred
<1>6. Described(w)'
  BY <1>1, <1>2, <1>3, <1>4, MembersAre DEF Tarred, Described
<1>7. Taken(w)'
  BY <1>2, <1>5, <1>6 DEF Taken, Copied, Summed, Reread
<1>8. wrapper'[w].pc \in Owning
  BY <1>2 DEF Owning
<1> QED
  BY <1>1, <1>2, <1>3, <1>4, <1>7, <1>8, OthersOut DEF WrapInv, Owning

LEMMA Describes ==
  ASSUME WrapInv, NEW w \in Wrappers, WrapDescriptor(w)
  PROVE  WrapInv'
<1>1. /\ wrapper[w].pc = "descriptor" /\ flat' = flat /\ manifest' = manifest
      /\ out.by = w /\ WrapOK /\ Described(w)
      /\ out' = [out EXCEPT !.archive = out.body]
  BY DEF WrapDescriptor, WrapInv, Owned, Owning, Taken, bvars
<1>2. out'.by = w /\ out'.body = out.body /\ out'.archive = out.body /\ out' \in Outputs
  BY <1>1 DEF WrapOK, Outputs
<1>3. /\ wrapper' \in Runs /\ wrapper'[w].rows = wrapper[w].rows
      /\ \/ wrapper'[w].pc = "copy" /\ wrapper'[w].at = Archived + 1
         \/ Archived = Len(Members) /\ wrapper'[w].pc = "sums"
      /\ \A v \in Wrappers : v # w => wrapper'[v] = wrapper[v]
  <2>1. CASE Archived < Len(Members)
    <3>1. wrapper' = [wrapper EXCEPT ![w].pc = "copy", ![w].at = Archived + 1]
      BY <2>1 DEF WrapDescriptor
    <3>2. Archived + 1 \in 1..Len(Members) /\ "copy" \in WPcs
      BY <2>1, MembersAre DEF WPcs
    <3> QED
      BY <1>1, <3>1, <3>2 DEF WrapOK, Runs
  <2>2. CASE ~(Archived < Len(Members))
    <3>1. WrapGoto(w, "sums") /\ Archived = Len(Members) /\ "sums" \in WPcs
      BY <2>2, MembersAre DEF WrapDescriptor, WPcs
    <3> QED
      BY <1>1, <3>1, Goes
  <2> QED
    BY <2>1, <2>2
<1>4. WrapOK' /\ wrapper'[w].pc \in Owning
  BY <1>1, <1>2, <1>3 DEF WrapOK, Owning
<1>5. NotNewer'
  BY <1>1, <1>2 DEF WrapInv, NotNewer
<1>6. \A m \in 1..Len(Members) : m <= Archived => There(w, m)' /\ Packed(w, m)'
  <2> SUFFICES ASSUME NEW m \in 1..Len(Members), m <= Archived
               PROVE  There(w, m)' /\ Packed(w, m)'
    OBVIOUS
  <2>1. There(w, m)
    BY <1>1 DEF Described
  <2>2. Row(w, m)' = Row(w, m)
    BY <1>3 DEF Row
  <2> QED
    BY <1>2, <2>1, <2>2 DEF There, Packed
<1>7. Copied(w)'
  BY <1>3, <1>6, MembersAre DEF Copied, Packed
<1>8. Summed(w)'
  <2> SUFFICES ASSUME wrapper'[w].pc = "sums", NEW m \in 1..Len(Members)
               PROVE  There(w, m)' /\ Packed(w, m)'
    BY <1>3 DEF Summed
  <2>1. m <= Archived
    BY <1>3
  <2> QED
    BY <1>6, <2>1
<1>9. Taken(w)'
  BY <1>3, <1>7, <1>8 DEF Taken, Tarred, Described, Reread
<1> QED
  BY <1>1, <1>2, <1>3, <1>4, <1>5, <1>9, OthersOut DEF WrapInv, Owning

LEMMA Copies ==
  ASSUME WrapInv, NEW w \in Wrappers, WrapCopy(w)
  PROVE  WrapInv'
<1>1. /\ wrapper[w].pc = "copy" /\ UNCHANGED bvars /\ out.by = w /\ WrapOK /\ Copied(w)
      /\ WrapNext(w, Len(Members), "sums")
      /\ out' = [out EXCEPT !.body[Member(w)] = flat[Member(w)]]
  BY DEF WrapCopy, WrapInv, Owned, Owning, Taken
<1>2. /\ wrapper' \in Runs /\ wrapper'[w].rows = wrapper[w].rows
      /\ \/ /\ wrapper[w].at < Len(Members)
            /\ wrapper'[w].pc = "copy" /\ wrapper'[w].at = wrapper[w].at + 1
         \/ ~(wrapper[w].at < Len(Members)) /\ wrapper'[w].pc = "sums" /\ wrapper'[w].at = 1
      /\ \A v \in Wrappers : v # w => wrapper'[v] = wrapper[v]
  <2>1. "sums" \in WPcs /\ Len(Members) \in 1..Len(Members)
    BY MembersAre DEF WPcs
  <2> QED
    BY <1>1, <2>1, GoesOn
<1>3. /\ flat' = flat /\ manifest' = manifest /\ out' \in Outputs /\ out'.by = w
      /\ out'.archive = out.archive /\ NotNewer'
      /\ \A m \in 1..Len(Members) : m = wrapper[w].at \/ There(w, m) => There(w, m)'
  BY <1>1, <1>2, Reads DEF Owning
<1>4. wrapper[w].at \in 1..Len(Members) /\ WrapOK'
  BY <1>1, <1>2, <1>3, WrapTypes DEF WrapOK
<1>5. \A m \in 1..Len(Members) : Packed(w, m)'
  BY <1>1, <1>2, <1>3 DEF Copied, Packed, Row
<1>6. \A m \in 1..Len(Members) : m < wrapper[w].at + 1 => There(w, m)'
  BY <1>1, <1>3, <1>4 DEF Copied
<1>7. Copied(w)'
  BY <1>2, <1>5, <1>6 DEF Copied
<1>8. Summed(w)'
  <2> SUFFICES ASSUME ~(wrapper[w].at < Len(Members))
               PROVE  \A m \in 1..Len(Members) : There(w, m)' /\ Packed(w, m)'
    BY <1>2 DEF Summed
  <2>1. \A m \in 1..Len(Members) : m < wrapper[w].at + 1
    BY <1>4, MembersAre
  <2> QED
    BY <1>5, <1>6, <2>1
<1>9. Taken(w)'
  BY <1>2, <1>7, <1>8 DEF Taken, Tarred, Described, Reread
<1>10. wrapper'[w].pc \in Owning
  BY <1>2 DEF Owning
<1> QED
  BY <1>1, <1>2, <1>3, <1>4, <1>9, <1>10, OthersOut DEF WrapInv, Owning

LEMMA Sums ==
  ASSUME WrapInv, NEW w \in Wrappers, WrapSums(w)
  PROVE  WrapInv'
<1>1. /\ wrapper[w].pc = "sums" /\ flat' = flat /\ manifest' = manifest
      /\ out.by = w /\ WrapOK /\ Summed(w)
      /\ WrapGoto(w, "recheck") /\ out' = [out EXCEPT !.sums = wrapper[w].rows]
  BY DEF WrapSums, WrapInv, Owned, Owning, Taken, bvars
<1>2. /\ out'.by = w /\ out'.body = out.body /\ out'.archive = out.archive
      /\ out'.sums = wrapper[w].rows /\ out' \in Outputs
  BY <1>1, WrapTypes DEF WrapOK, Outputs
<1>3. /\ wrapper' \in Runs /\ wrapper'[w].rows = wrapper[w].rows
      /\ wrapper'[w].pc = "recheck" /\ wrapper'[w].at = 1
      /\ \A v \in Wrappers : v # w => wrapper'[v] = wrapper[v]
  BY <1>1, Goes DEF WPcs
<1>4. WrapOK' /\ NotNewer'
  BY <1>1, <1>2, <1>3 DEF WrapOK, WrapInv, NotNewer
<1>5. Summed(w)'
  BY <1>1, <1>2, <1>3 DEF Summed, There, Packed, Row
<1>6. Taken(w)'
  BY <1>2, <1>3, <1>5, MembersAre DEF Taken, Tarred, Described, Copied, Reread
<1> QED
  BY <1>1, <1>2, <1>3, <1>4, <1>6, OthersOut DEF WrapInv, Owning

(* The third read: a file that is still what its line says was read as such. *)
LEMMA Rechecks ==
  ASSUME WrapInv, NEW w \in Wrappers, WrapRecheck(w)
  PROVE  WrapInv'
<1>1. /\ wrapper[w].pc = "recheck" /\ UNCHANGED <<bvars, out>> /\ out.by = w /\ WrapOK
      /\ flat' = flat /\ manifest' = manifest /\ out' = out /\ Summed(w) /\ Reread(w)
  BY DEF WrapRecheck, WrapInv, Owned, Owning, Taken, bvars
<1>2. CASE WrapGoto(w, "refused")
  BY <1>1, <1>2, LeavesOff
<1>3. CASE AsListed(w) /\ WrapNext(w, Len(Members), "done")
  <2>1. /\ wrapper' \in Runs /\ wrapper'[w].rows = wrapper[w].rows
        /\ \/ /\ wrapper[w].at < Len(Members)
              /\ wrapper'[w].pc = "recheck" /\ wrapper'[w].at = wrapper[w].at + 1
           \/ ~(wrapper[w].at < Len(Members)) /\ wrapper'[w].pc = "done" /\ wrapper'[w].at = 1
        /\ \A v \in Wrappers : v # w => wrapper'[v] = wrapper[v]
    <3>1. "done" \in WPcs /\ Len(Members) \in 1..Len(Members)
      BY MembersAre DEF WPcs
    <3> QED
      BY <1>1, <1>3, <3>1, GoesOn
  <2>2. WrapOK' /\ NotNewer'
    BY <1>1, <2>1 DEF WrapInv, WrapOK, NotNewer
  <2>3. wrapper[w].at \in 1..Len(Members)
    BY <1>1, WrapTypes
  <2>4. Right(w, wrapper[w].at)
    <3> DEFINE n == wrapper[w].at
    <3>1. Row(w, n) = flat[Members[n]]
      BY <1>3 DEF AsListed, Member, Row
    <3>2. out.body[Members[n]] <= flat[Members[n]] /\ out.archive[Members[n]] <= flat[Members[n]]
      BY <2>3, MembersAre DEF WrapInv, NotNewer
    <3>3. There(w, n) /\ Packed(w, n)
      BY <1>1, <2>3 DEF Summed
    <3>4. /\ flat[Members[n]] \in Nat
          /\ out.body[Members[n]] \in Nat /\ out.archive[Members[n]] \in Nat
      BY <1>1, <2>3, WrapTypes
    <3> QED
      BY <3>1, <3>2, <3>3, <3>4 DEF Right, There, Packed
  <2>5. \A m \in 1..Len(Members) : m < wrapper[w].at + 1 => Right(w, m)'
    <3> SUFFICES ASSUME NEW m \in 1..Len(Members), m < wrapper[w].at + 1
                 PROVE  Right(w, m)'
      OBVIOUS
    <3>1. m < wrapper[w].at \/ m = wrapper[w].at
      BY <2>3
    <3>2. Right(w, m)
      BY <1>1, <2>4, <3>1 DEF Reread
    <3> QED
      BY <1>1, <2>1, <3>2 DEF Right, Row
  <2>6. Summed(w)'
    BY <1>1, <2>1 DEF Summed, There, Packed, Row
  <2>7. Reread(w)'
    <3>1. out'.sums = wrapper'[w].rows
      BY <1>1, <2>1 DEF Reread
    <3>2. CASE wrapper'[w].pc = "recheck" /\ wrapper'[w].at = wrapper[w].at + 1
      BY <2>5, <3>1, <3>2 DEF Reread
    <3>3. CASE ~(wrapper[w].at < Len(Members)) /\ wrapper'[w].pc = "done"
      <4>1. \A m \in 1..Len(Members) : m < wrapper[w].at + 1
        BY <2>3, <3>3, MembersAre
      <4> QED
        BY <2>5, <3>1, <3>3, <4>1 DEF Reread
    <3> QED
      BY <2>1, <3>2, <3>3
  <2>8. Taken(w)' /\ wrapper'[w].pc \in Owning
    BY <2>1, <2>6, <2>7 DEF Taken, Tarred, Described, Copied, Owning
  <2> QED
    BY <1>1, <2>1, <2>2, <2>8, OthersOut DEF WrapInv, Owning
<1> QED
  BY <1>2, <1>3 DEF WrapRecheck

LEMMA WrapKeeps ==
  ASSUME WrapInv, WNext \/ UNCHANGED wvars
  PROVE  WrapInv'
<1>1. CASE \E f \in MemberNames : Tamper(f)
  BY <1>1, Tampers
<1>2. CASE \E rows \in [MemberNames -> 1..(MaxTampered + 1)] \ {Given} : TamperManifest(rows)
  BY <1>2, TampersManifest
<1>3. ASSUME NEW w \in Wrappers, WrapStep(w)
      PROVE  WrapInv'
  <2>1. CASE WrapMkdir(w)
    BY <2>1, OutputUntouched, MakesOutput
  <2> QED
    BY <1>3, <2>1, OutputUntouched, Tars, Describes, Copies, Sums, Rechecks DEF WrapStep
<1>4. CASE UNCHANGED wvars
  <2>1. WrapOK' /\ \A f \in MemberNames : flat[f] <= flat'[f]
    BY <1>4 DEF wvars, bvars, WrapInv, WrapOK
  <2> QED
    BY <1>4, <2>1, OutputKept DEF wvars, bvars
<1> QED
  BY <1>1, <1>2, <1>3, <1>4 DEF WNext

(* A finished run of build-bundle-transport.py has left the files its own    *)
(* manifest lists, and those of the given manifest unless that was rewritten *)
(* meanwhile: for any number of files, rival runs and writes.                *)
THEOREM WrappedIsTheBundle == RSpec => []TransportIsTheBundle
<1>1. RInit => WrapInv
  BY WrapStarts DEF RInit
<1>2. WrapInv /\ [RNext]_rvars => WrapInv'
  <2> SUFFICES ASSUME WrapInv, [RNext]_rvars PROVE WrapInv'
    OBVIOUS
  <2>1. WNext \/ UNCHANGED wvars
    BY DEF RNext, rvars
  <2> QED
    BY <2>1, WrapKeeps
<1>3. WrapInv => TransportIsTheBundle
  <2> SUFFICES ASSUME WrapInv, NEW w \in Wrappers, wrapper[w].pc = "done"
               PROVE  /\ manifest = Given => out.sums = Given
                      /\ \A n \in DOMAIN Members :
                           /\ out.body[Members[n]] = out.sums[Members[n]]
                           /\ out.body[Members[n]] # 0
                           /\ n <= Archived => out.archive[Members[n]] = out.sums[Members[n]]
    BY DEF TransportIsTheBundle
  <2>1. Reread(w) /\ Vouched(w)
    BY DEF WrapInv, Taken
  <2>2. out.sums = wrapper[w].rows /\ (manifest = Given => out.sums = Given)
    BY <2>1 DEF Reread, Vouched, Owning
  <2>3. ASSUME NEW n \in 1..Len(Members)
        PROVE  Right(w, n) /\ 0 < Row(w, n) /\ Row(w, n) \in Nat
    BY <2>1, WrapTypes DEF WrapInv, Reread, Vouched, NotOlder, Owning
  <2> QED
    BY <2>2, <2>3, MembersAre DEF Right, Row
<1> QED
  BY <1>1, <1>2, <1>3, PTL DEF RSpec

-----------------------------------------------------------------------------
(* prepare-install-bundle.py, among the tools that run before it             *)

ToolFields == {"pc", "run", "at", "dev", "hash", "parsed", "dump", "sha", "auth", "index",
               "payload", "volatile", "receipt", "budget", "copy"}
Assembling == {"copy", "verify"}

(* The output did not exist when the assembly began, and it is the only tool *)
(* that runs.                                                                *)
FiveInv ==
  /\ DOMAIN tool = ToolFields
  /\ "budget" \in DOMAIN raw
  /\ tool.pc \in Assembling => published = Nothing /\ "budget" \in DOMAIN tool.copy

LEMMA IdleFields == DOMAIN Idle = ToolFields
  BY DEF Idle, ToolFields

LEMMA Stepped ==
  ASSUME NEW t, DOMAIN t = ToolFields, NEW names, NEW here, NEW after
  PROVE  /\ DOMAIN Step(t, names, here, after) = ToolFields
         /\ Step(t, names, here, after).pc \in {here, after}
         /\ Step(t, names, here, after).copy = t.copy
  BY DEF Step, ToolFields

(* A tool that goes on, refuses or ends does not become an assembly.         *)
LEMMA Ended ==
  ASSUME NEW pc, Ends(pc)
  PROVE  DOMAIN tool' = ToolFields /\ tool'.pc = pc
  BY DEF Ends, Idle, ToolFields

LEMMA Refused ==
  ASSUME FiveInv, Refuse
  PROVE  FiveInv' /\ published' = published
<1>1. DOMAIN tool' = ToolFields /\ tool'.pc = "refused"
  BY Ended DEF Refuse
<1> QED
  BY <1>1 DEF Refuse, FiveInv, OthersThanTool, Assembling

LEMMA Measures ==
  ASSUME FiveInv, published' = published, "budget" \in DOMAIN raw',
         DOMAIN tool' = ToolFields, tool'.pc \notin Assembling
  PROVE  FiveInv'
  BY DEF FiveInv

LEMMA DocumentSteps ==
  ASSUME FiveInv, HashDocument \/ ParseDocument \/ ReadBudget \/ ReadAuth
  PROVE  FiveInv' /\ published' = published
<1>1. CASE Refuse
  BY <1>1, Refused
<1>2. CASE ~Refuse
  <2>1. raw' = raw /\ published' = published
    BY <1>2 DEF HashDocument, ParseDocument, ReadBudget, ReadAuth, To, OthersThanTool
  <2>2. DOMAIN tool' = ToolFields /\ tool'.pc \notin Assembling
    <3>1. CASE HashDocument
      BY <3>1 DEF HashDocument, To, FiveInv, ToolFields, Assembling
    <3>2. CASE ReadBudget
      BY <1>2, <3>2 DEF ReadBudget, To, FiveInv, ToolFields, Assembling
    <3>3. CASE ReadAuth
      BY <3>3 DEF ReadAuth, To, FiveInv, ToolFields, Assembling
    <3>4. CASE ParseDocument
      <4> DEFINE next == [tool EXCEPT !.parsed[Documents[tool.at]] = raw[Doc[Documents[tool.at]]]]
      <4>1. DOMAIN next = ToolFields
        BY DEF FiveInv
      <4>2. \/ tool' = Step(next, <<"core", "caps">>, "parse", "dump")
            \/ tool' = Step(next, Documents, "hash", "budget")
        BY <1>2, <3>4 DEF ParseDocument, To
      <4> HIDE DEF next
      <4> QED
        BY <4>1, <4>2, Stepped DEF Assembling
    <3> QED
      BY <3>1, <3>2, <3>3, <3>4
  <2> QED
    BY <2>1, <2>2, Measures DEF FiveInv
<1> QED
  BY <1>1, <1>2

LEMMA PackageSteps ==
  ASSUME FiveInv, DumpPackage \/ HashPackage \/ CheckSchema \/ DumpIndex \/ FetchPackage
  PROVE  FiveInv' /\ published' = published
<1>1. CASE Refuse
  BY <1>1, Refused
<1>2. CASE ~Refuse
  <2>1. raw' = raw /\ published' = published
    BY <1>2 DEF DumpPackage, HashPackage, CheckSchema, DumpIndex, FetchPackage, To, OthersThanTool
  <2>2. DOMAIN tool' = ToolFields /\ tool'.pc \notin Assembling
    <3>1. CASE DumpPackage
      BY <3>1 DEF DumpPackage, To, FiveInv, ToolFields, Assembling
    <3>2. CASE CheckSchema
      BY <1>2, <3>2 DEF CheckSchema, To, FiveInv, ToolFields, Assembling
    <3>3. CASE DumpIndex
      BY <1>2, <3>3 DEF DumpIndex, To, FiveInv, ToolFields, Assembling
    <3>4. CASE FetchPackage
      <4>1. \/ tool' = Step(tool, Parts, "fetch", "extract")
            \/ tool' = Step(tool, Parts, "fetch", "again")
        BY <1>2, <3>4 DEF FetchPackage, To
      <4> QED
        BY <4>1, Stepped DEF FiveInv, Assembling
    <3>5. CASE HashPackage
      <4> DEFINE next == [tool EXCEPT !.sha[Part] = raw[Apk[Part]]]
      <4>1. DOMAIN next = ToolFields
        BY DEF FiveInv
      <4>2. tool' = Step(next, Parts, "dump", "auth") \/ tool' = Step(next, Parts, "dump", "schema")
        BY <1>2, <3>5 DEF HashPackage, To
      <4> HIDE DEF next
      <4> QED
        BY <4>1, <4>2, Stepped DEF Assembling
    <3> QED
      BY <3>1, <3>2, <3>3, <3>4, <3>5
  <2> QED
    BY <2>1, <2>2, Measures DEF FiveInv
<1> QED
  BY <1>1, <1>2

LEMMA PayloadSteps ==
  ASSUME FiveInv, DigestAsset \/ CheckVolatile \/ ExtractPayload \/ CheckPayload \/ WriteReceipt
  PROVE  FiveInv' /\ published' = published
<1>1. CASE Refuse
  BY <1>1, Refused
<1>2. CASE ~Refuse
  <2>1. raw' = raw /\ published' = published
    BY <1>2 DEF DigestAsset, CheckVolatile, ExtractPayload, CheckPayload, WriteReceipt, To, OthersThanTool
  <2>2. DOMAIN tool' = ToolFields /\ tool'.pc \notin Assembling
    <3>1. CASE ExtractPayload
      BY <3>1 DEF ExtractPayload, To, FiveInv, ToolFields, Assembling
    <3>2. CASE CheckPayload
      BY <1>2, <3>2 DEF CheckPayload, To, FiveInv, ToolFields, Assembling
    <3>3. CASE DigestAsset
      <4>1. tool.pc \in {"digest", "again"} /\ \E after \in {"index", "volatile"} :
              tool' = Step(tool, <<"core", "server", "index">>, tool.pc, after)
        BY <1>2, <3>3 DEF DigestAsset, To
      <4> QED
        BY <4>1, Stepped DEF FiveInv, Assembling
    <3>4. CASE CheckVolatile
      <4> DEFINE next == [tool EXCEPT !.volatile[Part] = raw[Bin[Part]]]
      <4>1. DOMAIN next = ToolFields
        BY DEF FiveInv
      <4>2. tool' = Step(next, Parts, "volatile", "write") \/ tool' = Step(next, Parts, "volatile", "extract")
        BY <1>2, <3>4 DEF CheckVolatile, To
      <4> HIDE DEF next
      <4> QED
        BY <4>1, <4>2, Stepped DEF Assembling
    <3>5. CASE WriteReceipt
      <4> DEFINE next == [tool EXCEPT !.receipt[Part] =
                            [sha |-> raw[Apk[Part]], producer |-> raw[Doc[Part]]]]
      <4>1. DOMAIN next = ToolFields
        BY DEF FiveInv
      <4>2. tool' = Step(next, Parts, "extract", "volatile") \/ tool' = Step(next, Parts, "extract", "write")
        BY <1>2, <3>5 DEF WriteReceipt, To
      <4> HIDE DEF next
      <4> QED
        BY <4>1, <4>2, Stepped DEF Assembling
    <3> QED
      BY <3>1, <3>2, <3>3, <3>4, <3>5
  <2> QED
    BY <2>1, <2>2, Measures DEF FiveInv
<1> QED
  BY <1>1, <1>2

LEMMA WritingSteps ==
  ASSUME FiveInv, WriteBudget \/ WriteCatalog
  PROVE  FiveInv' /\ published' = published
<1>1. CASE Refuse
  BY <1>1, Refused
<1>2. CASE ~Refuse
  <2>1. Ends("done") /\ published' = published /\ DOMAIN raw' = DOMAIN raw
    BY <1>2 DEF WriteBudget, WriteCatalog, OthersThanTool
  <2>2. DOMAIN tool' = ToolFields /\ tool'.pc = "done"
    BY <2>1, Ended
  <2> QED
    BY <2>1, <2>2, Measures DEF FiveInv, Assembling
<1> QED
  BY <1>1, <1>2

LEMMA AssemblySteps ==
  ASSUME FiveInv, SelectAssets \/ CopyAsset
  PROVE  FiveInv' /\ published' = published
<1>1. CASE Refuse
  BY <1>1, Refused
<1>2. CASE SelectAssets /\ ~Refuse
  <2>1. /\ published = Nothing /\ published' = published /\ raw' = raw
        /\ tool' = [tool EXCEPT !.pc = "copy", !.copy = [f \in DOMAIN raw |-> Nothing]]
    BY <1>2 DEF SelectAssets, To, OthersThanTool
  <2>2. DOMAIN tool' = ToolFields /\ tool'.copy = [f \in DOMAIN raw |-> Nothing]
    BY <2>1 DEF FiveInv, ToolFields
  <2>3. "budget" \in DOMAIN tool'.copy
    BY <2>2 DEF FiveInv
  <2> QED
    BY <2>1, <2>2, <2>3 DEF FiveInv
<1>3. CASE CopyAsset
  <2> DEFINE f == CopyOrder[tool.at]
             next == [tool EXCEPT !.copy[f] = raw[f]]
  <2>1. /\ published = Nothing /\ published' = published /\ raw' = raw
        /\ tool' = Step(next, CopyOrder, "copy", "verify")
    BY <1>3 DEF CopyAsset, To, OthersThanTool, FiveInv, Assembling
  <2>2. DOMAIN next = ToolFields /\ next.copy = [tool.copy EXCEPT ![f] = raw[f]]
    BY DEF FiveInv, ToolFields
  <2>3. "budget" \in DOMAIN next.copy
    BY <1>3, <2>2 DEF FiveInv, CopyAsset, Assembling
  <2> HIDE DEF next
  <2>4. DOMAIN tool' = ToolFields /\ tool'.copy = next.copy
    BY <2>1, <2>2, Stepped
  <2> QED
    BY <2>1, <2>3, <2>4 DEF FiveInv
<1> QED
  BY <1>1, <1>2, <1>3

(* The one step that publishes.                                              *)
LEMMA Publishes ==
  ASSUME FiveInv, PublishBundle
  PROVE  /\ FiveInv'
         /\ \/ published' = published
            \/ /\ published = Nothing /\ published' # Nothing /\ told' = told
               /\ BundleAccepts(published', published'["catalog"].dev)
<1>1. CASE Refuse
  BY <1>1, Refused
<1>2. CASE ~Refuse
  <2>1. /\ BundleAccepts(tool.copy, tool.dev) /\ published' = tool.copy /\ Ends("done")
        /\ raw' = raw /\ told' = told
    BY <1>2 DEF PublishBundle
  <2>2. published = Nothing /\ "budget" \in DOMAIN tool.copy
    BY DEF PublishBundle, FiveInv, Assembling
  <2>3. published' # Nothing
    BY <2>1, <2>2 DEF Nothing
  <2>4. DOMAIN tool' = ToolFields /\ tool'.pc = "done"
    BY <2>1, Ended
  <2>5. tool.dev = published'["catalog"].dev
    BY <2>1 DEF BundleAccepts
  <2> QED
    BY <2>1, <2>2, <2>3, <2>4, <2>5 DEF FiveInv, Assembling
<1> QED
  BY <1>1, <1>2

LEMMA FiveKeeps ==
  ASSUME FiveInv, LNext \/ UNCHANGED lvars
  PROVE  /\ FiveInv'
         /\ \/ published' = published
            \/ /\ published = Nothing /\ published' # Nothing /\ told' = told
               /\ BundleAccepts(published', published'["catalog"].dev)
<1>1. CASE Rebuild
  BY <1>1 DEF Rebuild, FiveInv
<1>2. ASSUME NEW run \in {"budget", "catalog", "assemble"}, NEW dev \in BOOLEAN, StartTool(run, dev)
      PROVE  FiveInv' /\ published' = published
  <2>1. published' = published /\ DOMAIN raw' = DOMAIN raw
    BY <1>2 DEF StartTool
  <2>2. \E pc \in {"parse", "hash", "select"} :
          tool' = [Idle EXCEPT !.pc = pc, !.run = run, !.dev = dev]
    <3>1. CASE run = "budget"
      BY <1>2, <3>1 DEF StartTool
    <3>2. CASE run = "catalog"
      BY <1>2, <3>2 DEF StartTool
    <3>3. CASE run = "assemble"
      BY <1>2, <3>3 DEF StartTool
    <3> QED
      BY <3>1, <3>2, <3>3
  <2>3. DOMAIN tool' = ToolFields /\ tool'.pc \notin Assembling
    BY <2>2 DEF Idle, ToolFields, Assembling
  <2> QED
    BY <2>1, <2>3, Measures DEF FiveInv
<1>3. CASE ToolRuns
  BY <1>3, DocumentSteps, PackageSteps, PayloadSteps, WritingSteps, AssemblySteps, Publishes
     DEF ToolRuns
<1>4. CASE UNCHANGED lvars
  BY <1>4 DEF lvars, FiveInv
<1> QED
  BY <1>1, <1>2, <1>3, <1>4 DEF LNext

LEMMA FiveStarts ==
  ASSUME LInit
  PROVE  FiveInv /\ published = Nothing
<1>1. tool = Idle /\ raw = FirstEdition /\ published = Nothing
  BY DEF LInit
<1>2. tool.pc = "idle"
  BY <1>1 DEF Idle
<1>3. "budget" \in DOMAIN raw
  BY <1>1 DEF FirstEdition
<1> QED
  BY <1>1, <1>2, <1>3, IdleFields DEF FiveInv, Assembling

(* What the recheck of prepare-install-bundle.py accepts is whole.           *)
LEMMA AcceptedIsWhole ==
  ASSUME NEW d, NEW dev, BundleAccepts(d, dev)
  PROVE  WholeBundle(d)
<1>1. /\ d["index"] = Listed(d) /\ d["budget"].auth.apk = Listed(d)
      /\ \A p \in PartNames :
           /\ PayloadBinds(Listed(d)[p], d[Doc[p]], d[Doc[p]], [q \in PartNames |-> d[Bin[q]]][p])
           /\ d["budget"].receipt[p] = [sha |-> Listed(d)[p], producer |-> d[Doc[p]]]
           /\ d["budget"].sha[p] = Listed(d)[p]
  BY DEF BundleAccepts, VariantsAccept, RowsAgree
<1>2. d["catalog"].row.budget = d["budget"]
  BY DEF BundleAccepts, VariantRow
<1>3. \A p \in PartNames : Listed(d)[p] = d[Apk[p]]
  BY DEF Listed
<1>4. ASSUME NEW p \in PartNames
      PROVE  /\ d[Doc[p]] = d[Apk[p]].native /\ d[Bin[p]] = d[Apk[p]].native
             /\ d["index"][p] = d[Apk[p]] /\ d["budget"].sha[p] = d[Apk[p]]
             /\ d["budget"].receipt[p].sha = d[Apk[p]]
  <2>1. [q \in PartNames |-> d[Bin[q]]][p] = d[Bin[p]]
    OBVIOUS
  <2>2. PayloadBinds(d[Apk[p]], d[Doc[p]], d[Doc[p]], d[Bin[p]])
    BY <1>1, <1>3, <2>1
  <2>3. d[Doc[p]] = d[Apk[p]].native /\ d[Bin[p]] = d[Apk[p]].native
    BY <2>2 DEF PayloadBinds
  <2>4. d["index"][p] = d[Apk[p]] /\ d["budget"].sha[p] = d[Apk[p]]
    BY <1>1, <1>3
  <2>5. d["budget"].receipt[p].sha = d[Apk[p]]
    <3>1. d["budget"].receipt[p] = [sha |-> Listed(d)[p], producer |-> d[Doc[p]]]
      BY <1>1
    <3>2. [sha |-> Listed(d)[p], producer |-> d[Doc[p]]].sha = Listed(d)[p]
      OBVIOUS
    <3>3. Listed(d)[p] = d[Apk[p]]
      BY <1>3
    <3> QED
      BY <3>1, <3>2, <3>3
  <2> QED
    BY <2>3, <2>4, <2>5
<1> QED
  BY <1>2, <1>4 DEF WholeBundle

(* The five-role bundle appears once, by one step, whole, and is not touched *)
(* afterwards, whatever builds and refused runs come in between.             *)
THEOREM FiveRolesImplementPublication == RSpec => FiveRolesArePublished
<1>1. RInit => FiveInv /\ FiveRoles!PInit
  BY FiveStarts DEF RInit, FiveRoles!PInit
<1>2. FiveInv /\ [RNext]_rvars => FiveInv' /\ [FiveRoles!Publish]_published
  <2> SUFFICES ASSUME FiveInv, [RNext]_rvars PROVE FiveInv' /\ [FiveRoles!Publish]_published
    OBVIOUS
  <2>1. LNext \/ UNCHANGED lvars
    BY DEF RNext, rvars
  <2>2. /\ FiveInv'
        /\ \/ published' = published
           \/ /\ published = Nothing /\ published' # Nothing
              /\ BundleAccepts(published', published'["catalog"].dev)
    BY <2>1, FiveKeeps
  <2>3. CASE published' = published
    BY <2>2, <2>3
  <2>4. CASE /\ published = Nothing /\ published' # Nothing
             /\ BundleAccepts(published', published'["catalog"].dev)
    <3>1. WholeBundle(published')
      BY <2>4, AcceptedIsWhole
    <3> QED
      BY <2>2, <2>4, <3>1 DEF FiveRoles!Publish
  <2> QED
    BY <2>2, <2>3, <2>4
<1> QED
  BY <1>1, <1>2, PTL DEF RSpec, FiveRolesArePublished, FiveRoles!PSpec

LEMMA ToldStays ==
  ASSUME LNext \/ UNCHANGED lvars
  PROVE  told' = told
<1>1. CASE ToolRuns
  <2>1. CASE Refuse
    BY <2>1 DEF Refuse, OthersThanTool
  <2>2. CASE HashDocument \/ ParseDocument \/ ReadBudget \/ DumpPackage \/ HashPackage \/ ReadAuth
    BY <2>1, <2>2 DEF HashDocument, ParseDocument, ReadBudget, DumpPackage, HashPackage, ReadAuth,
       To, OthersThanTool
  <2>3. CASE CheckSchema \/ DigestAsset \/ DumpIndex \/ FetchPackage \/ CheckVolatile
    BY <2>1, <2>3 DEF CheckSchema, DigestAsset, DumpIndex, FetchPackage, CheckVolatile, To, OthersThanTool
  <2>4. CASE ExtractPayload \/ CheckPayload \/ WriteReceipt \/ WriteBudget \/ WriteCatalog
    BY <2>1, <2>4 DEF ExtractPayload, CheckPayload, WriteReceipt, WriteBudget, WriteCatalog, To, OthersThanTool
  <2>5. CASE SelectAssets \/ CopyAsset \/ PublishBundle
    BY <2>1, <2>5 DEF SelectAssets, CopyAsset, PublishBundle, To, OthersThanTool
  <2> QED
    BY <1>1, <2>2, <2>3, <2>4, <2>5 DEF ToolRuns
<1>2. CASE Rebuild \/ UNCHANGED lvars
  BY <1>2 DEF Rebuild, lvars
<1>3. ASSUME NEW run, NEW dev, StartTool(run, dev)
      PROVE  told' = told
  BY <1>3 DEF StartTool
<1> QED
  BY <1>1, <1>2, <1>3 DEF LNext

-----------------------------------------------------------------------------
(* build-engine-catalog.py and compact-install-bundle.py                     *)

CFields == {"pc", "at", "slot", "index", "repo", "sha", "entries", "copy"}
CPlaces == 1..7
Rows(x) == x = [e \in EngineNames |-> x[e]]
OfItsSlot(x) == x.slot = x.sha.slot

(* The files: an index is a list of engines, an entry is of its slot.        *)
CrateOK ==
  /\ cmade \in Nat /\ DOMAIN crate = CFiles /\ Rows(crate["index"])
  /\ crate["engines"] # CNone => \A e \in EngineNames : OfItsSlot(crate["engines"][e])
(* The catalog tool: the entries it has made, and the engine it is at.       *)
CataloguingOK ==
  /\ ctool.pc \in {"index", "repo", "archive", "digest", "fetch", "extract"} =>
       ctool.at \in 1..2 /\ DOMAIN ctool.entries = EngineNames
  /\ ctool.pc \in {"digest", "fetch", "extract"} =>
       \A n \in 1..2 : n < ctool.at => OfItsSlot(ctool.entries[Engines[n]])
  /\ ctool.pc \in {"fetch", "extract"} => ctool.sha.slot = ctool.slot[Engine]
  /\ ctool.pc = "write" => \A e \in EngineNames : OfItsSlot(ctool.entries[e])
(* The assembly: there was no output, and it has copied what lies behind it. *)
BundlingOK ==
  /\ ctool.pc \in {"copy", "verify"} => bundle = CNone /\ DOMAIN ctool.copy = CFiles
  /\ ctool.pc = "copy" => ctool.at \in CPlaces /\ (ctool.at > 5 => Rows(ctool.copy["index"]))
  /\ ctool.pc = "verify" => Rows(ctool.copy["index"])

CFirstAt == ctool.pc \in {"begin", "select"} => ctool.at = 1

CInv == DOMAIN ctool = CFields /\ CFirstAt /\ CrateOK /\ CataloguingOK /\ BundlingOK

LEMMA CNames ==
  /\ EngineNames = {Engines[1], Engines[2]} /\ Engines[1] # Engines[2] /\ Len(Engines) = 2
  /\ \A n \in 1..2 : Engines[n] \in EngineNames
  /\ Len(CCopyOrder) = 7 /\ CCopyOrder[5] = "index"
  /\ \A n \in CPlaces : CCopyOrder[n] \in CFiles /\ (CCopyOrder[n] = "index" => n = 5)
  BY DEF EngineNames, Engines, CCopyOrder, CFiles, CPlaces

LEMMA CStepped ==
  ASSUME NEW t, DOMAIN t = CFields, NEW names, NEW here, NEW after
  PROVE  /\ DOMAIN CStep(t, names, here, after) = CFields
         /\ CStep(t, names, here, after).slot = t.slot
         /\ CStep(t, names, here, after).sha = t.sha
         /\ CStep(t, names, here, after).entries = t.entries
         /\ CStep(t, names, here, after).copy = t.copy
         /\ \/ /\ t.at < Len(names)
               /\ CStep(t, names, here, after).pc = here
               /\ CStep(t, names, here, after).at = t.at + 1
            \/ /\ ~(t.at < Len(names))
               /\ CStep(t, names, here, after).pc = after
               /\ CStep(t, names, here, after).at = 1
  BY DEF CStep, CFields

(* A tool that is at rest or has just been started asks for nothing.         *)
LEMMA AtRest ==
  ASSUME CrateOK', ctool' = [CIdle EXCEPT !.pc = ctool'.pc],
         ctool'.pc \in {"idle", "refused", "done", "begin", "select"}
  PROVE  CInv'
<1>1. DOMAIN ctool' = CFields /\ ctool'.at = 1
  BY DEF CIdle, CFields
<1> QED
  BY <1>1 DEF CInv, CFirstAt, CataloguingOK, BundlingOK

LEMMA CEnded ==
  ASSUME NEW pc \in {"refused", "done"}, CEnds(pc), CrateOK'
  PROVE  CInv'
<1>1. ctool'.pc = pc
  BY DEF CEnds, CIdle
<1> QED
  BY <1>1, AtRest DEF CEnds

LEMMA CRefused ==
  ASSUME CInv, CRefuse
  PROVE  CInv' /\ bundle' = bundle
<1>1. CrateOK'
  BY DEF CRefuse, OthersThanCTool, CInv, CrateOK
<1> QED
  BY <1>1, CEnded DEF CRefuse

LEMMA CBuilds ==
  ASSUME CInv, CRebuild
  PROVE  CInv' /\ bundle' = bundle
<1> DEFINE f == CBuildOrder[(cmade % Len(CBuildOrder)) + 1]
<1>1. cmade \in Nat /\ cmade' = cmade + 1 /\ ctool' = ctool /\ bundle' = bundle
  BY DEF CInv, CrateOK, CRebuild
<1>2. f \in {"e1", "e2", "index", "base", "universe", "catalog"}
  <2>1. (cmade % 6) + 1 \in 1..6
    BY <1>1
  <2>2. Len(CBuildOrder) = 6
    BY DEF CBuildOrder
  <2>3. \A n \in 1..6 : CBuildOrder[n] \in {"e1", "e2", "index", "base", "universe", "catalog"}
    BY DEF CBuildOrder
  <2> QED
    BY <2>1, <2>2, <2>3
<1>3. \/ crate' = crate
      \/ \E content : crate' = [crate EXCEPT ![f] = content] /\ (f = "index" => content = EnginesOf(crate))
  BY DEF CRebuild, EngineNames
<1> HIDE DEF f
<1>4. DOMAIN crate' = CFiles /\ crate'["engines"] = crate["engines"]
  BY <1>2, <1>3 DEF CInv, CrateOK, CFiles
<1>5. Rows(crate'["index"])
  <2>1. Rows(crate["index"]) /\ Rows(EnginesOf(crate))
    BY DEF CInv, CrateOK, Rows, EnginesOf
  <2>2. crate'["index"] \in {crate["index"], EnginesOf(crate)}
    BY <1>2, <1>3 DEF CInv, CrateOK, CFiles
  <2> QED
    BY <2>1, <2>2
<1>6. CrateOK'
  BY <1>1, <1>4, <1>5 DEF CInv, CrateOK
<1>7. (DOMAIN ctool = CFields /\ CFirstAt /\ CataloguingOK /\ BundlingOK)'
  BY <1>1 DEF CInv, CFirstAt, CataloguingOK, BundlingOK, Engine
<1> QED
  BY <1>1, <1>6, <1>7 DEF CInv

LEMMA CStarts ==
  ASSUME CInv, NEW pc \in {"begin", "select"}, CStartTool(pc)
  PROVE  CInv' /\ bundle' = bundle
<1>1. /\ bundle' = bundle /\ cmade' = cmade /\ ctool' = [CIdle EXCEPT !.pc = pc]
      /\ crate' = crate \/ crate' = [crate EXCEPT !["engines"] = CNone]
  BY DEF CStartTool
<1>2. CrateOK'
  BY <1>1 DEF CInv, CrateOK, CFiles
<1>3. ctool'.pc = pc
  BY <1>1 DEF CIdle
<1> QED
  BY <1>1, <1>2, <1>3, AtRest

(* What every step of a tool that goes on has in common.                     *)
LEMMA CGoesOn ==
  ASSUME CInv, NEW t, CTo(t)
  PROVE  CrateOK' /\ bundle' = bundle /\ ctool' = t
  BY DEF CTo, OthersThanCTool, CInv, CrateOK

LEMMA CataloguesBegin ==
  ASSUME CInv, CatalogBegin \/ CatalogIndex \/ CatalogRepository
  PROVE  CInv' /\ bundle' = bundle
<1>1. CASE CRefuse
  BY <1>1, CRefused
<1>2. CASE CatalogBegin /\ ~CRefuse
  <2> DEFINE t == [ctool EXCEPT !.pc = "index",
                 !.slot = [e \in EngineNames |-> crate[e].slot],
                 !.entries = [e \in EngineNames |-> CNone],
                 !.copy = [e \in EngineNames |-> CNone]]
  <2>1. CTo(t) /\ ctool.at = 1
    BY <1>2 DEF CatalogBegin, CInv, CFirstAt
  <2>2. DOMAIN t = CFields /\ t.pc = "index" /\ t.at = ctool.at /\ DOMAIN t.entries = EngineNames
    BY DEF CInv, CFields
  <2> HIDE DEF t
  <2> QED
    BY <2>1, <2>2, CGoesOn DEF CInv, CFirstAt, CataloguingOK, BundlingOK
<1>3. CASE CatalogIndex
  <2> DEFINE t == [ctool EXCEPT !.pc = "repo", !.index = crate["index"]]
  <2>1. CTo(t) /\ ctool.pc = "index"
    BY <1>3 DEF CatalogIndex
  <2>2. DOMAIN t = CFields /\ t.pc = "repo" /\ t.at = ctool.at /\ t.entries = ctool.entries
    BY DEF CInv, CFields
  <2> HIDE DEF t
  <2> QED
    BY <2>1, <2>2, CGoesOn DEF CInv, CFirstAt, CataloguingOK, BundlingOK
<1>4. CASE CatalogRepository
  <2> DEFINE t == [ctool EXCEPT !.pc = "archive", !.repo = crate["index"]]
  <2>1. CTo(t) /\ ctool.pc = "repo"
    BY <1>4 DEF CatalogRepository
  <2>2. DOMAIN t = CFields /\ t.pc = "archive" /\ t.at = ctool.at /\ t.entries = ctool.entries
    BY DEF CInv, CFields
  <2> HIDE DEF t
  <2> QED
    BY <2>1, <2>2, CGoesOn DEF CInv, CFirstAt, CataloguingOK, BundlingOK
<1> QED
  BY <1>1, <1>2, <1>3, <1>4

LEMMA CataloguesRead ==
  ASSUME CInv, CatalogCopy \/ CatalogDigest \/ CatalogFetch
  PROVE  CInv' /\ bundle' = bundle
<1>1. CASE CRefuse
  BY <1>1, CRefused
<1>2. CASE CatalogCopy /\ ~CRefuse
  <2> DEFINE next == [ctool EXCEPT !.copy[Engine] = crate[Engine]]
             t == CStep(next, Engines, "archive", "digest")
  <2>1. CTo(t) /\ ctool.pc = "archive"
    BY <1>2 DEF CatalogCopy
  <2>2. DOMAIN next = CFields /\ next.at = ctool.at /\ next.entries = ctool.entries
    BY DEF CInv, CFields
  <2> HIDE DEF next
  <2>3. /\ DOMAIN t = CFields /\ t.entries = ctool.entries
        /\ \/ t.pc = "archive" /\ t.at \in 1..2
           \/ t.pc = "digest" /\ t.at = 1
    <3>1. ctool.at \in 1..2 /\ Len(Engines) = 2
      BY <2>1, CNames DEF CInv, CataloguingOK
    <3>2. /\ DOMAIN t = CFields /\ t.entries = next.entries
          /\ \/ next.at < Len(Engines) /\ t.pc = "archive" /\ t.at = next.at + 1
             \/ ~(next.at < Len(Engines)) /\ t.pc = "digest" /\ t.at = 1
      BY <2>2, CStepped
    <3> QED
      BY <2>2, <3>1, <3>2
  <2> HIDE DEF t
  <2> QED
    BY <2>1, <2>3, CGoesOn DEF CInv, CFirstAt, CataloguingOK, BundlingOK
<1>3. CASE CatalogDigest /\ ~CRefuse
  <2> DEFINE t == [ctool EXCEPT !.pc = "fetch", !.sha = crate[Engine]]
  <2>1. CTo(t) /\ ctool.pc = "digest" /\ crate[Engine].slot = ctool.slot[Engine]
    BY <1>3 DEF CatalogDigest
  <2>2. /\ DOMAIN t = CFields /\ t.pc = "fetch" /\ t.at = ctool.at /\ t.entries = ctool.entries
        /\ t.slot = ctool.slot /\ t.sha = crate[Engine]
    BY DEF CInv, CFields
  <2> HIDE DEF t
  <2>3. ctool' = t /\ CrateOK' /\ bundle' = bundle
    BY <2>1, CGoesOn
  <2>4. Engine' = Engine
    BY <2>2, <2>3 DEF Engine
  <2> QED
    BY <2>1, <2>2, <2>3, <2>4 DEF CInv, CFirstAt, CataloguingOK, BundlingOK
<1>4. CASE CatalogFetch /\ ~CRefuse
  <2> DEFINE t == [ctool EXCEPT !.pc = "extract"]
  <2>1. CTo(t) /\ ctool.pc = "fetch"
    BY <1>4 DEF CatalogFetch
  <2>2. /\ DOMAIN t = CFields /\ t.pc = "extract" /\ t.at = ctool.at /\ t.entries = ctool.entries
        /\ t.slot = ctool.slot /\ t.sha = ctool.sha
    BY DEF CInv, CFields
  <2> HIDE DEF t
  <2>3. ctool' = t /\ CrateOK' /\ bundle' = bundle
    BY <2>1, CGoesOn
  <2>4. Engine' = Engine
    BY <2>2, <2>3 DEF Engine
  <2> QED
    BY <2>1, <2>2, <2>3, <2>4 DEF CInv, CFirstAt, CataloguingOK, BundlingOK
<1> QED
  BY <1>1, <1>2, <1>3, <1>4

LEMMA CataloguesEnd ==
  ASSUME CInv, CatalogExtract \/ CatalogWrite
  PROVE  CInv' /\ bundle' = bundle
<1>1. CASE CRefuse
  BY <1>1, CRefused
<1>2. CASE CatalogExtract /\ ~CRefuse
  <2> DEFINE entry == Entry(crate[Engine], ctool.sha, crate["index"])
             next == [ctool EXCEPT !.entries[Engine] = entry]
             t == CStep(next, Engines, "digest", "write")
  <2>1. CTo(t) /\ ctool.pc = "extract" /\ crate[Engine].slot = ctool.slot[Engine]
    BY <1>2 DEF CatalogExtract
  <2>2. /\ ctool.at \in 1..2 /\ Engine = Engines[ctool.at] /\ DOMAIN ctool.entries = EngineNames
        /\ ctool.sha.slot = ctool.slot[Engine]
        /\ \A n \in 1..2 : n < ctool.at => OfItsSlot(ctool.entries[Engines[n]])
    BY <2>1 DEF CInv, CataloguingOK, Engine
  <2>3. OfItsSlot(entry)
    BY <2>1, <2>2 DEF OfItsSlot, Entry
  <2> HIDE DEF entry
  <2>4. /\ DOMAIN next = CFields /\ next.at = ctool.at
        /\ next.entries = [ctool.entries EXCEPT ![Engine] = entry]
    BY DEF CInv, CFields
  <2> HIDE DEF next
  <2>5. /\ DOMAIN next.entries = EngineNames
        /\ \A n \in 1..2 : n <= ctool.at => OfItsSlot(next.entries[Engines[n]])
    BY <2>2, <2>3, <2>4, CNames
  <2>6. /\ DOMAIN t = CFields /\ t.entries = next.entries
        /\ \/ ctool.at = 1 /\ t.pc = "digest" /\ t.at = 2
           \/ ctool.at = 2 /\ t.pc = "write" /\ t.at = 1
    <3>1. ctool.at \in 1..2 /\ Len(Engines) = 2
      BY <2>2, CNames
    <3>2. /\ DOMAIN t = CFields /\ t.entries = next.entries
          /\ \/ next.at < Len(Engines) /\ t.pc = "digest" /\ t.at = next.at + 1
             \/ ~(next.at < Len(Engines)) /\ t.pc = "write" /\ t.at = 1
      BY <2>4, CStepped
    <3> QED
      BY <2>4, <3>1, <3>2
  <2> HIDE DEF t
  <2>7. ctool' = t /\ CrateOK' /\ bundle' = bundle
    BY <2>1, CGoesOn
  <2>8. CataloguingOK'
    <3>1. CASE t.pc = "digest"
      BY <2>2, <2>5, <2>6, <2>7, <3>1 DEF CataloguingOK
    <3>2. CASE t.pc = "write"
      BY <2>5, <2>6, <2>7, <3>2, CNames DEF CataloguingOK
    <3> QED
      BY <2>6, <3>1, <3>2
  <2> QED
    BY <2>6, <2>7, <2>8 DEF CInv, CFirstAt, BundlingOK
<1>3. CASE CatalogWrite
  <2>1. /\ crate' = [crate EXCEPT !["engines"] = ctool.entries] /\ CEnds("done")
        /\ bundle' = bundle /\ cmade' = cmade
        /\ \A e \in EngineNames : OfItsSlot(ctool.entries[e])
    BY <1>3 DEF CatalogWrite, OthersThanCTool, CInv, CataloguingOK
  <2>2. CrateOK'
    BY <2>1 DEF CInv, CrateOK, CFiles
  <2> QED
    BY <2>1, <2>2, CEnded
<1> QED
  BY <1>1, <1>2, <1>3

LEMMA Bundles ==
  ASSUME CInv, CompactSelect \/ CompactCopy
  PROVE  CInv' /\ bundle' = bundle
<1>1. CASE CRefuse
  BY <1>1, CRefused
<1>2. CASE CompactSelect /\ ~CRefuse
  <2> DEFINE t == [ctool EXCEPT !.pc = "copy", !.copy = [f \in CFiles |-> CNone],
                     !.slot = [e \in EngineNames |-> crate[e].slot]]
  <2>1. CTo(t) /\ bundle = CNone /\ ctool.pc = "select"
    BY <1>2 DEF CompactSelect
  <2>2. DOMAIN t = CFields /\ t.pc = "copy" /\ t.at = ctool.at /\ DOMAIN t.copy = CFiles
    BY DEF CInv, CFields
  <2> HIDE DEF t
  <2> QED
    BY <2>1, <2>2, CGoesOn DEF CInv, CFirstAt, CataloguingOK, BundlingOK, CPlaces
<1>3. CASE CompactCopy /\ ~CRefuse
  <2> DEFINE f == CCopyOrder[ctool.at]
             next == [ctool EXCEPT !.copy[f] = crate[f]]
             t == CStep(next, CCopyOrder, "copy", "verify")
  <2>1. CTo(t) /\ ctool.pc = "copy"
    BY <1>3 DEF CompactCopy
  <2>2. /\ bundle = CNone /\ DOMAIN ctool.copy = CFiles /\ ctool.at \in CPlaces
        /\ ctool.at > 5 => Rows(ctool.copy["index"])
    BY <2>1 DEF CInv, BundlingOK
  <2>3. f \in CFiles /\ (f = "index" <=> ctool.at = 5) /\ Len(CCopyOrder) = 7
    BY <2>2, CNames
  <2>4. /\ DOMAIN next = CFields /\ next.at = ctool.at
        /\ next.copy = [ctool.copy EXCEPT ![f] = crate[f]]
    BY DEF CInv, CFields
  <2> HIDE DEF f, next
  <2>5. DOMAIN next.copy = CFiles /\ (ctool.at >= 5 => Rows(next.copy["index"]))
    BY <2>2, <2>3, <2>4 DEF CInv, CrateOK, CPlaces, CFiles
  <2>6. /\ DOMAIN t = CFields /\ t.copy = next.copy
        /\ \/ t.pc = "copy" /\ t.at \in CPlaces /\ t.at = ctool.at + 1
           \/ t.pc = "verify" /\ ctool.at >= 5
    <3>1. /\ DOMAIN t = CFields /\ t.copy = next.copy
          /\ \/ next.at < Len(CCopyOrder) /\ t.pc = "copy" /\ t.at = next.at + 1
             \/ ~(next.at < Len(CCopyOrder)) /\ t.pc = "verify" /\ t.at = 1
      BY <2>4, CStepped
    <3> QED
      BY <2>2, <2>3, <2>4, <3>1 DEF CPlaces
  <2> HIDE DEF t
  <2>7. ctool' = t /\ CrateOK' /\ bundle' = bundle
    BY <2>1, CGoesOn
  <2>8. BundlingOK'
    BY <2>2, <2>5, <2>6, <2>7 DEF BundlingOK, CPlaces
  <2> QED
    BY <2>6, <2>7, <2>8 DEF CInv, CFirstAt, CataloguingOK
<1> QED
  BY <1>1, <1>2, <1>3

(* What the recheck of compact-install-bundle.py accepts is of one source.   *)
LEMMA AcceptedIsOfOneSource ==
  ASSUME NEW d, NEW dev, NEW commit, CompactAccepts(d, dev, commit), Rows(d["index"])
  PROVE  OneSource(d)
<1>1. /\ d["base"] = d["engines"]
      /\ d["engines"] = [e \in EngineNames |-> Entry(d[e], d[e], d["index"])]
      /\ \A e \in EngineNames : d["index"][e] = d[e] /\ d[e].slot = commit
  BY DEF CompactAccepts, PayloadsAgree
<1>2. d["index"] = EnginesOf(d)
  BY <1>1 DEF Rows, EnginesOf
<1>3. d["e1"].slot = d["e2"].slot
  BY <1>1 DEF EngineNames
<1> QED
  BY <1>1, <1>2, <1>3 DEF OneSource

LEMMA CPublishes ==
  ASSUME CInv, CompactPublish
  PROVE  /\ CInv'
         /\ \/ bundle' = bundle
            \/ bundle = CNone /\ bundle' # CNone /\ OneSource(bundle')
<1>1. CASE CRefuse
  BY <1>1, CRefused
<1>2. CASE ~CRefuse
  <2>1. /\ CompactAccepts(ctool.copy, wanted.dev, wanted.commit) /\ bundle' = ctool.copy
        /\ CEnds("done") /\ crate' = crate /\ cmade' = cmade
    BY <1>2 DEF CompactPublish, OthersThanCTool
  <2>2. bundle = CNone /\ DOMAIN ctool.copy = CFiles /\ Rows(ctool.copy["index"])
    BY DEF CompactPublish, CInv, BundlingOK
  <2>3. bundle' # CNone
    BY <2>1, <2>2 DEF CNone, CFiles
  <2>4. CrateOK'
    BY <2>1 DEF CInv, CrateOK
  <2> QED
    BY <2>1, <2>2, <2>3, <2>4, CEnded, AcceptedIsOfOneSource
<1> QED
  BY <1>1, <1>2

LEMMA CKeeps ==
  ASSUME CInv, CNext \/ UNCHANGED cvars
  PROVE  /\ CInv'
         /\ \/ bundle' = bundle
            \/ bundle = CNone /\ bundle' # CNone /\ OneSource(bundle')
<1>1. CASE CToolRuns
  BY <1>1, CataloguesBegin, CataloguesRead, CataloguesEnd, Bundles, CPublishes DEF CToolRuns
<1>2. CASE UNCHANGED cvars
  BY <1>2 DEF cvars, CInv, CFirstAt, CrateOK, CataloguingOK, BundlingOK, Engine
<1> QED
  BY <1>1, <1>2, CBuilds, CStarts DEF CNext

LEMMA CBegins ==
  ASSUME CInit
  PROVE  CInv /\ bundle = CNone
<1>1. crate = CFirst /\ ctool = CIdle /\ cmade = 0 /\ bundle = CNone
  BY DEF CInit
<1>2. ctool.pc = "idle" /\ DOMAIN ctool = CFields
  BY <1>1 DEF CIdle, CFields
<1>3. DOMAIN crate = CFiles /\ crate["index"] = [e \in EngineNames |-> [slot |-> 1, ed |-> 1]]
  BY <1>1 DEF CFirst, CFiles, EngineNames
<1>4. \A e \in EngineNames : OfItsSlot(crate["engines"][e])
  <2> DEFINE p == [slot |-> 1, ed |-> 1]
             rows == [e \in EngineNames |-> p]
  <2>1. crate["engines"] = [e \in EngineNames |-> Entry(p, p, rows)]
    BY <1>1 DEF CFirst, CFiles, EngineNames
  <2> QED
    BY <2>1 DEF Entry, OfItsSlot
<1> QED
  BY <1>1, <1>2, <1>3, <1>4 DEF CInv, CFirstAt, CrateOK, CataloguingOK, BundlingOK, Rows

LEMMA CStepKeeps ==
  ASSUME CInv, [RNext]_rvars
  PROVE  CInv' /\ [CompactRoles!Publish]_bundle
<1>1. CNext \/ UNCHANGED cvars
  BY DEF RNext, rvars
<1> QED
  BY <1>1, CKeeps DEF CompactRoles!Publish

(* The compact bundle appears once, by one step, is of one source, and is    *)
(* not touched afterwards.                                                   *)
THEOREM CompactImplementsPublication == RSpec => CompactIsPublished
<1>1. RInit => CInv /\ CompactRoles!PInit
  BY CBegins DEF RInit, CompactRoles!PInit
<1>2. CInv /\ [RNext]_rvars => CInv' /\ [CompactRoles!Publish]_bundle
  BY CStepKeeps
<1> QED
  BY <1>1, <1>2, PTL DEF RSpec, CompactIsPublished, CompactRoles!PSpec

(* Every entry of the engine catalog pins an archive of its own slot.        *)
THEOREM EntriesAreOfTheirSlots == RSpec => []EntryIsOfItsSlot
<1>1. RInit => CInv
  BY CBegins DEF RInit
<1>2. CInv /\ [RNext]_rvars => CInv'
  BY CStepKeeps
<1>3. CInv => EntryIsOfItsSlot
  BY DEF CInv, CrateOK, EntryIsOfItsSlot, OfItsSlot
<1> QED
  BY <1>1, <1>2, <1>3, PTL DEF RSpec

-----------------------------------------------------------------------------
(* check-transaction-inputs.py                                               *)

InstallerFields == {"pc", "at", "expect", "before", "lo", "raw"}
InstallOK ==
  /\ DOMAIN installer = Installers
  /\ \A i \in Installers :
       /\ DOMAIN installer[i] = InstallerFields
       /\ DOMAIN installer[i].raw = InputNames
       /\ installer[i].at \in 1..3
  /\ DOMAIN dest = InputNames
  /\ \A p \in InputNames :
       /\ DOMAIN dest[p] = {"by", "data"}
       /\ dest[p] = Absent \/ dest[p].by \in Installers

(* What an installation holds in memory is what its manifest digest pins,    *)
(* ...                                                                       *)
Verified(i) ==
  /\ installer[i].pc \in {"lstat", "open", "read"} =>
       \A m \in 1..3 : m < installer[i].at => installer[i].raw[Inputs[m]] = installer[i].expect
  /\ installer[i].pc \in {"check", "create", "data"} =>
       \A m \in 1..3 : installer[i].raw[Inputs[m]] = installer[i].expect
  /\ installer[i].pc = "check" => installer[i].at = 1
(* ... it has created the files it has come past, ...                        *)
Placed(i) ==
  /\ installer[i].pc = "create" =>
       \A m \in 1..3 : m < installer[i].at => dest[Inputs[m]].by = i
  /\ installer[i].pc = "data" =>
       \A m \in 1..3 : m <= installer[i].at => dest[Inputs[m]].by = i
(* ... nobody has created one without having created those before it, ...    *)
InOrder ==
  \A m, n \in 1..3 :
    m <= n /\ dest[Inputs[n]] # Absent =>
      dest[Inputs[m]] # Absent /\ dest[Inputs[m]].by = dest[Inputs[n]].by
(* ... and whoever wrote to one wrote what was pinned.                       *)
Pinned ==
  \A p \in InputNames :
    dest[p].data # 0 => dest[p].by \in Installers /\ dest[p].data = installer[dest[p].by].expect

InstallInv ==
  InstallOK /\ InOrder /\ Pinned /\ \A i \in Installers : Verified(i) /\ Placed(i)

LEMMA InputsAre ==
  /\ Len(Inputs) = 3 /\ Inputs[1] = "manifest"
  /\ \A m \in 1..3 : Inputs[m] \in InputNames
  /\ \A p \in InputNames : \E m \in 1..3 : p = Inputs[m]
  /\ \A m, n \in 1..3 : Inputs[m] = Inputs[n] => m = n
<1>1. DOMAIN Inputs = 1..3 /\ Len(Inputs) = 3
  BY DEF Inputs
<1>2. InputNames = {Inputs[n] : n \in 1..3}
  BY <1>1 DEF InputNames
<1>3. \A m \in 1..3 : m = 1 \/ m = 2 \/ m = 3
  OBVIOUS
<1>4. \A m, n \in 1..3 : Inputs[m] = Inputs[n] => m = n
  BY <1>3 DEF Inputs
<1>5. Inputs[1] = "manifest"
  BY DEF Inputs
<1> QED
  BY <1>1, <1>2, <1>4, <1>5

LEMMA InstallStarts ==
  ASSUME TInit
  PROVE  InstallInv
<1>1. \A i \in Installers : /\ DOMAIN installer[i] = InstallerFields
                            /\ DOMAIN installer[i].raw = InputNames
                            /\ installer[i].at = 1 /\ installer[i].pc = "lstat"
  BY DEF TInit, NewInstaller, InstallerFields
<1>2. \A p \in InputNames : dest[p] = Absent
  BY DEF TInit
<1>3. \A i \in Installers : Verified(i) /\ Placed(i)
  <2> SUFFICES ASSUME NEW i \in Installers PROVE Verified(i) /\ Placed(i)
    OBVIOUS
  <2>1. installer[i].pc = "lstat" /\ \A m \in 1..3 : ~(m < installer[i].at)
    BY <1>1
  <2>2. Placed(i)
    BY <2>1 DEF Placed
  <2>3. Verified(i)
    BY <2>1 DEF Verified
  <2> QED
    BY <2>2, <2>3
<1>4. InOrder /\ Pinned
  BY <1>2, InputsAre DEF InOrder, Pinned, Absent
<1>5. InstallOK
  BY <1>1, <1>2 DEF InstallOK, TInit, Absent
<1> QED
  BY <1>3, <1>4, <1>5 DEF InstallInv

(* A step of one installation that creates and writes nothing.               *)
LEMMA NothingPlaced ==
  ASSUME InstallInv, NEW i \in Installers, dest' = dest,
         DOMAIN installer' = Installers, \A j \in Installers \ {i} : installer'[j] = installer[j],
         DOMAIN installer'[i] = InstallerFields, DOMAIN installer'[i].raw = InputNames,
         installer'[i].at \in 1..3, installer'[i].expect = installer[i].expect,
         Verified(i)', Placed(i)'
  PROVE  InstallInv'
<1>1. InstallOK'
  BY DEF InstallInv, InstallOK
<1>2. InOrder'
  BY DEF InstallInv, InOrder
<1>3. Pinned'
  BY DEF InstallInv, Pinned
<1>4. ASSUME NEW j \in Installers, j # i
      PROVE  Verified(j)' /\ Placed(j)'
  BY <1>4 DEF InstallInv, Verified, Placed
<1> QED
  BY <1>1, <1>2, <1>3, <1>4 DEF InstallInv

LEMMA InstallGoes ==
  ASSUME InstallInv, NEW i \in Installers, NEW pc, Goto(i, pc)
  PROVE  /\ DOMAIN installer' = Installers
         /\ \A j \in Installers \ {i} : installer'[j] = installer[j]
         /\ DOMAIN installer'[i] = InstallerFields
         /\ installer'[i].pc = pc /\ installer'[i].at = installer[i].at
         /\ installer'[i].raw = installer[i].raw
         /\ installer'[i].expect = installer[i].expect
  BY DEF Goto, InstallInv, InstallOK, InstallerFields

LEMMA InstallStops ==
  ASSUME InstallInv, NEW i \in Installers, NEW pc, InstallEnds(i, pc)
  PROVE  /\ DOMAIN installer' = Installers
         /\ \A j \in Installers \ {i} : installer'[j] = installer[j]
         /\ DOMAIN installer'[i] = InstallerFields
         /\ DOMAIN installer'[i].raw = InputNames
         /\ installer'[i].pc = pc /\ installer'[i].at = 1
         /\ installer'[i].expect = installer[i].expect
  BY DEF InstallEnds, InstallInv, InstallOK, InstallerFields, NewInstaller

LEMMA Stops ==
  ASSUME InstallInv, NEW i \in Installers, NEW pc \in {"refused", "dead"}, InstallEnds(i, pc),
         dest' = dest
  PROVE  InstallInv'
<1>1. Verified(i)' /\ Placed(i)'
  BY InstallStops DEF Verified, Placed
<1> QED
  BY <1>1, InstallStops, NothingPlaced

LEMMA ReadSteps ==
  ASSUME InstallInv, NEW i \in Installers, ReadLstat(i) \/ ReadOpen(i)
  PROVE  InstallInv'
<1>1. CASE ReadOpen(i) /\ InstallEnds(i, "refused")
  BY <1>1, Stops DEF ReadOpen
<1>2. CASE ~(ReadOpen(i) /\ InstallEnds(i, "refused"))
  <2>1. /\ dest' = dest /\ installer[i].pc \in {"lstat", "open"}
        /\ DOMAIN installer' = Installers
        /\ \A j \in Installers \ {i} : installer'[j] = installer[j]
        /\ DOMAIN installer'[i] = InstallerFields
        /\ installer'[i].pc \in {"open", "read"} /\ installer'[i].at = installer[i].at
        /\ installer'[i].raw = installer[i].raw
        /\ installer'[i].expect = installer[i].expect
    BY <1>2 DEF ReadLstat, ReadOpen, InstallInv, InstallOK, InstallerFields
  <2>2. Verified(i)' /\ Placed(i)'
    BY <2>1 DEF InstallInv, Verified, Placed
  <2>3. DOMAIN installer'[i].raw = InputNames /\ installer'[i].at \in 1..3
    BY <2>1 DEF InstallInv, InstallOK
  <2> QED
    BY <2>1, <2>2, <2>3, NothingPlaced
<1> QED
  BY <1>1, <1>2

(* Only what the manifest pins stays in memory.                              *)
LEMMA ReadRests ==
  ASSUME InstallInv, NEW i \in Installers, ReadRest(i)
  PROVE  InstallInv'
<1> DEFINE p == Reading(i)
<1>0. installer[i].at \in 1..3 /\ p = Inputs[installer[i].at] /\ p \in InputNames
  BY InputsAre DEF InstallInv, InstallOK, Reading
<1>1. CASE InstallEnds(i, "refused")
  BY <1>1, Stops DEF ReadRest
<1>2. CASE /\ VerifyInput(i, installer[i].lo, file[p].hi)
           /\ installer' = [installer EXCEPT
              ![i].raw[p] = file[p].hi,
              ![i].pc = IF installer[i].at = Len(Inputs) THEN "check" ELSE "lstat",
              ![i].at = IF @ = Len(Inputs) THEN 1 ELSE @ + 1]
  <2>1. /\ DOMAIN installer' = Installers
        /\ \A j \in Installers \ {i} : installer'[j] = installer[j]
        /\ DOMAIN installer'[i] = InstallerFields
        /\ installer'[i].pc = IF installer[i].at = 3 THEN "check" ELSE "lstat"
        /\ installer'[i].at = IF installer[i].at = 3 THEN 1 ELSE installer[i].at + 1
        /\ installer'[i].raw = [installer[i].raw EXCEPT ![p] = file[p].hi]
        /\ installer'[i].expect = installer[i].expect
    BY <1>2, InputsAre DEF InstallInv, InstallOK, InstallerFields
  <2>2. installer[i].pc = "read" /\ dest' = dest
    BY DEF ReadRest
  <2>3. \A m \in 1..3 : m < installer[i].at => installer[i].raw[Inputs[m]] = installer[i].expect
    BY <2>2 DEF InstallInv, Verified
  <2>4. file[p].hi = installer[i].expect
    <3>1. CASE p = "manifest"
      BY <1>2, <3>1 DEF VerifyInput
    <3>2. CASE p # "manifest"
      <4>1. 1 < installer[i].at
        BY <1>0, <3>2, InputsAre
      <4>2. installer[i].raw["manifest"] = installer[i].expect
        BY <2>3, <4>1, InputsAre
      <4> QED
        BY <1>2, <3>2, <4>2 DEF VerifyInput
    <3> QED
      BY <3>1, <3>2
  <2>5. \A m \in 1..3 : m <= installer[i].at => installer'[i].raw[Inputs[m]] = installer[i].expect
    <3> SUFFICES ASSUME NEW m \in 1..3, m <= installer[i].at
                 PROVE  installer'[i].raw[Inputs[m]] = installer[i].expect
      OBVIOUS
    <3>0. DOMAIN installer[i].raw = InputNames /\ Inputs[m] \in InputNames
      BY InputsAre DEF InstallInv, InstallOK
    <3>1. CASE m = installer[i].at
      BY <1>0, <2>1, <2>4, <3>0, <3>1
    <3>2. CASE m < installer[i].at
      <4>1. Inputs[m] # p
        BY <1>0, <3>2, InputsAre
      <4>2. installer'[i].raw[Inputs[m]] = installer[i].raw[Inputs[m]]
        BY <2>1, <3>0, <4>1
      <4> QED
        BY <2>3, <3>2, <4>2
    <3> QED
      BY <1>0, <3>1, <3>2
  <2>6. installer'[i].at \in 1..3 /\ DOMAIN installer'[i].raw = InputNames
    BY <1>0, <2>1 DEF InstallInv, InstallOK
  <2>7. Verified(i)' /\ Placed(i)'
    <3>1. CASE installer[i].at = 3
      <4>1. installer'[i].pc = "check" /\ installer'[i].at = 1
        BY <2>1, <3>1
      <4>2. \A m \in 1..3 : installer'[i].raw[Inputs[m]] = installer'[i].expect
        BY <2>1, <2>5, <3>1
      <4> QED
        BY <4>1, <4>2 DEF Verified, Placed
    <3>2. CASE installer[i].at # 3
      <4>1. installer'[i].pc = "lstat" /\ installer'[i].at = installer[i].at + 1
        BY <2>1, <3>2
      <4>2. \A m \in 1..3 : m < installer'[i].at =>
              installer'[i].raw[Inputs[m]] = installer'[i].expect
        BY <1>0, <2>1, <2>5, <4>1
      <4> QED
        BY <4>1, <4>2 DEF Verified, Placed
    <3> QED
      BY <3>1, <3>2
  <2> HIDE DEF p
  <2> QED
    BY <2>1, <2>2, <2>6, <2>7, NothingPlaced
<1> QED
  BY <1>1, <1>2 DEF ReadRest

LEMMA InstallChecks ==
  ASSUME InstallInv, NEW i \in Installers, InstallCheck(i)
  PROVE  InstallInv'
<1>1. CASE InstallEnds(i, "refused")
  BY <1>1, Stops DEF InstallCheck
<1>2. CASE Goto(i, "create")
  <2>1. installer[i].pc = "check" /\ dest' = dest
    BY DEF InstallCheck
  <2>2. /\ installer[i].at = 1 /\ DOMAIN installer[i].raw = InputNames
        /\ \A m \in 1..3 : installer[i].raw[Inputs[m]] = installer[i].expect
    BY <2>1 DEF InstallInv, InstallOK, Verified
  <2>3. Verified(i)' /\ Placed(i)'
    BY <1>2, <2>2, InstallGoes DEF Verified, Placed
  <2> QED
    BY <1>2, <2>1, <2>2, <2>3, InstallGoes, NothingPlaced
<1> QED
  BY <1>1, <1>2 DEF InstallCheck

(* The name is free, so no installation has come past it or further.         *)
LEMMA InstallCreates ==
  ASSUME InstallInv, NEW i \in Installers, InstallCreate(i)
  PROVE  InstallInv'
<1> DEFINE n == installer[i].at
           p == Inputs[n]
<1>0. n \in 1..3 /\ Reading(i) = p /\ p \in InputNames /\ i # Nobody
  BY InputsAre, TransactionAssumption DEF InstallInv, InstallOK, Reading, Nobody
<1>1. CASE InstallEnds(i, "refused") /\ dest' = dest
  BY <1>1, Stops
<1>2. CASE /\ dest[p] = Absent /\ Goto(i, "data")
           /\ dest' = [dest EXCEPT ![p] = [by |-> i, data |-> 0]]
  <2>1. installer[i].pc = "create" /\ DOMAIN installer[i].raw = InputNames
    BY DEF InstallCreate, InstallInv, InstallOK
  <2>2. /\ DOMAIN dest' = InputNames /\ dest'[p] = [by |-> i, data |-> 0]
        /\ \A q \in InputNames : q # p => dest'[q] = dest[q]
    BY <1>0, <1>2 DEF InstallInv, InstallOK
  <2>3. \A m \in 1..3 : m # n => dest'[Inputs[m]] = dest[Inputs[m]]
    BY <1>0, <2>2, InputsAre
  <2>4. \A m \in 1..3 : m < n => dest[Inputs[m]].by = i
    BY <2>1 DEF InstallInv, Placed
  <2>5. \A m \in 1..3 : n <= m => dest[Inputs[m]] = Absent
    BY <1>0, <1>2 DEF InstallInv, InOrder
  <2>6. dest'[p].by = i /\ dest'[p].data = 0 /\ dest'[p] # Absent
    BY <1>0, <2>2 DEF Absent
  <2> HIDE DEF n, p
  <2>7. InstallOK'
    <3>1. DOMAIN dest'[p] = {"by", "data"}
      BY <2>2
    <3> QED
      BY <1>2, <2>1, <2>2, <2>6, <3>1, InstallGoes DEF InstallInv, InstallOK
  <2>8. InOrder'
    <3> SUFFICES ASSUME NEW a \in 1..3, NEW b \in 1..3, a <= b, dest'[Inputs[b]] # Absent
                 PROVE  dest'[Inputs[a]] # Absent /\ dest'[Inputs[a]].by = dest'[Inputs[b]].by
      BY DEF InOrder
    <3>1. b <= n
      BY <1>0, <2>3, <2>5
    <3>2. \A m \in 1..3 : m <= n => dest'[Inputs[m]].by = i
      BY <1>0, <2>3, <2>4, <2>6 DEF p
    <3>3. a <= n
      BY <1>0, <3>1
    <3> QED
      BY <1>0, <3>1, <3>2, <3>3 DEF Absent
  <2>9. Pinned'
    BY <1>2, <2>2, <2>6, InstallGoes DEF InstallInv, Pinned
  <2>10. Verified(i)' /\ Placed(i)'
    <3>1. \A m \in 1..3 : m <= n => dest'[Inputs[m]].by = i
      BY <1>0, <2>3, <2>4, <2>6 DEF p
    <3>2. installer'[i].pc = "data" /\ installer'[i].at = n
      BY <1>2, InstallGoes DEF n
    <3>3. Placed(i)'
      BY <3>1, <3>2 DEF Placed
    <3>4. Verified(i)'
      BY <1>2, <2>1, InstallGoes DEF InstallInv, Verified
    <3> QED
      BY <3>3, <3>4
  <2>11. ASSUME NEW j \in Installers, j # i
         PROVE  Verified(j)' /\ Placed(j)'
    <3>1. installer'[j] = installer[j]
      BY <1>2, <2>11, InstallGoes
    <3>2. j # Nobody
      BY TransactionAssumption DEF Nobody
    <3>3. \A m \in 1..3 : dest[Inputs[m]].by = j => dest'[Inputs[m]].by = j
      BY <1>0, <1>2, <2>3, <3>2 DEF p, Absent
    <3>4. Verified(j)'
      BY <3>1 DEF InstallInv, Verified
    <3>5. Placed(j)'
      BY <3>1, <3>3 DEF InstallInv, Placed
    <3> QED
      BY <3>4, <3>5
  <2> QED
    BY <2>7, <2>8, <2>9, <2>10, <2>11 DEF InstallInv
<1> QED
  BY <1>0, <1>1, <1>2 DEF InstallCreate

LEMMA InstallWrites ==
  ASSUME InstallInv, NEW i \in Installers, InstallData(i)
  PROVE  InstallInv'
<1> DEFINE n == installer[i].at
           p == Inputs[n]
<1>0. n \in 1..3 /\ Reading(i) = p /\ p \in InputNames /\ i # Nobody
  BY InputsAre, TransactionAssumption DEF InstallInv, InstallOK, Reading, Nobody
<1>1. installer[i].pc = "data" /\ dest' = [dest EXCEPT ![p].data = installer[i].raw[p]]
  BY <1>0 DEF InstallData
<1>2. /\ dest[p].by = i /\ DOMAIN installer[i].raw = InputNames
      /\ \A m \in 1..3 : m <= n => dest[Inputs[m]].by = i
      /\ \A m \in 1..3 : installer[i].raw[Inputs[m]] = installer[i].expect
  BY <1>0, <1>1 DEF InstallInv, InstallOK, Placed, Verified
<1>3. /\ DOMAIN dest' = InputNames
      /\ \A q \in InputNames : /\ dest'[q].by = dest[q].by
                               /\ DOMAIN dest'[q] = {"by", "data"}
                               /\ q # p => dest'[q] = dest[q]
      /\ dest'[p].data = installer[i].expect
  BY <1>0, <1>1, <1>2 DEF InstallInv, InstallOK
<1>4. \A q \in InputNames : dest'[q] = Absent <=> dest[q] = Absent
  BY <1>0, <1>2, <1>3 DEF Absent
<1>5. /\ DOMAIN installer' = Installers
      /\ \A j \in Installers \ {i} : installer'[j] = installer[j]
      /\ DOMAIN installer'[i] = InstallerFields
      /\ DOMAIN installer'[i].raw = InputNames
      /\ installer'[i].expect = installer[i].expect
      /\ \/ installer'[i].pc = "done" /\ installer'[i].at = 1
         \/ /\ n # 3 /\ installer'[i].pc = "create" /\ installer'[i].at = n + 1
            /\ installer'[i].raw = installer[i].raw
  <2>1. CASE InstallEnds(i, "done")
    BY <2>1, InstallStops
  <2>2. CASE n # 3 /\ installer' = [installer EXCEPT ![i].pc = "create", ![i].at = @ + 1]
    BY <1>2, <2>2 DEF InstallInv, InstallOK, InstallerFields
  <2> QED
    BY <2>1, <2>2, InputsAre DEF InstallData
<1> HIDE DEF n, p
<1>6. installer'[i].at \in 1..3
  BY <1>0, <1>5
<1>7. InstallOK'
  BY <1>3, <1>4, <1>5, <1>6 DEF InstallInv, InstallOK
<1>8. InOrder'
  BY <1>3, <1>4, InputsAre DEF InstallInv, InOrder
<1>9. Pinned'
  <2> SUFFICES ASSUME NEW q \in InputNames, dest'[q].data # 0
               PROVE  /\ dest'[q].by \in Installers
                      /\ dest'[q].data = installer'[dest'[q].by].expect
    BY DEF Pinned
  <2>1. \A j \in Installers : installer'[j].expect = installer[j].expect
    BY <1>5
  <2>2. CASE q = p
    BY <1>2, <1>3, <2>1, <2>2
  <2>3. CASE q # p
    BY <1>3, <2>1, <2>3 DEF InstallInv, Pinned
  <2> QED
    BY <2>2, <2>3
<1>10. \A m \in 1..3 : dest'[Inputs[m]].by = dest[Inputs[m]].by
  BY <1>3, InputsAre
<1>11. Placed(i)'
  BY <1>0, <1>2, <1>5, <1>10 DEF Placed
<1>12. Verified(i)'
  BY <1>2, <1>5 DEF Verified
<1>13. ASSUME NEW j \in Installers, j # i
       PROVE  Verified(j)' /\ Placed(j)'
  <2>1. installer'[j] = installer[j]
    BY <1>5, <1>13
  <2> QED
    BY <1>10, <2>1 DEF InstallInv, Verified, Placed
<1> QED
  BY <1>7, <1>8, <1>9, <1>11, <1>12, <1>13 DEF InstallInv

LEMMA InstallKeeps ==
  ASSUME InstallInv, InstallLine \/ UNCHANGED <<installer, dest>>
  PROVE  InstallInv'
<1>1. ASSUME UNCHANGED <<installer, dest>>
      PROVE  InstallInv'
  BY <1>1 DEF InstallInv, InstallOK, InOrder, Pinned, Verified, Placed
<1>2. CASE (\E p \in InputNames : RewriteBegin(p) \/ Replace(p)) \/ RewriteEnd
  BY <1>1, <1>2 DEF RewriteBegin, Replace, RewriteEnd
<1>3. ASSUME NEW i \in Installers, InstallerKilled(i)
      PROVE  InstallInv'
  BY <1>3, Stops DEF InstallerKilled
<1>4. ASSUME NEW i \in Installers, InstallerStep(i)
      PROVE  InstallInv'
  BY <1>4, ReadSteps, ReadRests, InstallChecks, InstallCreates, InstallWrites DEF InstallerStep
<1> QED
  BY <1>1, <1>2, <1>3, <1>4 DEF InstallLine

LEMMA BuildsInstallNothing ==
  ASSUME BuildLine
  PROVE  UNCHANGED <<installer, dest>>
<1>1. ASSUME NEW a \in Attempts, BuildStep(a)
      PROVE  UNCHANGED <<installer, dest>>
  BY <1>1 DEF BuildStep, BuildStart, Spawn, Poll, StopTerm, StopGrace, StopWait, StepEnds,
              ReadOutput, PackOutput, RecordArtifact, OthersThanBuild
<1>2. ASSUME NEW a \in Attempts, ToolStep(a)
      PROVE  UNCHANGED <<installer, dest>>
  BY <1>2 DEF ToolStep, Fork, LeaderExits, ChildExits, ToolWrites, OthersThanGroup
<1>3. ASSUME NEW a \in Attempts, BuildKilled(a)
      PROVE  UNCHANGED <<installer, dest>>
  BY <1>3 DEF BuildKilled
<1> QED
  BY <1>1, <1>2, <1>3 DEF BuildLine

(* What is installed is what the manifest digest pins, and of one            *)
(* installation, for any number of installations, rewrites and replacements  *)
(* of the inputs while they are read.                                        *)
THEOREM InstalledIsWhatWasPinned == RSpec => []InstalledIsPinned
<1>1. RInit => InstallInv
  BY InstallStarts DEF RInit
<1>2. InstallInv /\ [RNext]_rvars => InstallInv'
  <2> SUFFICES ASSUME InstallInv, [RNext]_rvars PROVE InstallInv'
    OBVIOUS
  <2>1. InstallLine \/ BuildLine \/ UNCHANGED tvars
    BY DEF RNext, rvars
  <2>2. CASE UNCHANGED tvars
    BY <2>2, InstallKeeps DEF tvars
  <2> QED
    BY <2>1, <2>2, InstallKeeps, BuildsInstallNothing
<1>3. InstallInv => InstalledIsPinned
  <2> SUFFICES ASSUME InstallInv PROVE InstalledIsPinned
    OBVIOUS
  <2>1. \A p \in InputNames : dest[p].data # 0 => dest[p].data = installer[dest[p].by].expect
    BY DEF InstallInv, Pinned
  <2>2. ASSUME NEW p \in InputNames, NEW q \in InputNames, dest[p] # Absent, dest[q] # Absent
        PROVE  dest[p].by = dest[q].by
    <3>1. PICK m \in 1..3 : p = Inputs[m]
      BY InputsAre
    <3>2. PICK n \in 1..3 : q = Inputs[n]
      BY InputsAre
    <3>3. m <= n \/ n <= m
      OBVIOUS
    <3> QED
      BY <2>2, <3>1, <3>2, <3>3 DEF InstallInv, InOrder
  <2> QED
    BY <2>1, <2>2 DEF InstalledIsPinned
<1> QED
  BY <1>1, <1>2, <1>3, PTL DEF RSpec

-----------------------------------------------------------------------------
(* native/transaction/build.py                                               *)

Steady == {"start", "spawn", "ended", "read", "pack", "record", "done"}
Owner == {"spawn", "run", "term", "grace", "wait", "ended", "read", "pack", "record", "done"}
Leavers == {"failed", "dead"}

BuildOK ==
  /\ DOMAIN build = Attempts /\ DOMAIN group = Attempts /\ DOMAIN work = Works
  /\ \A a \in Attempts :
       /\ DOMAIN build[a] = {"pc", "dir", "step", "raised", "rc", "elf"}
       /\ DOMAIN group[a] = {"leader", "child", "temper"}
       /\ build[a].pc \in {"start"} \cup Owner \cup Leavers
  /\ \A d \in Works : DOMAIN work[d] = {"by", "apk", "out", "gz", "id"}

Still(a) == group[a].leader # "alive" /\ group[a].child # "alive"

(* No process of a step is left between the steps, ...                       *)
Quiet == \A a \in Attempts : build[a].pc \in Steady => Still(a)
(* ... a work directory is of one attempt, and only the attempt's own tools  *)
(* write to it, ...                                                          *)
OwnWork ==
  \A a \in Attempts :
    build[a].pc \in Owner \/ ~Still(a) =>
      build[a].dir \in Works /\ work[build[a].dir].by = a
(* ... the bytes are those in the directory, ...                             *)
InHand ==
  \A a \in Attempts :
    /\ build[a].pc \in {"pack", "record"} => build[a].elf = work[build[a].dir].out
    /\ build[a].pc = "record" => build[a].elf = work[build[a].dir].gz
(* ... and a record is made last.                                            *)
Recorded ==
  \A d \in Works :
    work[d].id # 0 =>
      /\ work[d].id = work[d].out /\ work[d].id = work[d].gz
      /\ work[d].by \in Attempts /\ build[work[d].by].pc = "done"

BuildInv == BuildOK /\ Quiet /\ OwnWork /\ InHand /\ Recorded

LEMMA BuildStarts ==
  ASSUME TInit
  PROVE  BuildInv
<1>1. \A a \in Attempts : build[a] = NewBuild /\ group[a] = NoGroup
  BY DEF TInit
<1>2. \A d \in Works : work[d] = NoWork
  BY DEF TInit
<1>3. BuildOK
  BY <1>1, <1>2 DEF BuildOK, TInit, NewBuild, NoGroup, NoWork
<1>4. Quiet /\ OwnWork /\ InHand
  BY <1>1 DEF Quiet, OwnWork, InHand, Still, NewBuild, NoGroup, Owner
<1>5. Recorded
  BY <1>2 DEF Recorded, NoWork
<1> QED
  BY <1>3, <1>4, <1>5 DEF BuildInv

LEMMA StillIs == \A a \in Attempts : Alive(a) = {} <=> Still(a)
  BY DEF Alive, Still

(* A step of one attempt that leaves the work directories alone.             *)
LEMMA WorkKept ==
  ASSUME BuildInv, NEW a \in Attempts, work' = work,
         DOMAIN build' = Attempts, DOMAIN group' = Attempts,
         \A b \in Attempts \ {a} : build'[b] = build[b] /\ group'[b] = group[b],
         DOMAIN build'[a] = {"pc", "dir", "step", "raised", "rc", "elf"},
         DOMAIN group'[a] = {"leader", "child", "temper"},
         build'[a].pc \in {"start"} \cup Owner \cup Leavers,
         build'[a].pc \in Steady => Still(a)',
         build'[a].dir = build[a].dir,
         build'[a].pc \in Owner \/ ~Still(a)' => build[a].pc \in Owner \/ ~Still(a),
         build'[a].pc \notin {"pack", "record"} \/ build'[a] = build[a],
         build[a].pc = "done" => build'[a].pc = "done"
  PROVE  BuildInv'
<1>1. BuildOK'
  BY DEF BuildInv, BuildOK
<1>2. Quiet'
  BY DEF BuildInv, Quiet, Still
<1>3. OwnWork'
  BY DEF BuildInv, OwnWork, Still
<1>4. InHand'
  BY DEF BuildInv, InHand
<1>5. Recorded'
  BY DEF BuildInv, Recorded
<1> QED
  BY <1>1, <1>2, <1>3, <1>4, <1>5 DEF BuildInv

BuildFields == {"pc", "dir", "step", "raised", "rc", "elf"}
LEMMA BuildGoes ==
  ASSUME BuildInv, NEW a \in Attempts, NEW pc, BuildGoto(a, pc)
  PROVE  /\ DOMAIN build' = Attempts /\ \A b \in Attempts \ {a} : build'[b] = build[b]
         /\ DOMAIN build'[a] = BuildFields /\ build'[a].pc = pc
         /\ build'[a].dir = build[a].dir /\ build'[a].elf = build[a].elf
  BY DEF BuildGoto, BuildInv, BuildOK, BuildFields

LEMMA BuildStops ==
  ASSUME BuildInv, NEW a \in Attempts, NEW pc, BuildEnds(a, pc)
  PROVE  /\ DOMAIN build' = Attempts /\ \A b \in Attempts \ {a} : build'[b] = build[b]
         /\ DOMAIN build'[a] = BuildFields /\ build'[a].pc = pc
         /\ build'[a].dir = build[a].dir
  BY DEF BuildEnds, BuildInv, BuildOK, BuildFields, NewBuild

LEMMA GivesUp ==
  ASSUME BuildInv, NEW a \in Attempts, NEW pc \in Leavers, BuildEnds(a, pc),
         build[a].pc # "done", work' = work, group' = group
  PROVE  BuildInv'
<1>1. /\ DOMAIN build' = Attempts /\ DOMAIN group' = Attempts
      /\ \A b \in Attempts \ {a} : build'[b] = build[b] /\ group'[b] = group[b]
      /\ DOMAIN build'[a] = BuildFields /\ DOMAIN group'[a] = {"leader", "child", "temper"}
      /\ build'[a].pc \in Leavers /\ build'[a].dir = build[a].dir
      /\ Still(a)' = Still(a)
  BY BuildStops DEF BuildInv, BuildOK, Still
<1> QED
  BY <1>1, WorkKept DEF BuildFields, Leavers, Owner, Steady

(* The tools.                                                                *)
LEMMA ToolsLive ==
  ASSUME BuildInv, NEW a \in Attempts, Fork(a) \/ ChildExits(a) \/ LeaderExits(a)
  PROVE  BuildInv'
<1>1. /\ work' = work /\ ~Still(a)
      /\ DOMAIN build' = Attempts /\ DOMAIN group' = Attempts
      /\ \A b \in Attempts \ {a} : build'[b] = build[b] /\ group'[b] = group[b]
      /\ DOMAIN build'[a] = BuildFields /\ DOMAIN group'[a] = {"leader", "child", "temper"}
      /\ build'[a].pc = build[a].pc /\ build'[a].dir = build[a].dir
  BY DEF Fork, ChildExits, LeaderExits, OthersThanGroup, BuildInv, BuildOK, Still, BuildFields
<1>2. build[a].pc \notin Steady /\ build[a].pc \in {"start"} \cup Owner \cup Leavers
  BY <1>1 DEF BuildInv, BuildOK, Quiet
<1> QED
  BY <1>1, <1>2, WorkKept DEF BuildFields, Steady

LEMMA ToolsWrite ==
  ASSUME BuildInv, NEW a \in Attempts, ToolWrites(a)
  PROVE  BuildInv'
<1> DEFINE d == build[a].dir
<1>1. /\ build' = build /\ group' = group /\ ~Still(a)
      /\ work' = [work EXCEPT ![d].out = @ + 1] \/ work' = [work EXCEPT ![d].apk = @ + 1]
  BY StillIs DEF ToolWrites, OthersThanGroup
<1>2. d \in Works /\ work[d].by = a /\ build[a].pc \notin Steady
  BY <1>1 DEF BuildInv, OwnWork, Quiet
<1> HIDE DEF d
<1>3. /\ DOMAIN work' = Works
      /\ \A e \in Works : /\ DOMAIN work'[e] = {"by", "apk", "out", "gz", "id"}
                          /\ work'[e].by = work[e].by /\ work'[e].id = work[e].id
                          /\ e # d => work'[e] = work[e]
  BY <1>1, <1>2 DEF BuildInv, BuildOK
<1>4. BuildOK' /\ Quiet' /\ OwnWork'
  BY <1>1, <1>3 DEF BuildInv, BuildOK, Quiet, OwnWork, Still
<1>5. InHand'
  <2> SUFFICES ASSUME NEW b \in Attempts, build[b].pc \in {"pack", "record"}
               PROVE  work'[build[b].dir] = work[build[b].dir]
    BY <1>1 DEF BuildInv, InHand
  <2>1. b # a
    BY <1>2 DEF Steady
  <2>2. build[b].dir \in Works /\ work[build[b].dir].by = b
    BY DEF BuildInv, OwnWork, Owner
  <2> QED
    BY <1>2, <1>3, <2>1, <2>2
<1>6. Recorded'
  <2>1. work[d].id = 0
    BY <1>2 DEF BuildInv, Recorded, Steady
  <2> QED
    BY <1>1, <1>2, <1>3, <2>1 DEF BuildInv, Recorded
<1> QED
  BY <1>4, <1>5, <1>6 DEF BuildInv

(* The attempts.                                                             *)
LEMMA Claims ==
  ASSUME BuildInv, NEW a \in Attempts, BuildStart(a)
  PROVE  BuildInv'
<1>0. build[a].pc = "start" /\ group' = group
  BY DEF BuildStart
<1>1. CASE BuildEnds(a, "failed") /\ work' = work
  BY <1>0, <1>1, GivesUp DEF Leavers
<1>2. ASSUME NEW d \in Works, work[d] = NoWork,
             build' = [build EXCEPT ![a].pc = "spawn", ![a].dir = d, ![a].step = 1],
             work' = [work EXCEPT ![d].by = a]
      PROVE  BuildInv'
  <2>1. /\ DOMAIN build' = Attempts /\ \A b \in Attempts \ {a} : build'[b] = build[b]
        /\ DOMAIN build'[a] = BuildFields /\ build'[a].pc = "spawn" /\ build'[a].dir = d
    BY <1>2 DEF BuildInv, BuildOK, BuildFields
  <2>2. /\ DOMAIN work' = Works
        /\ \A e \in Works : /\ DOMAIN work'[e] = {"by", "apk", "out", "gz", "id"}
                            /\ e # d => work'[e] = work[e]
        /\ work'[d].by = a /\ work'[d].id = 0
    BY <1>2 DEF BuildInv, BuildOK, NoWork
  <2>3. work[d].by \notin Attempts
    BY <1>2, TransactionAssumption DEF NoWork, Nobody
  <2>4. Still(a)
    BY <1>0 DEF BuildInv, Quiet, Steady
  <2>5. BuildOK'
    BY <1>0, <2>1, <2>2 DEF BuildInv, BuildOK, BuildFields, Owner
  <2>6. Quiet'
    BY <1>0, <2>1, <2>4 DEF BuildInv, Quiet, Still
  <2>7. OwnWork'
    BY <1>0, <2>1, <2>2, <2>3 DEF BuildInv, OwnWork, Still
  <2>8. InHand'
    <3> SUFFICES ASSUME NEW b \in Attempts, b # a, build[b].pc \in {"pack", "record"}
                 PROVE  work'[build[b].dir] = work[build[b].dir]
      BY <2>1 DEF BuildInv, InHand
    <3>1. build[b].dir \in Works /\ work[build[b].dir].by = b
      BY DEF BuildInv, OwnWork, Owner
    <3> QED
      BY <2>2, <2>3, <3>1
  <2>9. Recorded'
    <3> SUFFICES ASSUME NEW e \in Works, e # d, work[e].id # 0
                 PROVE  /\ work[e].id = work[e].out /\ work[e].id = work[e].gz
                        /\ work[e].by \in Attempts /\ build'[work[e].by].pc = "done"
      BY <2>2 DEF Recorded
    <3> QED
      BY <1>0, <2>1 DEF BuildInv, Recorded
  <2> QED
    BY <2>5, <2>6, <2>7, <2>8, <2>9 DEF BuildInv
<1> QED
  BY <1>1, <1>2 DEF BuildStart

LEMMA SignalsReach ==
  ASSUME NEW g, NEW sig, DOMAIN g = {"leader", "child", "temper"}
  PROVE  DOMAIN Signalled(g, sig) = {"leader", "child", "temper"}
  BY DEF Signalled

(* The steps around the processes of a build step.                           *)
LEMMA StepsRun ==
  ASSUME BuildInv, NEW a \in Attempts,
         Spawn(a) \/ Poll(a) \/ StopTerm(a) \/ StopGrace(a) \/ StopWait(a)
  PROVE  BuildInv'
<1>1. /\ work' = work /\ build[a].pc \in Owner \ {"done", "ended", "pack", "record"}
      /\ DOMAIN build' = Attempts /\ \A b \in Attempts \ {a} : build'[b] = build[b]
      /\ DOMAIN build'[a] = BuildFields /\ build'[a].dir = build[a].dir
      /\ build'[a].pc \in {"run", "term", "grace", "wait", "ended", "failed"}
  <2>1. CASE Spawn(a)
    BY <2>1 DEF Spawn, Owner, BuildInv, BuildOK, BuildFields
  <2>2. CASE Poll(a)
    BY <2>2 DEF Poll, BuildGoto, Owner, BuildInv, BuildOK, BuildFields
  <2>3. CASE StopTerm(a)
    BY <2>3 DEF StopTerm, BuildGoto, Owner, BuildInv, BuildOK, BuildFields
  <2>4. CASE StopGrace(a)
    BY <2>4 DEF StopGrace, BuildGoto, Owner, BuildInv, BuildOK, BuildFields
  <2>5. CASE StopWait(a)
    BY <2>5, BuildGoes, BuildStops DEF StopWait, Owner
  <2> QED
    BY <2>1, <2>2, <2>3, <2>4, <2>5
<1>2. /\ DOMAIN group' = Attempts /\ \A b \in Attempts \ {a} : group'[b] = group[b]
      /\ DOMAIN group'[a] = {"leader", "child", "temper"}
  <2>1. CASE Spawn(a)
    BY <2>1 DEF Spawn, BuildInv, BuildOK
  <2>2. CASE Poll(a)
    BY <2>2 DEF Poll, BuildInv, BuildOK
  <2>3. CASE StopTerm(a)
    BY <2>3, SignalsReach DEF StopTerm, BuildInv, BuildOK
  <2>4. CASE StopGrace(a)
    BY <2>4, SignalsReach DEF StopGrace, BuildInv, BuildOK
  <2>5. CASE StopWait(a)
    BY <2>5 DEF StopWait, NoGroup, BuildInv, BuildOK
  <2> QED
    BY <2>1, <2>2, <2>3, <2>4, <2>5
<1>3. build'[a].pc = "ended" => Still(a)'
  <2> SUFFICES ASSUME build'[a].pc = "ended" PROVE Still(a)'
    OBVIOUS
  <2>1. StopWait(a)
    BY DEF Spawn, Poll, StopTerm, StopGrace, BuildGoto, BuildInv, BuildOK
  <2>2. group[a].leader # "alive" /\ group[a].child # "alive"
    BY <2>1, BuildStops DEF StopWait
  <2>3. group'[a] = NoGroup
    BY <2>1, <2>2 DEF StopWait, BuildInv, BuildOK
  <2> QED
    BY <2>3 DEF NoGroup, Still
<1> QED
  BY <1>1, <1>2, <1>3, WorkKept DEF BuildFields, Owner, Steady, Leavers

LEMMA StepsEnd ==
  ASSUME BuildInv, NEW a \in Attempts, StepEnds(a)
  PROVE  BuildInv'
<1>0. build[a].pc = "ended" /\ group' = group
  BY DEF StepEnds
<1>1. CASE BuildEnds(a, "failed") /\ work' = work
  BY <1>0, <1>1, GivesUp DEF Leavers
<1>2. CASE ~(BuildEnds(a, "failed") /\ work' = work)
  <2> DEFINE d == build[a].dir
  <2>1. /\ DOMAIN build' = Attempts /\ \A b \in Attempts \ {a} : build'[b] = build[b]
        /\ DOMAIN build'[a] = BuildFields /\ build'[a].pc \in {"read", "spawn"}
        /\ build'[a].dir = d
    BY <1>2 DEF StepEnds, BuildInv, BuildOK, BuildFields
  <2>2. work' = work \/ work' = [work EXCEPT ![d].out = work[d].apk]
    BY <1>2 DEF StepEnds
  <2>3. d \in Works /\ work[d].by = a /\ Still(a)
    BY <1>0 DEF BuildInv, OwnWork, Quiet, Owner, Steady
  <2> HIDE DEF d
  <2>4. /\ DOMAIN work' = Works
        /\ \A e \in Works : /\ DOMAIN work'[e] = {"by", "apk", "out", "gz", "id"}
                            /\ work'[e].by = work[e].by /\ work'[e].id = work[e].id
                            /\ e # d => work'[e] = work[e]
    BY <2>2, <2>3 DEF BuildInv, BuildOK
  <2>5. BuildOK'
    BY <1>0, <2>1, <2>4 DEF BuildInv, BuildOK, BuildFields, Owner
  <2>6. Quiet'
    BY <1>0, <2>1, <2>3 DEF BuildInv, Quiet, Still
  <2>7. OwnWork'
    BY <1>0, <2>1, <2>3, <2>4 DEF BuildInv, OwnWork, Still
  <2>8. InHand'
    <3> SUFFICES ASSUME NEW b \in Attempts, b # a, build[b].pc \in {"pack", "record"}
                 PROVE  work'[build[b].dir] = work[build[b].dir]
      BY <2>1 DEF BuildInv, InHand
    <3>1. build[b].dir \in Works /\ work[build[b].dir].by = b
      BY DEF BuildInv, OwnWork, Owner
    <3> QED
      BY <2>3, <2>4, <3>1
  <2>9. Recorded'
    <3>1. work[d].id = 0
      BY <1>0, <2>3 DEF BuildInv, Recorded
    <3> SUFFICES ASSUME NEW e \in Works, e # d, work[e].id # 0
                 PROVE  /\ work[e].id = work[e].out /\ work[e].id = work[e].gz
                        /\ work[e].by \in Attempts /\ build'[work[e].by].pc = "done"
      BY <2>4, <3>1 DEF Recorded
    <3> QED
      BY <1>0, <2>1 DEF BuildInv, Recorded
  <2> QED
    BY <2>5, <2>6, <2>7, <2>8, <2>9 DEF BuildInv
<1> QED
  BY <1>1, <1>2

LEMMA OutputsRead ==
  ASSUME BuildInv, NEW a \in Attempts, ReadOutput(a)
  PROVE  BuildInv'
<1>1. /\ build[a].pc = "read" /\ group' = group /\ work' = work
      /\ DOMAIN build' = Attempts /\ \A b \in Attempts \ {a} : build'[b] = build[b]
      /\ DOMAIN build'[a] = BuildFields /\ build'[a].pc = "pack"
      /\ build'[a].dir = build[a].dir /\ build'[a].elf = work[build[a].dir].out
  BY DEF ReadOutput, BuildInv, BuildOK, BuildFields
<1>2. BuildOK' /\ InHand'
  BY <1>1 DEF BuildInv, BuildOK, InHand, BuildFields, Owner
<1>3. Quiet' /\ OwnWork'
  BY <1>1 DEF BuildInv, Quiet, OwnWork, Still, Steady, Owner
<1>4. Recorded'
  BY <1>1 DEF BuildInv, Recorded
<1> QED
  BY <1>2, <1>3, <1>4 DEF BuildInv

LEMMA OutputsPack ==
  ASSUME BuildInv, NEW a \in Attempts, PackOutput(a) \/ RecordArtifact(a)
  PROVE  BuildInv'
<1>0. build[a].pc \in {"pack", "record"} /\ group' = group
  BY DEF PackOutput, RecordArtifact
<1>1. CASE BuildEnds(a, "failed") /\ work' = work
  BY <1>0, <1>1, GivesUp DEF Leavers
<1>2. CASE PackOutput(a) \/ (RecordArtifact(a) /\ BuildEnds(a, "done"))
  <2> DEFINE d == build[a].dir
  <2>1. d \in Works /\ work[d].by = a /\ Still(a) /\ work[d].out = build[a].elf
    BY <1>0 DEF BuildInv, OwnWork, Quiet, InHand, Owner, Steady
  <2>2. /\ DOMAIN build' = Attempts /\ \A b \in Attempts \ {a} : build'[b] = build[b]
        /\ DOMAIN build'[a] = BuildFields /\ build'[a].dir = d
    BY <1>2, BuildGoes, BuildStops DEF PackOutput
  <2>3. \/ /\ build[a].pc = "pack" /\ build'[a].pc = "record" /\ build'[a].elf = build[a].elf
           /\ work' = [work EXCEPT ![d].gz = build[a].elf]
        \/ /\ build[a].pc = "record" /\ build'[a].pc = "done"
           /\ work' = [work EXCEPT ![d].id = build[a].elf]
    <3>1. CASE PackOutput(a)
      BY <3>1, BuildGoes DEF PackOutput
    <3>2. CASE RecordArtifact(a) /\ BuildEnds(a, "done")
      <4>1. build'[a].pc = "done"
        BY <3>2, BuildStops
      <4>2. ~BuildEnds(a, "failed")
        BY <4>1, BuildStops
      <4> QED
        BY <3>2, <4>1, <4>2 DEF RecordArtifact
    <3> QED
      BY <1>2, <3>1, <3>2
  <2> HIDE DEF d
  <2>4. /\ DOMAIN work' = Works
        /\ \A e \in Works : /\ DOMAIN work'[e] = {"by", "apk", "out", "gz", "id"}
                            /\ work'[e].by = work[e].by /\ work'[e].out = work[e].out
                            /\ e # d => work'[e] = work[e]
    BY <2>1, <2>3 DEF BuildInv, BuildOK
  <2>5. BuildOK'
    BY <1>0, <2>2, <2>3, <2>4 DEF BuildInv, BuildOK, BuildFields, Owner
  <2>6. Quiet'
    BY <1>0, <2>1, <2>2 DEF BuildInv, Quiet, Still
  <2>7. OwnWork'
    BY <1>0, <2>1, <2>2, <2>4 DEF BuildInv, OwnWork, Still
  <2>8. InHand'
    <3>1. ASSUME NEW b \in Attempts, b # a, build[b].pc \in {"pack", "record"}
          PROVE  work'[build[b].dir] = work[build[b].dir]
      <4>1. build[b].dir \in Works /\ work[build[b].dir].by = b
        BY <3>1 DEF BuildInv, OwnWork, Owner
      <4> QED
        BY <2>1, <2>4, <3>1, <4>1
    <3>2. build'[a].pc \in {"pack", "record"} =>
            build'[a].pc = "record" /\ build'[a].elf = work'[d].gz /\ build'[a].elf = work'[d].out
      BY <2>1, <2>3 DEF BuildInv, BuildOK
    <3> QED
      BY <2>2, <3>1, <3>2 DEF BuildInv, InHand
  <2>9. Recorded'
    <3>1. work[d].id = 0
      BY <1>0, <2>1 DEF BuildInv, Recorded
    <3>2. ASSUME NEW e \in Works, e # d, work'[e].id # 0
          PROVE  /\ work'[e].id = work'[e].out /\ work'[e].id = work'[e].gz
                 /\ work'[e].by \in Attempts /\ build'[work'[e].by].pc = "done"
      BY <1>0, <2>2, <2>4, <3>2 DEF BuildInv, Recorded
    <3>3. ASSUME work'[d].id # 0
          PROVE  /\ work'[d].id = work'[d].out /\ work'[d].id = work'[d].gz
                 /\ work'[d].by \in Attempts /\ build'[work'[d].by].pc = "done"
      <4>1. build[a].pc = "record" /\ build'[a].pc = "done"
            /\ work' = [work EXCEPT ![d].id = build[a].elf]
        BY <2>1, <2>3, <3>1, <3>3 DEF BuildInv, BuildOK
      <4>2. build[a].elf = work[d].gz
        BY <4>1 DEF BuildInv, InHand, d
      <4>3. work'[d].id = build[a].elf /\ work'[d].gz = work[d].gz /\ work'[d].out = work[d].out
        BY <2>1, <4>1 DEF BuildInv, BuildOK
      <4> QED
        BY <2>1, <2>4, <4>1, <4>2, <4>3
    <3> QED
      BY <2>1, <3>2, <3>3 DEF Recorded
  <2> QED
    BY <2>5, <2>6, <2>7, <2>8, <2>9 DEF BuildInv
<1> QED
  BY <1>1, <1>2 DEF RecordArtifact

LEMMA BuildKeeps ==
  ASSUME BuildInv, BuildLine \/ UNCHANGED <<build, group, work>>
  PROVE  BuildInv'
<1>1. CASE UNCHANGED <<build, group, work>>
  BY <1>1 DEF BuildInv, BuildOK, Quiet, OwnWork, InHand, Recorded, Still
<1>2. ASSUME NEW a \in Attempts, BuildStep(a)
      PROVE  BuildInv'
  BY <1>2, Claims, StepsRun, StepsEnd, OutputsRead, OutputsPack DEF BuildStep
<1>3. ASSUME NEW a \in Attempts, ToolStep(a)
      PROVE  BuildInv'
  BY <1>3, ToolsLive, ToolsWrite DEF ToolStep
<1>4. ASSUME NEW a \in Attempts, BuildKilled(a)
      PROVE  BuildInv'
  BY <1>4, GivesUp DEF BuildKilled, Leavers
<1> QED
  BY <1>1, <1>2, <1>3, <1>4 DEF BuildLine

LEMMA InstallsBuildNothing ==
  ASSUME InstallLine
  PROVE  UNCHANGED <<build, group, work>>
<1>1. CASE (\E p \in InputNames : RewriteBegin(p) \/ Replace(p)) \/ RewriteEnd
  BY <1>1 DEF RewriteBegin, Replace, RewriteEnd
<1>2. ASSUME NEW i \in Installers, InstallerStep(i) \/ InstallerKilled(i)
      PROVE  UNCHANGED <<build, group, work>>
  BY <1>2 DEF InstallerStep, InstallerKilled, ReadLstat, ReadOpen, ReadRest, InstallCheck,
              InstallCreate, InstallData, OthersThanInstaller
<1> QED
  BY <1>1, <1>2 DEF InstallLine

LEMMA BuildInvKept ==
  ASSUME BuildInv, [RNext]_rvars
  PROVE  BuildInv'
<1>1. InstallLine \/ BuildLine \/ UNCHANGED tvars
  BY DEF RNext, rvars
<1>2. CASE UNCHANGED tvars
  BY <1>2, BuildKeeps DEF tvars
<1> QED
  BY <1>1, <1>2, BuildKeeps, InstallsBuildNothing

(* Between two steps of a build, and when its output is read and recorded,   *)
(* no process of an earlier step is left, for any number of attempts.        *)
THEOREM BuildStepsLeaveNobody == RSpec => []StepLeavesNobody
<1>1. RInit => BuildInv
  BY BuildStarts DEF RInit
<1>2. BuildInv /\ [RNext]_rvars => BuildInv'
  BY BuildInvKept
<1>3. BuildInv => StepLeavesNobody
  BY StillIs DEF BuildInv, Quiet, Steady, StepLeavesNobody
<1> QED
  BY <1>1, <1>2, <1>3, PTL DEF RSpec

(* What artifact.json records is and stays what lies beside it, although     *)
(* the tools of killed attempts go on writing.                               *)
THEOREM RecordsStayTrue == RSpec => []RecordIsTheFile
<1>1. RInit => BuildInv
  BY BuildStarts DEF RInit
<1>2. BuildInv /\ [RNext]_rvars => BuildInv'
  BY BuildInvKept
<1>3. BuildInv => RecordIsTheFile
  BY DEF BuildInv, Recorded, RecordIsTheFile
<1> QED
  BY <1>1, <1>2, <1>3, PTL DEF RSpec

-----------------------------------------------------------------------------
(* sign-apks.py                                                              *)

OnePackage == {"sign", "normalize", "compare", "row"}
SignWorking == {"copy", "record", "done"} \cup OnePackage

SignOK ==
  /\ cand \in [PackageNames -> Nat \ {0}]
  /\ DOMAIN signer = Signers
  /\ \A s \in Signers :
       /\ DOMAIN signer[s] = {"pc", "at", "norm", "rows"}
       /\ signer[s].at \in DOMAIN Packages
       /\ DOMAIN signer[s].rows = PackageNames
  /\ DOMAIN signed = PackageNames
  /\ \A p \in PackageNames : DOMAIN signed[p] = {"build", "sig"} /\ signed[p].sig \in BOOLEAN

(* The directory is of one run, ...                                          *)
SignOwned ==
  /\ \A s \in Signers : signer[s].pc \in SignWorking => madeBy = s
  /\ madeBy = NoSigner => \A p \in PackageNames : signed[p] = NoPackage
(* ... which has not come to the packages that are not there, ...            *)
Ahead(s) ==
  /\ signer[s].pc = "start" => signer[s].at = 1
  /\ signer[s].pc = "copy" =>
       \A m \in DOMAIN Packages : m >= signer[s].at => signed[Packages[m]] = NoPackage
  /\ signer[s].pc \in OnePackage =>
       \A m \in DOMAIN Packages : m > signer[s].at => signed[Packages[m]] = NoPackage
(* ... and has told the truth about those it is done with.                   *)
TrueRow(s, p) ==
  /\ signed[p].sig = TRUE /\ signer[s].rows[p].signed = signed[p]
  /\ signer[s].rows[p].content = signed[p].build
Rowed(s) ==
  /\ signer[s].pc \in {"copy"} \cup OnePackage =>
       \A m \in DOMAIN Packages : m < signer[s].at => TrueRow(s, Packages[m])
  /\ signer[s].pc \in OnePackage \ {"sign"} => signed[Packages[signer[s].at]].sig = TRUE
  /\ signer[s].pc = "row" => signer[s].norm = signed[Packages[signer[s].at]].build
  /\ signer[s].pc \in {"record", "done"} => \A p \in PackageNames : TrueRow(s, p)
Written ==
  \/ \A p \in PackageNames : record[p] = NoRow
  \/ \E s \in Signers : signer[s].pc = "done" /\ record = signer[s].rows

SignInv == SignOK /\ SignOwned /\ Written /\ \A s \in Signers : Ahead(s) /\ Rowed(s)

(* A package once there keeps its content.                                   *)
Stays ==
  \A p \in PackageNames :
    signed[p] # NoPackage => signed'[p] # NoPackage /\ signed'[p].build = signed[p].build

LEMMA PackagesAre ==
  /\ Len(Packages) \in Nat /\ Len(Packages) > 0 /\ DOMAIN Packages = 1..Len(Packages)
  /\ \A m \in DOMAIN Packages : Packages[m] \in PackageNames
  /\ \A p \in PackageNames : \E m \in DOMAIN Packages : p = Packages[m]
  /\ \A m, n \in DOMAIN Packages : Packages[m] = Packages[n] => m = n
  /\ NoSigner \notin Signers
  BY SigningAssumption DEF PackageNames, NoSigner

LEMMA SigningStarts ==
  ASSUME SInit
  PROVE  SignInv
<1>1. \A s \in Signers : signer[s].pc = "start" /\ signer[s].at = 1
                         /\ DOMAIN signer[s] = {"pc", "at", "norm", "rows"}
                         /\ DOMAIN signer[s].rows = PackageNames
  BY DEF SInit
<1>2. \A p \in PackageNames : signed[p] = NoPackage /\ record[p] = NoRow
  BY DEF SInit
<1>3. \A s \in Signers : Ahead(s) /\ Rowed(s)
  BY <1>1 DEF Ahead, Rowed, OnePackage
<1>4. SignOwned /\ Written
  BY <1>1, <1>2 DEF SignOwned, Written, SignWorking, OnePackage
<1>5. SignOK
  <2>1. cand \in [PackageNames -> Nat \ {0}]
    BY DEF SInit
  <2>2. DOMAIN signer = Signers /\ DOMAIN signed = PackageNames
    BY DEF SInit
  <2>3. 1 \in DOMAIN Packages
    BY PackagesAre
  <2>4. DOMAIN NoPackage = {"build", "sig"} /\ NoPackage.sig \in BOOLEAN
    BY DEF NoPackage
  <2> QED
    BY <1>1, <1>2, <2>1, <2>2, <2>3, <2>4 DEF SignOK
<1> QED
  BY <1>3, <1>4, <1>5 DEF SignInv

LEMMA SameRun ==
  ASSUME NEW r \in Signers, Ahead(r), Rowed(r), signer'[r] = signer[r], signed' = signed
  PROVE  Ahead(r)' /\ Rowed(r)'
  BY DEF Ahead, Rowed, TrueRow

SignerFields == {"pc", "at", "norm", "rows"}
(* A step of one run that leaves the packages and the record alone.          *)
LEMMA PackagesKept ==
  ASSUME SignInv, NEW s \in Signers, signed' = signed, record' = record, madeBy' = madeBy,
         cand' = cand, signer[s].pc # "done",
         DOMAIN signer' = Signers, \A r \in Signers \ {s} : signer'[r] = signer[r],
         DOMAIN signer'[s] = SignerFields, signer'[s].at \in DOMAIN Packages,
         DOMAIN signer'[s].rows = PackageNames,
         signer'[s].pc \in SignWorking => signer[s].pc \in SignWorking,
         Ahead(s)', Rowed(s)'
  PROVE  SignInv' /\ Stays
<1>1. SignOK'
  BY DEF SignInv, SignOK, SignerFields
<1>2. SignOwned'
  BY DEF SignInv, SignOwned
<1>3. Written'
  BY DEF SignInv, Written
<1>4. ASSUME NEW r \in Signers, r # s
      PROVE  Ahead(r)' /\ Rowed(r)'
  <2>1. signer'[r] = signer[r]
    BY <1>4
  <2>2. Ahead(r)'
    BY <2>1 DEF SignInv, Ahead
  <2>3. Rowed(r)'
    BY <2>1 DEF SignInv, Rowed, TrueRow
  <2> QED BY <2>2, <2>3
<1>5. Stays
  BY DEF Stays
<1> QED
  BY <1>1, <1>2, <1>3, <1>4, <1>5 DEF SignInv

LEMMA SignerGoes ==
  ASSUME SignInv, NEW s \in Signers, NEW pc, SignerGoto(s, pc)
  PROVE  /\ DOMAIN signer' = Signers /\ \A r \in Signers \ {s} : signer'[r] = signer[r]
         /\ DOMAIN signer'[s] = SignerFields /\ signer'[s].pc = pc
         /\ signer'[s].at = signer[s].at /\ signer'[s].norm = signer[s].norm
         /\ signer'[s].rows = signer[s].rows
         /\ signer'[s].at \in DOMAIN Packages /\ DOMAIN signer'[s].rows = PackageNames
  BY DEF SignerGoto, SignInv, SignOK, SignerFields

(* Whoever stops for good.                                                   *)
LEMMA SigningStops ==
  ASSUME SignInv, NEW s \in Signers, NEW pc \in {"refused", "dead"}, SignerGoto(s, pc),
         signed' = signed, record' = record, madeBy' = madeBy, cand' = cand,
         signer[s].pc # "done"
  PROVE  SignInv' /\ Stays
<1>1. Ahead(s)' /\ Rowed(s)'
  BY SignerGoes DEF Ahead, Rowed, OnePackage
<1>2. signer'[s].pc \notin SignWorking
  BY SignerGoes DEF SignWorking, OnePackage
<1> QED
  BY <1>1, <1>2, SignerGoes, PackagesKept

LEMMA SigningBegins ==
  ASSUME SignInv, NEW s \in Signers, SignBegin(s)
  PROVE  SignInv' /\ Stays
<1>0. signer[s].pc = "start" /\ signed' = signed /\ record' = record /\ cand' = cand
  BY DEF SignBegin, OthersThanSigner
<1>1. CASE SignerGoto(s, "refused") /\ madeBy' = madeBy
  BY <1>0, <1>1, SigningStops
<1>2. CASE madeBy = NoSigner /\ SignerGoto(s, "copy") /\ madeBy' = s
  <2>1. \A p \in PackageNames : signed[p] = NoPackage
    BY <1>2 DEF SignInv, SignOwned
  <2>2. \A r \in Signers : signer[r].pc \notin SignWorking
    BY <1>2, PackagesAre DEF SignInv, SignOwned
  <2>3. signer[s].at = 1
    BY <1>0 DEF SignInv, Ahead
  <2>4. \A m \in DOMAIN Packages : ~(m < signer'[s].at)
    BY <1>2, <2>3, SignerGoes, PackagesAre
  <2>5. signer'[s].pc = "copy"
    BY <1>2, SignerGoes
  <2>6. Ahead(s)'
    BY <1>0, <2>1, <2>5, PackagesAre DEF Ahead, OnePackage
  <2>7. Rowed(s)'
    BY <2>4, <2>5 DEF Rowed, OnePackage
  <2>8. ASSUME NEW r \in Signers, r # s
        PROVE  Ahead(r)' /\ Rowed(r)'
    <3>1. signer'[r] = signer[r]
      BY <1>2, <2>8, SignerGoes
    <3> QED
      BY <1>0, <3>1, SameRun DEF SignInv
  <2>9. SignOK'
    BY <1>0, <1>2, SignerGoes DEF SignInv, SignOK, SignerFields
  <2>10. SignOwned'
    BY <1>2, <2>2, SignerGoes, PackagesAre DEF SignOwned
  <2>11. Written'
    BY <1>0, <2>2 DEF SignInv, Written, SignWorking
  <2> QED
    BY <1>0, <2>6, <2>7, <2>8, <2>9, <2>10, <2>11 DEF SignInv, Stays
<1> QED
  BY <1>1, <1>2 DEF SignBegin

(* The two steps that change the package a run has come to.                  *)
LEMMA PackageChanges ==
  ASSUME SignInv, NEW s \in Signers, SignCopy(s) \/ SignOne(s)
  PROVE  SignInv' /\ Stays
<1> DEFINE n == signer[s].at
           p == Packages[n]
<1>0. n \in DOMAIN Packages /\ p \in PackageNames /\ Signing(s) = p
  BY PackagesAre DEF SignInv, SignOK, Signing
<1>1. /\ record' = record /\ madeBy' = madeBy /\ cand' = cand
      /\ \/ /\ signer[s].pc = "copy" /\ SignerGoto(s, "sign")
            /\ signed' = [signed EXCEPT ![p] = [build |-> cand[p], sig |-> FALSE]]
         \/ /\ signer[s].pc = "sign" /\ SignerGoto(s, "normalize")
            /\ signed' = [signed EXCEPT ![p].sig = TRUE]
  BY <1>0 DEF SignCopy, SignOne, OthersThanSigner
<1>2. madeBy = s /\ signer[s].pc \in {"copy", "sign"}
  BY <1>1 DEF SignInv, SignOwned, SignWorking, OnePackage
<1>3. \A m \in DOMAIN Packages : m > n => signed[Packages[m]] = NoPackage
  BY <1>0, <1>2, PackagesAre DEF SignInv, Ahead, OnePackage
<1>4. \A m \in DOMAIN Packages : m < n => TrueRow(s, Packages[m])
  BY <1>2 DEF SignInv, Rowed, OnePackage
<1>5. signer[s].pc = "copy" => signed[p] = NoPackage
  BY <1>0, PackagesAre DEF SignInv, Ahead
<1>6. cand[p] \in Nat \ {0}
  BY <1>0 DEF SignInv, SignOK
<1>7. \A m \in DOMAIN Packages : m # n => Packages[m] # p
  BY <1>0, PackagesAre
<1> HIDE DEF n, p
<1>8. /\ DOMAIN signed' = PackageNames
      /\ \A q \in PackageNames : /\ DOMAIN signed'[q] = {"build", "sig"}
                                 /\ signed'[q].sig \in BOOLEAN
                                 /\ q # p => signed'[q] = signed[q]
  <2>1. /\ DOMAIN signed = PackageNames
        /\ \A q \in PackageNames : DOMAIN signed[q] = {"build", "sig"} /\ signed[q].sig \in BOOLEAN
    BY DEF SignInv, SignOK
  <2>2. CASE signed' = [signed EXCEPT ![p] = [build |-> cand[p], sig |-> FALSE]]
    BY <1>0, <2>1, <2>2
  <2>3. CASE signed' = [signed EXCEPT ![p].sig = TRUE]
    <3>1. DOMAIN signed'[p] = {"build", "sig"} /\ signed'[p].sig = TRUE
      BY <1>0, <2>1, <2>3
    <3> QED
      BY <1>0, <2>1, <2>3, <3>1
  <2> QED
    BY <1>1, <2>2, <2>3
<1>9. Stays
  <2>1. ASSUME signed[p] # NoPackage
        PROVE  signed'[p] # NoPackage /\ signed'[p].build = signed[p].build
    <3>1. signed' = [signed EXCEPT ![p].sig = TRUE]
      BY <1>1, <1>5, <2>1
    <3> QED
      BY <1>0, <3>1 DEF SignInv, SignOK, NoPackage
  <2> QED
    BY <1>8, <2>1 DEF Stays
<1>10. /\ DOMAIN signer' = Signers /\ \A r \in Signers \ {s} : signer'[r] = signer[r]
       /\ DOMAIN signer'[s] = SignerFields /\ signer'[s].at = n
       /\ signer'[s].rows = signer[s].rows
       /\ signer'[s].at \in DOMAIN Packages /\ DOMAIN signer'[s].rows = PackageNames
       /\ \/ signer'[s].pc = "sign"
          \/ signer'[s].pc = "normalize" /\ signed' = [signed EXCEPT ![p].sig = TRUE]
  BY <1>1, SignerGoes DEF n
<1>11. SignOK'
  BY <1>1, <1>8, <1>10 DEF SignInv, SignOK, SignerFields
<1>12. SignOwned'
  BY <1>1, <1>2, <1>10, PackagesAre DEF SignInv, SignOwned
<1>13. Ahead(s)'
  BY <1>0, <1>3, <1>7, <1>8, <1>10, PackagesAre DEF Ahead, OnePackage
<1>14. Rowed(s)'
  <2>1. \A m \in DOMAIN Packages : m < n => TrueRow(s, Packages[m])'
    <3> SUFFICES ASSUME NEW m \in DOMAIN Packages, m < n PROVE TrueRow(s, Packages[m])'
      OBVIOUS
    <3>1. m # n /\ Packages[m] \in PackageNames
      BY <1>0, PackagesAre
    <3>2. signed'[Packages[m]] = signed[Packages[m]]
      BY <1>7, <1>8, <3>1
    <3> QED
      BY <1>4, <1>10, <3>2 DEF TrueRow
  <2>2. signer'[s].pc = "normalize" => signed'[p].sig = TRUE
    BY <1>0, <1>10 DEF SignInv, SignOK
  <2>3. signer'[s].at = n /\ signer'[s].pc \in {"sign", "normalize"}
    BY <1>10
  <2> QED
    BY <2>1, <2>2, <2>3 DEF Rowed, OnePackage, p
<1>15. ASSUME NEW r \in Signers, r # s
       PROVE  Ahead(r)' /\ Rowed(r)' /\ signer[r].pc # "done"
  <2>1. signer'[r] = signer[r] /\ signer[r].pc \notin SignWorking
    BY <1>2, <1>10, <1>15 DEF SignInv, SignOwned
  <2>2. Ahead(r)'
    BY <2>1 DEF SignInv, Ahead, SignWorking
  <2>3. Rowed(r)'
    BY <2>1 DEF Rowed, SignWorking, OnePackage
  <2> QED
    BY <2>1, <2>2, <2>3 DEF SignWorking
<1>16. Written'
  BY <1>1, <1>2, <1>15 DEF SignInv, Written
<1> QED
  BY <1>9, <1>11, <1>12, <1>13, <1>14, <1>15, <1>16 DEF SignInv

LEMMA Compares ==
  ASSUME SignInv, NEW s \in Signers, Normalize(s) \/ CompareContent(s)
  PROVE  SignInv' /\ Stays
<1>0. /\ signed' = signed /\ record' = record /\ madeBy' = madeBy /\ cand' = cand
      /\ signer[s].pc \in {"normalize", "compare"}
  BY DEF Normalize, CompareContent, OthersThanSigner
<1>1. CASE CompareContent(s) /\ SignerGoto(s, "refused")
  BY <1>0, <1>1, SigningStops
<1>2. CASE \/ Normalize(s)
           \/ /\ CompareContent(s) /\ SignerGoto(s, "row")
              /\ signer[s].norm = signed[Signing(s)].build
  <2>1. /\ DOMAIN signer' = Signers /\ \A r \in Signers \ {s} : signer'[r] = signer[r]
        /\ DOMAIN signer'[s] = SignerFields /\ signer'[s].at = signer[s].at
        /\ signer'[s].rows = signer[s].rows
        /\ signer'[s].at \in DOMAIN Packages /\ DOMAIN signer'[s].rows = PackageNames
        /\ \/ signer'[s].pc = "compare"
           \/ /\ signer'[s].pc = "row"
              /\ signer'[s].norm = signed[Packages[signer[s].at]].build
    <3>1. CASE Normalize(s)
      BY <3>1 DEF Normalize, SignInv, SignOK, SignerFields
    <3>2. CASE /\ CompareContent(s) /\ SignerGoto(s, "row")
               /\ signer[s].norm = signed[Signing(s)].build
      BY <3>2, SignerGoes DEF Signing
    <3> QED
      BY <1>2, <3>1, <3>2
  <2>2. Ahead(s)'
    BY <1>0, <2>1 DEF SignInv, Ahead, OnePackage
  <2>3. Rowed(s)'
    <3>1. signer[s].pc \in OnePackage \ {"sign"} /\ Rowed(s)
      BY <1>0 DEF SignInv, OnePackage
    <3>2. \A m \in DOMAIN Packages : m < signer[s].at => TrueRow(s, Packages[m])
      BY <3>1 DEF Rowed
    <3>3. ASSUME NEW m \in DOMAIN Packages, m < signer'[s].at
          PROVE  TrueRow(s, Packages[m])'
      BY <1>0, <2>1, <3>2, <3>3 DEF TrueRow
    <3>4. signed'[Packages[signer'[s].at]].sig = TRUE
      BY <1>0, <2>1, <3>1 DEF Rowed
    <3>5. signer'[s].pc = "row" => signer'[s].norm = signed'[Packages[signer'[s].at]].build
      BY <1>0, <2>1
    <3>6. signer'[s].pc \notin {"record", "done"}
      BY <2>1
    <3> QED BY <3>3, <3>4, <3>5, <3>6 DEF Rowed
  <2>4. signer[s].pc \in SignWorking
    BY <1>0 DEF SignWorking, OnePackage
  <2> QED
    BY <1>0, <2>1, <2>2, <2>3, <2>4, PackagesKept
<1> QED
  BY <1>1, <1>2 DEF CompareContent

LEMMA RowsAdded ==
  ASSUME SignInv, NEW s \in Signers, RecordRow(s)
  PROVE  SignInv' /\ Stays
<1> DEFINE n == signer[s].at
           p == Packages[n]
           row == [unsigned |-> [build |-> cand[p], sig |-> FALSE],
                   signed |-> signed[p], content |-> signer[s].norm]
<1>0. n \in DOMAIN Packages /\ p \in PackageNames /\ Signing(s) = p
  BY PackagesAre DEF SignInv, SignOK, Signing
<1>1. /\ signed' = signed /\ record' = record /\ madeBy' = madeBy /\ cand' = cand
      /\ signer[s].pc = "row"
  BY DEF RecordRow, OthersThanSigner
<1>2. /\ DOMAIN signer' = Signers /\ \A r \in Signers \ {s} : signer'[r] = signer[r]
      /\ DOMAIN signer'[s] = SignerFields
      /\ signer'[s].rows = [signer[s].rows EXCEPT ![p] = row]
      /\ signer'[s].pc = IF n = Len(Packages) THEN "record" ELSE "copy"
      /\ signer'[s].at = IF n = Len(Packages) THEN n ELSE n + 1
  BY <1>0 DEF RecordRow, SignInv, SignOK, SignerFields
<1>3. /\ \A m \in DOMAIN Packages : m < n => TrueRow(s, Packages[m])
      /\ \A m \in DOMAIN Packages : m > n => signed[Packages[m]] = NoPackage
      /\ signed[p].sig = TRUE /\ signer[s].norm = signed[p].build
  BY <1>1 DEF SignInv, Rowed, Ahead, OnePackage
<1>4. DOMAIN signer[s].rows = PackageNames
  BY DEF SignInv, SignOK
<1>5. \A m \in DOMAIN Packages : m <= n => TrueRow(s, Packages[m])'
  <2> SUFFICES ASSUME NEW m \in DOMAIN Packages, m <= n PROVE TrueRow(s, Packages[m])'
    OBVIOUS
  <2>1. CASE m = n
    <3>1. signer'[s].rows[p] = row
      BY <1>0, <1>2, <1>4
    <3> QED
      BY <1>1, <1>3, <2>1, <3>1 DEF TrueRow
  <2>2. CASE m < n
    <3>1. Packages[m] # p /\ Packages[m] \in PackageNames
      BY <1>0, <2>2, PackagesAre
    <3>2. signer'[s].rows[Packages[m]] = signer[s].rows[Packages[m]]
      BY <1>2, <1>4, <3>1
    <3> QED
      BY <1>1, <1>3, <2>2, <3>2 DEF TrueRow
  <2> QED
    BY <1>0, <2>1, <2>2, PackagesAre
<1> HIDE DEF n, p, row
<1>6. DOMAIN signer'[s].rows = PackageNames /\ signer'[s].at \in DOMAIN Packages
  BY <1>0, <1>2, <1>4, PackagesAre
<1>7. Ahead(s)' /\ Rowed(s)'
  <2>1. CASE n = Len(Packages)
    <3>1. signer'[s].pc = "record"
      BY <1>2, <2>1
    <3>2. \A q \in PackageNames : TrueRow(s, q)'
      <4> SUFFICES ASSUME NEW q \in PackageNames PROVE TrueRow(s, q)'
        OBVIOUS
      <4>1. PICK m \in DOMAIN Packages : q = Packages[m]
        BY PackagesAre
      <4>2. m <= n
        BY <2>1, PackagesAre
      <4> QED
        BY <1>5, <4>1, <4>2
    <3> QED
      BY <3>1, <3>2 DEF Ahead, Rowed, OnePackage
  <2>2. CASE n # Len(Packages)
    <3>1. signer'[s].pc = "copy" /\ signer'[s].at = n + 1
      BY <1>2, <2>2
    <3>2. \A m \in DOMAIN Packages : m < signer'[s].at => m <= n
      BY <1>0, <3>1, PackagesAre
    <3>3. \A m \in DOMAIN Packages : m >= signer'[s].at => m > n
      BY <1>0, <3>1, PackagesAre
    <3>4. Ahead(s)'
      BY <1>1, <1>3, <3>1, <3>3 DEF Ahead, OnePackage
    <3>5. Rowed(s)'
      BY <1>5, <3>1, <3>2 DEF Rowed, OnePackage
    <3> QED
      BY <3>4, <3>5
  <2> QED
    BY <2>1, <2>2
<1>8. signer[s].pc \in SignWorking
  BY <1>1 DEF SignWorking, OnePackage
<1> QED
  BY <1>1, <1>2, <1>6, <1>7, <1>8, PackagesKept

LEMMA RecordsWritten ==
  ASSUME SignInv, NEW s \in Signers, WriteRecord(s)
  PROVE  SignInv' /\ Stays
<1>1. /\ signed' = signed /\ record' = signer[s].rows /\ madeBy' = madeBy /\ cand' = cand
      /\ signer[s].pc = "record" /\ SignerGoto(s, "done")
  BY DEF WriteRecord, OthersThanSigner
<1>2. SignOK'
  BY <1>1, SignerGoes DEF SignInv, SignOK, SignerFields
<1>3. SignOwned'
  BY <1>1, SignerGoes DEF SignInv, SignOwned, SignWorking
<1>4. Written'
  BY <1>1, SignerGoes DEF Written
<1>5. Ahead(s)' /\ Rowed(s)'
  <2>1. \A p \in PackageNames : TrueRow(s, p)
    BY <1>1 DEF SignInv, Rowed
  <2>2. \A p \in PackageNames : TrueRow(s, p)'
    BY <1>1, <2>1, SignerGoes DEF TrueRow
  <2>3. signer'[s].pc = "done"
    BY <1>1, SignerGoes
  <2> QED
    BY <2>2, <2>3 DEF Ahead, Rowed, OnePackage
<1>6. ASSUME NEW r \in Signers, r # s
      PROVE  Ahead(r)' /\ Rowed(r)'
  <2>1. signer'[r] = signer[r]
    BY <1>1, <1>6, SignerGoes
  <2> QED
    BY <1>1, <2>1, SameRun DEF SignInv
<1> QED
  BY <1>1, <1>2, <1>3, <1>4, <1>5, <1>6 DEF SignInv, Stays

LEMMA SignKeeps ==
  ASSUME SignInv, SNext \/ UNCHANGED svars
  PROVE  SignInv' /\ Stays
<1>1. ASSUME UNCHANGED <<signer, madeBy, signed, record>>, cand' \in [PackageNames -> Nat \ {0}]
      PROVE  SignInv' /\ Stays
  <2>1. SignOK'
    BY <1>1 DEF SignInv, SignOK
  <2>2. SignOwned' /\ Written'
    BY <1>1 DEF SignInv, SignOwned, Written
  <2>3. ASSUME NEW s \in Signers PROVE Ahead(s)' /\ Rowed(s)'
    BY <1>1 DEF SignInv, Ahead, Rowed, TrueRow
  <2> QED BY <1>1, <2>1, <2>2, <2>3 DEF SignInv, Stays
<1>2. cand \in [PackageNames -> Nat \ {0}]
  BY DEF SignInv, SignOK
<1>3. CASE UNCHANGED svars \/ StageStep
  BY <1>1, <1>2, <1>3 DEF svars, StageStep, StageList, StageDump, StageHash, StageCopy, StageCheck,
                          StageWrite, OthersThanStager
<1>4. ASSUME NEW p \in PackageNames, Recandidate(p)
      PROVE  SignInv' /\ Stays
  <2>1. cand' = [cand EXCEPT ![p] = @ + 1] /\ cand[p] \in Nat
    BY <1>2, <1>4 DEF Recandidate
  <2>2. cand[p] + 1 \in Nat \ {0}
    BY <2>1
  <2>3. cand' \in [PackageNames -> Nat \ {0}]
    BY <1>2, <2>1, <2>2
  <2> QED
    BY <1>1, <1>4, <2>3 DEF Recandidate
<1>5. ASSUME NEW s \in Signers, SignStep(s)
      PROVE  SignInv' /\ Stays
  <2>1. CASE SignerKilled(s)
    BY <2>1, SigningStops DEF SignerKilled, OthersThanSigner
  <2> QED
    BY <1>5, <2>1, SigningBegins, PackageChanges, Compares, RowsAdded, RecordsWritten DEF SignStep
<1> QED
  BY <1>3, <1>4, <1>5 DEF SNext

LEMMA SignInvKept ==
  ASSUME SignInv, [RNext]_rvars
  PROVE  SignInv' /\ Stays
<1>1. SNext \/ UNCHANGED svars
  BY DEF RNext, rvars
<1> QED
  BY <1>1, SignKeeps

(* What APK-SIGNATURES.json tells of the packages beside it is and stays     *)
(* true, for any number of packages, rival runs and candidates built anew.   *)
THEOREM SignatureRecordsAreTrue == RSpec => []SignatureRecordIsTrue
<1>1. RInit => SignInv
  BY SigningStarts DEF RInit
<1>2. SignInv /\ [RNext]_rvars => SignInv'
  BY SignInvKept
<1>3. SignInv => SignatureRecordIsTrue
  <2> SUFFICES ASSUME SignInv, NEW p \in PackageNames, record[p] # NoRow
               PROVE  /\ signed[p].sig
                      /\ record[p].signed = signed[p] /\ record[p].content = signed[p].build
    BY DEF SignatureRecordIsTrue
  <2>1. PICK s \in Signers : signer[s].pc = "done" /\ record = signer[s].rows
    BY DEF SignInv, Written
  <2>2. TrueRow(s, p)
    BY <2>1 DEF SignInv, Rowed
  <2> QED
    BY <2>1, <2>2 DEF TrueRow
<1> QED
  BY <1>1, <1>2, <1>3, PTL DEF RSpec

-----------------------------------------------------------------------------
(* stage-apk-assets.py                                                       *)

StagePcs == {"list", "dump", "hash", "copy", "check", "write", "done", "refused"}
StageFields == {"pc", "at", "todo", "rows"}

StageOK ==
  /\ DOMAIN stager = StageFields /\ stager.pc \in StagePcs
  /\ stager.at \in DOMAIN Packages /\ stager.todo \subseteq PackageNames
  /\ DOMAIN stager.rows = PackageNames
  /\ \A p \in PackageNames : DOMAIN stager.rows[p] = {"version", "sha"}
  /\ DOMAIN staged = PackageNames

(* What was listed is there, ...                                             *)
StageListed ==
  /\ stager.pc # "list" => stager.at \in FilesOf(stager.todo)
  /\ stager.pc = "list" => stager.todo = {}
  /\ \A p \in stager.todo : signed[p] # NoPackage
  /\ \A p \in PackageNames \ stager.todo : stager.rows[p] = NoAsset
(* ... so digest and version are of one content, ...                         *)
OneContent(p) == stager.rows[p].version = stager.rows[p].sha.build
Dumped ==
  /\ stager.pc \in {"dump", "hash"} =>
       \A m \in FilesOf(stager.todo) : m < stager.at => OneContent(Packages[m])
  /\ stager.pc = "hash" => stager.rows[StagingFile].version = signed[StagingFile].build
  /\ stager.pc \in {"copy", "check", "write", "done"} =>
       \A m \in FilesOf(stager.todo) : OneContent(Packages[m])
(* ... and the copies have been compared.                                    *)
Compared ==
  /\ stager.pc \in {"copy", "check"} =>
       \A m \in FilesOf(stager.todo) :
         m < stager.at => staged[Packages[m]] = stager.rows[Packages[m]].sha
  /\ stager.pc \in {"write", "done"} =>
       \A m \in FilesOf(stager.todo) : staged[Packages[m]] = stager.rows[Packages[m]].sha
Named ==
  \/ \A p \in PackageNames : assets[p] = NoAsset
  \/ stager.pc = "done" /\ assets = stager.rows

StageInv == StageOK /\ StageListed /\ Dumped /\ Compared /\ Named

LEMMA StagingStarts ==
  ASSUME SInit
  PROVE  StageInv
<1>1. /\ stager = [pc |-> "list", at |-> 1, todo |-> {},
                   rows |-> [p \in PackageNames |-> NoAsset]]
      /\ DOMAIN staged = PackageNames /\ \A p \in PackageNames : assets[p] = NoAsset
  BY DEF SInit
<1>2. StageOK
  BY <1>1, PackagesAre DEF StageOK, StageFields, StagePcs, NoAsset
<1>3. StageListed /\ Named
  BY <1>1 DEF StageListed, Named
<1>4. Dumped /\ Compared
  BY <1>1 DEF Dumped, Compared
<1> QED
  BY <1>2, <1>3, <1>4 DEF StageInv

(* While others sign, and candidates are built.                              *)
LEMMA StagingWaits ==
  ASSUME StageInv, Stays, UNCHANGED <<stager, staged, assets>>
  PROVE  StageInv'
<1>1. StageOK' /\ Compared' /\ Named'
  BY DEF StageInv, StageOK, Compared, Named
<1>2. StageListed'
  BY DEF StageInv, StageOK, StageListed, Stays
<1>3. Dumped'
  <2>1. stager.pc = "hash" =>
          StagingFile \in PackageNames /\ signed[StagingFile] # NoPackage
    BY PackagesAre DEF StageInv, StageOK, StageListed, FilesOf, StagingFile
  <2>2. stager.pc = "hash" => stager.rows[StagingFile].version = signed'[StagingFile].build
    BY <2>1 DEF StageInv, Dumped, Stays
  <2>3. StagingFile' = StagingFile
    BY DEF StagingFile
  <2> QED
    BY <2>2, <2>3 DEF StageInv, Dumped, OneContent, FilesOf
<1> QED
  BY <1>1, <1>2, <1>3 DEF StageInv

(* Which file comes next.                                                    *)
LEMMA NextFile ==
  ASSUME StageInv, NEW here, NEW after, NEW next \in StageNext(here, after)
  PROVE  /\ next[2] \in FilesOf(stager.todo)
         /\ \/ /\ next[1] = here
               /\ \A m \in FilesOf(stager.todo) : m < next[2] => m <= stager.at
            \/ /\ next[1] = after
               /\ \A m \in FilesOf(stager.todo) : m <= stager.at /\ ~(m < next[2])
<1> DEFINE rest == {n \in FilesOf(stager.todo) : n > stager.at}
<1>1. \A n \in FilesOf(stager.todo) : n \in Nat
  BY PackagesAre DEF FilesOf
<1>2. stager.at \in Nat
  BY PackagesAre DEF StageInv, StageOK
<1>3. CASE rest # {}
  <2>1. next \in {here} \X First(rest)
    BY <1>3 DEF StageNext
  <2> QED
    BY <1>1, <1>2, <2>1 DEF First
<1>4. CASE rest = {}
  <2>1. next \in {after} \X First(FilesOf(stager.todo))
    BY <1>4 DEF StageNext
  <2> QED
    BY <1>1, <1>2, <1>4, <2>1 DEF First
<1> QED
  BY <1>3, <1>4

LEMMA StageLists ==
  ASSUME SignInv, StageInv, StageList
  PROVE  StageInv'
<1> DEFINE present == {p \in PackageNames : signed[p] # NoPackage}
<1>1. PICK n \in First(FilesOf(present)) :
        stager' = [stager EXCEPT !.pc = "dump", !.at = n, !.todo = present]
  BY DEF StageList
<1>2. stager.pc = "list" /\ staged' = staged /\ assets' = assets /\ signed' = signed
  BY DEF StageList, OthersThanStager
<1>3. n \in FilesOf(present) /\ n \in DOMAIN Packages /\ \A m \in FilesOf(present) : ~(m < n)
  BY PackagesAre DEF First, FilesOf
<1>4. /\ DOMAIN stager' = StageFields /\ stager'.pc = "dump" /\ stager'.at = n
      /\ stager'.todo = present /\ stager'.rows = stager.rows
  BY <1>1 DEF StageInv, StageOK, StageFields
<1>5. present \subseteq PackageNames /\ \A p \in present : signed[p] # NoPackage
  OBVIOUS
<1>6. \A p \in PackageNames : stager.rows[p] = NoAsset /\ assets[p] = NoAsset
  BY <1>2 DEF StageInv, StageOK, StageListed, Named
<1> HIDE DEF present
<1>7. StageOK'
  BY <1>2, <1>3, <1>4, <1>5 DEF StageInv, StageOK, StagePcs
<1>8. StageListed' /\ Named'
  BY <1>2, <1>3, <1>4, <1>5, <1>6 DEF StageListed, Named, FilesOf
<1>9. Dumped' /\ Compared'
  BY <1>3, <1>4 DEF Dumped, Compared, FilesOf
<1> QED
  BY <1>7, <1>8, <1>9 DEF StageInv

LEMMA StageDumps ==
  ASSUME SignInv, StageInv, StageDump
  PROVE  StageInv'
<1> DEFINE p == StagingFile
<1>1. /\ stager.pc = "dump" /\ staged' = staged /\ assets' = assets /\ signed' = signed
      /\ stager' = [stager EXCEPT !.pc = "hash", !.rows[p].version = signed[p].build]
  BY DEF StageDump, OthersThanStager
<1>2. stager.at \in FilesOf(stager.todo) /\ p \in stager.todo /\ p \in PackageNames
  BY <1>1 DEF StageInv, StageOK, StageListed, FilesOf, StagingFile
<1>3. /\ DOMAIN stager' = StageFields /\ stager'.pc = "hash" /\ stager'.at = stager.at
      /\ stager'.todo = stager.todo
      /\ stager'.rows = [stager.rows EXCEPT ![p].version = signed[p].build]
  BY <1>1 DEF StageInv, StageOK, StageFields
<1>4. /\ DOMAIN stager'.rows = PackageNames
      /\ \A q \in PackageNames : /\ DOMAIN stager'.rows[q] = {"version", "sha"}
                                 /\ q # p => stager'.rows[q] = stager.rows[q]
      /\ stager'.rows[p].version = signed[p].build
  BY <1>2, <1>3 DEF StageInv, StageOK
<1>5. StagingFile' = p
  BY <1>3 DEF StagingFile
<1>6. \A m \in FilesOf(stager.todo) :
        m < stager.at => Packages[m] \in PackageNames /\ Packages[m] # p
  BY <1>2, PackagesAre DEF FilesOf, StagingFile
<1> HIDE DEF p
<1>7. StageOK'
  BY <1>1, <1>3, <1>4 DEF StageInv, StageOK, StagePcs
<1>8. StageListed'
  BY <1>1, <1>2, <1>3, <1>4 DEF StageInv, StageListed, FilesOf
<1>9. Named'
  BY <1>1, <1>3 DEF StageInv, Named
<1>10. Dumped'
  BY <1>1, <1>3, <1>4, <1>5, <1>6 DEF StageInv, Dumped, OneContent, FilesOf
<1>11. Compared'
  BY <1>3 DEF Compared
<1> QED
  BY <1>7, <1>8, <1>9, <1>10, <1>11 DEF StageInv

LEMMA StageHashes ==
  ASSUME SignInv, StageInv, StageHash
  PROVE  StageInv'
<1> DEFINE p == StagingFile
<1>1. PICK next \in StageNext("dump", "copy") :
        stager' = [stager EXCEPT !.pc = next[1], !.at = next[2], !.rows[p].sha = signed[p]]
  BY DEF StageHash
<1>2. stager.pc = "hash" /\ staged' = staged /\ assets' = assets /\ signed' = signed
  BY DEF StageHash, OthersThanStager
<1>3. stager.at \in FilesOf(stager.todo) /\ p \in stager.todo /\ p \in PackageNames
  BY <1>2 DEF StageInv, StageOK, StageListed, FilesOf, StagingFile
<1>4. /\ DOMAIN stager' = StageFields /\ stager'.pc = next[1] /\ stager'.at = next[2]
      /\ stager'.todo = stager.todo
      /\ stager'.rows = [stager.rows EXCEPT ![p].sha = signed[p]]
  BY <1>1 DEF StageInv, StageOK, StageFields
<1>5. /\ DOMAIN stager'.rows = PackageNames
      /\ \A q \in PackageNames : /\ DOMAIN stager'.rows[q] = {"version", "sha"}
                                 /\ q # p => stager'.rows[q] = stager.rows[q]
      /\ stager'.rows[p].version = stager.rows[p].version /\ stager'.rows[p].sha = signed[p]
  BY <1>3, <1>4 DEF StageInv, StageOK
<1>6. stager.rows[p].version = signed[p].build
  BY <1>2 DEF StageInv, Dumped
<1>7. /\ next[2] \in FilesOf(stager.todo)
      /\ \/ /\ next[1] = "dump"
            /\ \A m \in FilesOf(stager.todo) : m < next[2] => m <= stager.at
         \/ /\ next[1] = "copy"
            /\ \A m \in FilesOf(stager.todo) : m <= stager.at /\ ~(m < next[2])
  BY <1>1, NextFile
<1>8. \A m \in FilesOf(stager.todo) : m <= stager.at => OneContent(Packages[m])'
  <2> SUFFICES ASSUME NEW m \in FilesOf(stager.todo), m <= stager.at
               PROVE  OneContent(Packages[m])'
    OBVIOUS
  <2>1. CASE m = stager.at
    BY <1>5, <1>6, <2>1 DEF OneContent, StagingFile
  <2>2. CASE m < stager.at
    <3>1. Packages[m] \in PackageNames /\ Packages[m] # p
      BY <1>3, <2>2, PackagesAre DEF FilesOf, StagingFile
    <3>2. OneContent(Packages[m])
      BY <1>2, <2>2 DEF StageInv, Dumped
    <3> QED
      BY <1>5, <3>1, <3>2 DEF OneContent
  <2> QED
    BY <1>3, <2>1, <2>2, PackagesAre DEF FilesOf
<1> HIDE DEF p
<1>9. StageOK'
  BY <1>2, <1>4, <1>5, <1>7 DEF StageInv, StageOK, StagePcs, FilesOf
<1>10. StageListed'
  BY <1>2, <1>3, <1>4, <1>5, <1>7 DEF StageInv, StageListed, FilesOf
<1>11. Named'
  BY <1>2, <1>4 DEF StageInv, Named
<1>12. FilesOf(stager.todo)' = FilesOf(stager.todo)
  BY <1>4 DEF FilesOf
<1>13. Dumped'
  <2>1. CASE next[1] = "dump"
    BY <1>4, <1>7, <1>8, <1>12, <2>1 DEF Dumped
  <2>2. CASE next[1] = "copy"
    BY <1>4, <1>7, <1>8, <1>12, <2>2 DEF Dumped
  <2> QED
    BY <1>7, <2>1, <2>2
<1>14. Compared'
  <2>1. CASE next[1] = "dump"
    BY <1>4, <2>1 DEF Compared
  <2>2. CASE next[1] = "copy"
    BY <1>4, <1>7, <1>12, <2>2 DEF Compared
  <2> QED
    BY <1>7, <2>1, <2>2
<1> QED
  BY <1>9, <1>10, <1>11, <1>13, <1>14 DEF StageInv

LEMMA StageCopies ==
  ASSUME SignInv, StageInv, StageCopy
  PROVE  StageInv'
<1> DEFINE p == StagingFile
<1>1. /\ stager.pc = "copy" /\ assets' = assets /\ signed' = signed
      /\ stager' = [stager EXCEPT !.pc = "check"]
      /\ staged' = [staged EXCEPT ![p] = signed[p]]
  BY DEF StageCopy, OthersThanStager
<1>2. stager.at \in FilesOf(stager.todo) /\ p \in PackageNames
  BY <1>1 DEF StageInv, StageOK, StageListed, FilesOf, StagingFile
<1>3. /\ DOMAIN stager' = StageFields /\ stager'.pc = "check" /\ stager'.at = stager.at
      /\ stager'.todo = stager.todo /\ stager'.rows = stager.rows
  BY <1>1 DEF StageInv, StageOK, StageFields
<1>4. DOMAIN staged' = PackageNames /\ \A q \in PackageNames : q # p => staged'[q] = staged[q]
  BY <1>1, <1>2 DEF StageInv, StageOK
<1>5. \A m \in FilesOf(stager.todo) :
        m < stager.at => Packages[m] \in PackageNames /\ Packages[m] # p
  BY <1>2, PackagesAre DEF FilesOf, StagingFile
<1> HIDE DEF p
<1>6. StageOK'
  BY <1>3, <1>4 DEF StageInv, StageOK, StagePcs
<1>7. StageListed' /\ Named'
  BY <1>1, <1>3 DEF StageInv, StageListed, Named, FilesOf
<1>8. Dumped'
  BY <1>1, <1>3 DEF StageInv, Dumped, OneContent, FilesOf
<1>9. Compared'
  BY <1>1, <1>3, <1>4, <1>5 DEF StageInv, Compared, FilesOf
<1> QED
  BY <1>6, <1>7, <1>8, <1>9 DEF StageInv

LEMMA StageChecks ==
  ASSUME SignInv, StageInv, StageCheck
  PROVE  StageInv'
<1> DEFINE p == StagingFile
<1>1. stager.pc = "check" /\ staged' = staged /\ assets' = assets /\ signed' = signed
  BY DEF StageCheck, OthersThanStager
<1>2. stager.at \in FilesOf(stager.todo)
  BY <1>1 DEF StageInv, StageListed
<1>3. CASE stager' = [stager EXCEPT !.pc = "refused"]
  <2>1. /\ DOMAIN stager' = StageFields /\ stager'.pc = "refused" /\ stager'.at = stager.at
        /\ stager'.todo = stager.todo /\ stager'.rows = stager.rows
    BY <1>3 DEF StageInv, StageOK, StageFields
  <2>2. StageOK'
    BY <1>1, <2>1 DEF StageInv, StageOK, StagePcs
  <2>3. StageListed' /\ Named'
    BY <1>1, <2>1 DEF StageInv, StageListed, Named, FilesOf
  <2>4. Dumped' /\ Compared'
    BY <2>1 DEF Dumped, Compared
  <2> QED
    BY <2>2, <2>3, <2>4 DEF StageInv
<1>4. CASE /\ staged[p] = stager.rows[p].sha
           /\ \E next \in StageNext("copy", "write") :
                stager' = [stager EXCEPT !.pc = next[1], !.at = next[2]]
  <2>1. PICK next \in StageNext("copy", "write") :
          stager' = [stager EXCEPT !.pc = next[1], !.at = next[2]]
    BY <1>4
  <2>2. /\ DOMAIN stager' = StageFields /\ stager'.pc = next[1] /\ stager'.at = next[2]
        /\ stager'.todo = stager.todo /\ stager'.rows = stager.rows
    BY <2>1 DEF StageInv, StageOK, StageFields
  <2>3. /\ next[2] \in FilesOf(stager.todo)
        /\ \/ /\ next[1] = "copy"
              /\ \A m \in FilesOf(stager.todo) : m < next[2] => m <= stager.at
           \/ /\ next[1] = "write"
              /\ \A m \in FilesOf(stager.todo) : m <= stager.at /\ ~(m < next[2])
    BY <2>1, NextFile
  <2>4. \A m \in FilesOf(stager.todo) :
          m <= stager.at => staged[Packages[m]] = stager.rows[Packages[m]].sha
    <3> SUFFICES ASSUME NEW m \in FilesOf(stager.todo), m <= stager.at
                 PROVE  staged[Packages[m]] = stager.rows[Packages[m]].sha
      OBVIOUS
    <3>1. m = stager.at \/ m < stager.at
      BY <1>2, PackagesAre DEF FilesOf
    <3> QED
      BY <1>1, <1>4, <3>1 DEF StageInv, Compared, StagingFile
  <2>5. FilesOf(stager.todo)' = FilesOf(stager.todo)
    BY <2>2 DEF FilesOf
  <2>6. StageOK'
    BY <1>1, <2>2, <2>3 DEF StageInv, StageOK, StagePcs, FilesOf
  <2>7. StageListed'
    BY <1>1, <2>2, <2>3, <2>5 DEF StageInv, StageListed
  <2>8. Named'
    BY <1>1, <2>2 DEF StageInv, Named
  <2>9. Dumped'
    <3>1. \A m \in FilesOf(stager.todo) : OneContent(Packages[m])'
      BY <1>1, <2>2 DEF StageInv, Dumped, OneContent
    <3>2. stager'.pc \in {"copy", "write"}
      BY <2>2, <2>3
    <3> QED
      BY <2>5, <3>1, <3>2 DEF Dumped
  <2>10. Compared'
    <3>1. CASE next[1] = "copy"
      BY <1>1, <2>2, <2>3, <2>4, <2>5, <3>1 DEF Compared
    <3>2. CASE next[1] = "write"
      BY <1>1, <2>2, <2>3, <2>4, <2>5, <3>2 DEF Compared
    <3> QED
      BY <2>3, <3>1, <3>2
  <2> QED
    BY <2>6, <2>7, <2>8, <2>9, <2>10 DEF StageInv
<1> QED
  BY <1>3, <1>4 DEF StageCheck

LEMMA StageWrites ==
  ASSUME SignInv, StageInv, StageWrite
  PROVE  StageInv'
<1>1. /\ stager.pc = "write" /\ staged' = staged /\ assets' = stager.rows /\ signed' = signed
      /\ stager' = [stager EXCEPT !.pc = "done"]
  BY DEF StageWrite, OthersThanStager
<1>2. /\ DOMAIN stager' = StageFields /\ stager'.pc = "done" /\ stager'.at = stager.at
      /\ stager'.todo = stager.todo /\ stager'.rows = stager.rows
  BY <1>1 DEF StageInv, StageOK, StageFields
<1>3. StageOK' /\ Named'
  BY <1>1, <1>2 DEF StageInv, StageOK, Named, StagePcs
<1>4. StageListed'
  BY <1>1, <1>2 DEF StageInv, StageListed, FilesOf
<1>5. Dumped' /\ Compared'
  BY <1>1, <1>2 DEF StageInv, Dumped, Compared, OneContent, FilesOf
<1> QED
  BY <1>3, <1>4, <1>5 DEF StageInv

LEMMA StageKeeps ==
  ASSUME SignInv, StageInv, [RNext]_rvars
  PROVE  StageInv'
<1>1. Stays
  BY SignInvKept
<1>2. SNext \/ UNCHANGED svars
  BY DEF RNext, rvars
<1>3. CASE UNCHANGED <<stager, staged, assets>>
  BY <1>1, <1>3, StagingWaits
<1>4. CASE StageStep
  BY <1>4, StageLists, StageDumps, StageHashes, StageCopies, StageChecks, StageWrites
     DEF StageStep
<1>5. ASSUME NEW p \in PackageNames, Recandidate(p)
      PROVE  UNCHANGED <<stager, staged, assets>>
  BY <1>5 DEF Recandidate
<1>6. ASSUME NEW s \in Signers, SignStep(s)
      PROVE  UNCHANGED <<stager, staged, assets>>
  BY <1>6 DEF SignStep, SignBegin, SignCopy, SignOne, Normalize, CompareContent, RecordRow,
              WriteRecord, SignerKilled, OthersThanSigner
<1> QED
  BY <1>2, <1>3, <1>4, <1>5, <1>6 DEF SNext, svars

(* A staged package is what its name and its row tell, even when staging     *)
(* overtakes signing, for any number of packages.                            *)
THEOREM StagedPackagesAreNamedRight == RSpec => []StagedIsWhatItIsCalled
<1>1. RInit => SignInv /\ StageInv
  BY SigningStarts, StagingStarts DEF RInit
<1>2. SignInv /\ StageInv /\ [RNext]_rvars => SignInv' /\ StageInv'
  BY SignInvKept, StageKeeps
<1>3. StageInv => StagedIsWhatItIsCalled
  <2> SUFFICES ASSUME StageInv, NEW p \in PackageNames, assets[p] # NoAsset
               PROVE  staged[p] = assets[p].sha /\ staged[p].build = assets[p].version
    BY DEF StagedIsWhatItIsCalled
  <2>1. stager.pc = "done" /\ assets = stager.rows
    BY DEF StageInv, Named
  <2>2. p \in stager.todo
    BY <2>1 DEF StageInv, StageListed
  <2>3. PICK m \in DOMAIN Packages : p = Packages[m]
    BY PackagesAre
  <2>4. m \in FilesOf(stager.todo)
    BY <2>2, <2>3 DEF FilesOf
  <2> QED
    BY <2>1, <2>3, <2>4 DEF StageInv, Dumped, Compared, OneContent
<1> QED
  BY <1>1, <1>2, <1>3, PTL DEF RSpec


-----------------------------------------------------------------------------
(* The tools of the five-role line while nobody writes                       *)

Editions == [ed : Nat, native : Nat]
RawNames == {"core.json", "server.json", "capabilities.json", "core.bin", "server.bin",
             "core.apk", "server.apk", "index", "auth", "budget", "catalog"}
RawOK ==
  /\ DOMAIN raw = RawNames
  /\ \A f \in {"core.json", "server.json", "capabilities.json", "core.bin", "server.bin"} :
       raw[f] \in Nat
  /\ raw["core.apk"] \in Editions /\ raw["server.apk"] \in Editions
  /\ raw["index"] \in [PartNames -> Editions]
  /\ raw["auth"] \in [apk : [PartNames -> Editions], index : [PartNames -> Editions]]

(* Where the tools come past, and how far they count there.                  *)
Docs     == {"hash", "parse"}
Dumping == {"dump", "sha"}
Payloads == {"extract", "payload", "receipt"}
Indexed  == Payloads \cup {"fetch", "again", "volatile", "write"}
Digested == Indexed \cup {"index"}
Covered  == Digested \cup {"schema", "digest"}
Measured == Covered \cup {"auth"}
PlaceOK ==
  /\ tool.dev \in BOOLEAN
  /\ \/ tool.pc = "idle"
     \/ tool.pc \in {"refused", "done"} /\ tool.run \in {"budget", "catalog", "assemble"}
     \/ tool.run = "budget" /\ tool.pc \in (Dumping \cup Measured \cup {"parse"}) \ {"again"}
     \/ tool.run = "catalog" /\ tool.pc \in Docs \cup {"budget"} \cup Dumping \cup Covered
     \/ tool.run = "assemble" /\ tool.pc \in {"select", "copy", "verify"}
  /\ tool.at \in 1..10
  /\ tool.pc \in Docs \cup {"digest", "again"} => tool.at <= 3
  /\ tool.pc \in Dumping \cup Payloads \cup {"fetch", "volatile"} => tool.at <= 2
  /\ tool.pc = "parse" /\ tool.run = "budget" => tool.at <= 2
  /\ tool.pc \in {"budget", "auth", "schema", "index", "write", "select"} => tool.at = 1
HandsOK ==
  /\ tool.hash \in [{"core", "server", "caps"} -> Nat]
  /\ tool.parsed \in [{"core", "server", "caps"} -> Nat]
  /\ tool.dump \in [PartNames -> Editions \cup {Nothing}]
  /\ tool.sha \in [PartNames -> Editions \cup {Nothing}]
  /\ tool.volatile \in [PartNames -> Nat]
  /\ tool.receipt \in [PartNames -> [sha : Editions \cup {Nothing}, producer : Nat]]

(* A budget and a catalog of the files as they are.                          *)
Archives == Listed(raw)
Binaries == [p \in PartNames |-> raw[Bin[p]]]
Received == [p \in PartNames |-> [sha |-> raw[Apk[p]], producer |-> raw[Doc[p]]]]
TrueBudget(terms) ==
  [protocols |-> raw["core.json"], core |-> raw["core.json"],
   caps |-> raw["capabilities.json"], server |-> raw["server.json"],
   dump |-> Archives, sha |-> Archives, auth |-> raw["auth"],
   receipt |-> Received, volatile |-> Binaries,
   staging |-> Staging(Archives, Binaries), terms |-> terms]
BudgetTrue ==
  raw["budget"] # Nothing =>
    Coherent(raw) /\ \E terms \in Terms : raw["budget"] = TrueBudget(terms)

(* A catalog's row repeats what its budget says, and the budget was one the  *)
(* catalog takes.                                                            *)
RowOf(b) == [core |-> b.core, caps |-> b.caps, server |-> b.server, budget |-> b]
Vetted(c) ==
  /\ c.row = RowOf(c.row.budget)
  /\ c.row.budget.terms # "unsupported" /\ c.row.budget.terms # "malformed"
  /\ c.dev \/ c.row.budget.terms # "provisional"
CatalogRepeats ==
  /\ raw["catalog"] # Nothing => Vetted(raw["catalog"])
  /\ tool.run = "catalog" /\ tool.pc \in Dumping \cup Covered =>
       /\ tool.hash["core"] = tool.budget.core /\ tool.hash["caps"] = tool.budget.caps
       /\ tool.budget.terms # "unsupported"

(* What a tool has read is what is there.                                    *)
Catalogs == tool.run = "catalog"
DocsTrue ==
  /\ tool.pc \in Docs /\ tool.at >= 2 =>
       /\ tool.parsed["core"] = raw["core.json"]
       /\ Catalogs => tool.hash["core"] = raw["core.json"]
  /\ tool.pc \in Docs /\ tool.at = 3 => tool.hash["caps"] = raw["capabilities.json"]
  /\ tool.pc = "parse" /\ Catalogs => tool.hash[Documents[tool.at]] = raw[Doc[Documents[tool.at]]]
  /\ tool.pc \in {"budget"} \cup Dumping \cup Measured =>
       /\ tool.parsed["core"] = raw["core.json"]
       /\ Catalogs => /\ tool.hash["core"] = raw["core.json"]
                      /\ tool.hash["caps"] = raw["capabilities.json"]
                      /\ tool.hash["server"] = raw["server.json"]
                      /\ tool.parsed["server"] = raw["server.json"]
  /\ tool.pc = "payload" => tool.parsed[Part] = raw[Doc[Part]]
PackagesTrue ==
  /\ tool.pc \in Dumping /\ tool.at = 2 =>
       tool.dump["core"] = raw["core.apk"] /\ tool.sha["core"] = raw["core.apk"]
  /\ tool.pc = "sha" => tool.dump[Part] = raw[Apk[Part]]
  /\ tool.pc \in Measured =>
       \A p \in PartNames : tool.dump[p] = raw[Apk[p]] /\ tool.sha[p] = raw[Apk[p]]
BindingsTrue ==
  /\ tool.pc \in Covered \/ (Catalogs /\ tool.pc \in Dumping) => tool.auth = raw["auth"]
  /\ Catalogs /\ tool.pc \in Dumping \cup Covered =>
       tool.budget = raw["budget"] /\ raw["budget"] # Nothing
  /\ tool.pc \in Indexed => tool.index = raw["index"]
PayloadsTrue ==
  /\ tool.pc = "volatile" /\ tool.at = 2 => tool.volatile["core"] = raw["core.bin"]
  /\ tool.pc = "write" \/ (Catalogs /\ tool.pc \in Payloads) =>
       \A p \in PartNames : tool.volatile[p] = raw[Bin[p]]
  /\ tool.pc = "payload" => tool.payload = raw[Apk[Part]]
  /\ tool.pc \in Payloads /\ tool.at = 2 => tool.receipt["core"] = Received["core"]
  /\ tool.pc = "write" \/ (~Catalogs /\ tool.pc = "volatile") =>
       \A p \in PartNames : tool.receipt[p] = Received[p]
CopiesTrue ==
  tool.pc \in {"copy", "verify"} =>
    /\ raw["catalog"] # Nothing /\ raw["budget"] # Nothing
    /\ raw["catalog"].dev = tool.dev
    /\ tool.copy = [f \in RawNames |-> tool.copy[f]]
    /\ \A n \in 1..10 : tool.pc = "verify" \/ n < tool.at =>
         tool.copy[CopyOrder[n]] = raw[CopyOrder[n]]

(* What package-budget.py has found out by then.                             *)
Bound(p) == raw[Doc[p]] = raw[Apk[p]].native /\ raw[Bin[p]] = raw[Apk[p]].native
Digests(p) == raw[Apk[p]] = raw["auth"].apk[p]
Found ==
  tool.run = "budget" =>
    /\ tool.pc \in Dumping \cup Measured => Fact(raw["capabilities.json"]) = Fact(raw["core.json"])
    /\ tool.pc = "digest" => (tool.at >= 2 => Digests("core")) /\ (tool.at = 3 => Digests("server"))
    /\ tool.pc \in Digested =>
         raw["index"] = raw["auth"].index /\ \A p \in PartNames : Digests(p)
    /\ tool.pc \in Indexed => \A p \in PartNames : raw["index"][p] = raw["auth"].apk[p]
    /\ tool.pc = "receipt" => Bound(Part)
    /\ tool.pc \in Payloads /\ tool.at = 2 => Bound("core")
    /\ tool.pc \in {"volatile", "write"} => \A p \in PartNames : Bound(p)

Reason ==
  CASE tool.run = "budget" -> raw["budget"] # Nothing \/ ~Coherent(raw)
    [] tool.run = "catalog" ->
         raw["budget"] = Nothing \/ raw["catalog"] # Nothing
         \/ raw["budget"].terms = "unsupported" \/ ~Policy(raw["budget"], tool.dev)
    [] OTHER ->
         raw["catalog"] = Nothing \/ raw["budget"] = Nothing \/ published # Nothing
         \/ raw["catalog"].dev # tool.dev \/ raw["catalog"].row.budget # raw["budget"]
Alone ==
  ~touched =>
    /\ BudgetTrue /\ DocsTrue /\ PackagesTrue /\ BindingsTrue /\ PayloadsTrue
    /\ CopiesTrue /\ Found /\ (tool.pc = "refused" => Reason)

ReasonInv == FiveInv /\ RawOK /\ PlaceOK /\ HandsOK /\ CatalogRepeats /\ Alone

LEMMA PartsAre ==
  /\ Parts[1] = "core" /\ Parts[2] = "server" /\ Len(Parts) = 2
  /\ Documents[1] = "core" /\ Documents[2] = "caps" /\ Documents[3] = "server"
  /\ Len(Documents) = 3
  /\ Apk["core"] = "core.apk" /\ Apk["server"] = "server.apk"
  /\ Bin["core"] = "core.bin" /\ Bin["server"] = "server.bin"
  /\ Doc["core"] = "core.json" /\ Doc["server"] = "server.json"
  /\ Doc["caps"] = "capabilities.json"
  BY DEF Parts, Documents, Apk, Bin, Doc

(* The eleven files.                                                         *)
LEMMA BuildOrderIs ==
  /\ BuildOrder[1] = "core.json" /\ BuildOrder[2] = "core.bin"
  /\ BuildOrder[3] = "capabilities.json" /\ BuildOrder[4] = "core.apk"
  /\ BuildOrder[5] = "server.json" /\ BuildOrder[6] = "server.bin"
  /\ BuildOrder[7] = "server.apk" /\ BuildOrder[8] = "index" /\ BuildOrder[9] = "auth"
  /\ Len(BuildOrder) = 9 /\ DOMAIN BuildOrder = 1..9
  BY DEF BuildOrder

(* A step that goes on.                                                      *)
LEMMA StepGoes ==
  ASSUME NEW t, DOMAIN t = ToolFields, NEW names, NEW here, NEW after, NEW s,
         s = Step(t, names, here, after)
  PROVE  /\ \/ t.at < Len(names) /\ s.pc = here /\ s.at = t.at + 1
            \/ ~(t.at < Len(names)) /\ s.pc = after /\ s.at = 1
         /\ s.run = t.run /\ s.dev = t.dev /\ s.hash = t.hash /\ s.parsed = t.parsed
         /\ s.dump = t.dump /\ s.sha = t.sha /\ s.auth = t.auth /\ s.index = t.index
         /\ s.payload = t.payload /\ s.volatile = t.volatile /\ s.receipt = t.receipt
         /\ s.budget = t.budget /\ s.copy = t.copy
  BY DEF Step, ToolFields

(* Nothing the tool does not write changes.                                  *)
Keeps == UNCHANGED <<raw, told, touched, published>>
LEMMA KeepsFiles ==
  ASSUME FiveInv, RawOK, Keeps
  PROVE  /\ RawOK' /\ (BudgetTrue' <=> BudgetTrue) /\ Received' = Received
         /\ (Coherent(raw))' <=> Coherent(raw)
         /\ \A p \in PartNames : (Bound(p)' <=> Bound(p)) /\ (Digests(p)' <=> Digests(p))
         /\ \A x : Fact(x)' = Fact(x)
<1>1. raw' = raw /\ told' = told
  BY DEF Keeps
<1>2. RawOK'
  BY <1>1 DEF RawOK
<1>3. Received' = Received /\ Archives' = Archives /\ Binaries' = Binaries
  BY <1>1 DEF Received, Archives, Binaries, Listed
<1>4. \A x : Fact(x)' = Fact(x)
  BY <1>1 DEF Fact
<1>5. (Coherent(raw))' <=> Coherent(raw)
  BY <1>1 DEF Coherent, Fact, Listed
<1>6. Staging(Archives, Binaries)' = Staging(Archives, Binaries)
  BY <1>1, <1>3 DEF Staging, ApkRow, Fact, Sum
<1>7. BudgetTrue' <=> BudgetTrue
  BY <1>1, <1>3, <1>5, <1>6 DEF BudgetTrue, TrueBudget
<1>8. \A p \in PartNames : (Bound(p)' <=> Bound(p)) /\ (Digests(p)' <=> Digests(p))
  BY <1>1 DEF Bound, Digests
<1> QED BY <1>2, <1>3, <1>4, <1>5, <1>7, <1>8

(* A tool that holds nothing.                                                *)
LEMMA HandsIdle ==
  /\ Idle.hash \in [{"core", "server", "caps"} -> Nat]
  /\ Idle.parsed \in [{"core", "server", "caps"} -> Nat]
  /\ Idle.dump \in [PartNames -> Editions \cup {Nothing}]
  /\ Idle.sha \in [PartNames -> Editions \cup {Nothing}]
  /\ Idle.volatile \in [PartNames -> Nat]
  /\ Idle.receipt \in [PartNames -> [sha : Editions \cup {Nothing}, producer : Nat]]
<1>1. DOMAIN Doc = {"core", "server", "caps"}
  BY DEF Doc
<1> QED BY <1>1 DEF Idle, NoReceipt

(* Whoever refuses for a reason.                                             *)
LEMMA RefusesFor ==
  ASSUME ReasonInv, Refuse, tool.pc \notin {"idle", "done", "refused"}, touched \/ Reason
  PROVE  ReasonInv'
<1>1. /\ tool' = [Idle EXCEPT !.pc = "refused", !.run = tool.run, !.dev = tool.dev]
      /\ Keeps /\ FiveInv'
  BY Refused DEF Refuse, Ends, OthersThanTool, Keeps, ReasonInv
<1>2. /\ tool'.pc = "refused" /\ tool'.run = tool.run /\ tool'.dev = tool.dev /\ tool'.at = 1
      /\ tool'.hash = Idle.hash /\ tool'.parsed = Idle.parsed /\ tool'.dump = Idle.dump
      /\ tool'.sha = Idle.sha /\ tool'.volatile = Idle.volatile
      /\ tool'.receipt = Idle.receipt
  BY <1>1 DEF Idle
<1>3. RawOK' /\ (BudgetTrue' <=> BudgetTrue) /\ ((Coherent(raw))' <=> Coherent(raw))
  BY <1>1, KeepsFiles DEF ReasonInv
<1>4. PlaceOK'
  BY <1>2
  DEF ReasonInv, PlaceOK, Docs, Dumping, Payloads, Indexed, Digested, Covered, Measured
<1>5. HandsOK'
  BY <1>2, HandsIdle DEF HandsOK
<1>6. CatalogRepeats'
  BY <1>1, <1>2
  DEF ReasonInv, CatalogRepeats, Keeps, Vetted, RowOf, Dumping, Covered, Digested, Indexed, Payloads
<1>7. ~touched => Reason'
  BY <1>1, <1>2, <1>3 DEF Reason, Keeps, Policy
<1>8. Alone'
  BY <1>1, <1>2, <1>3, <1>7
  DEF ReasonInv, Alone, Keeps, DocsTrue, PackagesTrue, BindingsTrue, PayloadsTrue,
      CopiesTrue, Found,
      Docs, Dumping, Payloads, Indexed, Digested, Covered, Measured
<1> QED BY <1>1, <1>3, <1>4, <1>5, <1>6, <1>8 DEF ReasonInv

(* The part a tool is at.                                                    *)
LEMMA PartAt ==
  ASSUME PlaceOK
  PROVE  /\ tool.at = 1 => Part = "core"
         /\ tool.at = 2 => Part = "server"
         /\ tool.at <= 2 => tool.at \in {1, 2} /\ Part \in PartNames
         /\ tool.at <= 3 => tool.at \in {1, 2, 3}
  BY PartsAre DEF PlaceOK, Part, PartNames

(* A step that neither writes nor refuses.                                   *)
LEMMA GoesOnFor ==
  ASSUME ReasonInv, Keeps, FiveInv', PlaceOK', HandsOK',
         tool'.run = "catalog" /\ tool'.pc \in Dumping \cup Covered =>
           /\ tool'.hash["core"] = tool'.budget.core /\ tool'.hash["caps"] = tool'.budget.caps
           /\ tool'.budget.terms # "unsupported",
         ~touched => /\ DocsTrue' /\ PackagesTrue' /\ BindingsTrue' /\ PayloadsTrue'
                     /\ CopiesTrue' /\ Found',
         tool'.pc # "refused"
  PROVE  ReasonInv'
<1>1. RawOK' /\ (BudgetTrue' <=> BudgetTrue)
  BY KeepsFiles DEF ReasonInv
<1>2. CatalogRepeats'
  BY DEF ReasonInv, CatalogRepeats, Keeps, Vetted, RowOf
<1>3. Alone'
  BY <1>1 DEF ReasonInv, Alone, Keeps
<1> QED BY <1>1, <1>2, <1>3 DEF ReasonInv

(* The files a tool reads are of their types.                                *)
LEMMA PartFiles ==
  ASSUME RawOK
  PROVE  \A p \in PartNames :
           /\ raw[Apk[p]] \in Editions /\ raw[Bin[p]] \in Nat /\ raw[Doc[p]] \in Nat
           /\ Received[p] = [sha |-> raw[Apk[p]], producer |-> raw[Doc[p]]]
  BY PartsAre DEF RawOK, PartNames, Received

LEMMA DumpPackageReason ==
  ASSUME ReasonInv, DumpPackage
  PROVE  ReasonInv'
<1>1. /\ tool.pc = "dump" /\ Keeps /\ FiveInv' /\ DOMAIN tool = ToolFields
      /\ tool' = [tool EXCEPT !.pc = "sha", !.dump[Part] = raw[Apk[Part]]]
  BY PackageSteps DEF DumpPackage, To, OthersThanTool, Keeps, ReasonInv, FiveInv
<1>2. /\ tool'.pc = "sha" /\ tool'.at = tool.at
      /\ tool'.dump = [tool.dump EXCEPT ![Part] = raw[Apk[Part]]]
      /\ tool'.run = tool.run /\ tool'.dev = tool.dev /\ tool'.hash = tool.hash
      /\ tool'.parsed = tool.parsed /\ tool'.sha = tool.sha
      /\ tool'.auth = tool.auth /\ tool'.index = tool.index
      /\ tool'.payload = tool.payload /\ tool'.volatile = tool.volatile
      /\ tool'.receipt = tool.receipt /\ tool'.budget = tool.budget
      /\ tool'.copy = tool.copy
  BY <1>1 DEF ToolFields
<1>3. /\ Part' = Part /\ Part \in PartNames /\ tool.at \in {1, 2}
      /\ tool.at = 1 => Part = "core"
      /\ tool.at = 2 => Part = "server"
      /\ tool.run \in {"budget", "catalog"}
  BY <1>1, <1>2, PartAt
  DEF ReasonInv, PlaceOK, Part, Docs, Dumping, Payloads, Indexed, Digested,
      Covered, Measured
<1>4. PlaceOK'
  BY <1>1, <1>2, <1>3
  DEF ReasonInv, PlaceOK, Docs, Dumping, Payloads, Indexed, Digested, Covered, Measured
<1>5. HandsOK'
  BY <1>2, <1>3, PartFiles DEF ReasonInv, HandsOK
<1>6. \A p \in PartNames : p = Part => tool'.dump[p] = raw[Apk[p]]
  BY <1>2, <1>3 DEF ReasonInv, HandsOK
<1>7. tool.at = 2 => tool'.dump["core"] = tool.dump["core"]
  BY <1>2, <1>3 DEF ReasonInv, HandsOK
<1>8. ASSUME ~touched PROVE DocsTrue' /\ PackagesTrue' /\ BindingsTrue' /\ PayloadsTrue'
                           /\ CopiesTrue' /\ Found'
  <2> USE <1>1, <1>2, <1>3, <1>8 DEF ReasonInv, Alone, Keeps, Docs, Dumping, Payloads,
      Indexed, Digested, Covered, Measured
  <2>1. DocsTrue'
    BY DEF DocsTrue, Catalogs
  <2>2. PackagesTrue'
    BY <1>6, <1>7 DEF PackagesTrue
  <2>3. BindingsTrue'
    BY DEF BindingsTrue, Catalogs
  <2>4. PayloadsTrue' /\ CopiesTrue'
    BY DEF PayloadsTrue, CopiesTrue
  <2>5. Found'
    BY KeepsFiles DEF Found
  <2> QED BY <2>1, <2>2, <2>3, <2>4, <2>5
<1> QED BY <1>1, <1>2, <1>4, <1>5, <1>8, GoesOnFor DEF ReasonInv, CatalogRepeats, Docs,
    Dumping, Payloads, Indexed, Digested, Covered, Measured

(* What the files of one build are to one another, file by file.             *)
LEMMA CoherentIs ==
  ASSUME RawOK
  PROVE  Coherent(raw) <=>
           /\ Fact(raw["capabilities.json"]) = Fact(raw["core.json"])
           /\ raw["index"] = raw["auth"].index
           /\ \A p \in PartNames : /\ Bound(p) /\ Digests(p)
                                   /\ raw["index"][p] = raw["auth"].apk[p]
<1>1. Archives \in [PartNames -> Editions] /\ \A p \in PartNames : Archives[p] = raw[Apk[p]]
  BY PartFiles DEF Archives, Listed
<1>2. raw["index"] = Archives <=> \A p \in PartNames : raw["index"][p] = raw[Apk[p]]
  BY <1>1 DEF RawOK
<1>3. raw["auth"].apk = Archives <=> \A p \in PartNames : raw["auth"].apk[p] = raw[Apk[p]]
  BY <1>1 DEF RawOK
<1>4. raw["auth"] = [apk |-> Archives, index |-> raw["index"]] <=>
        raw["auth"].apk = Archives /\ raw["auth"].index = raw["index"]
  BY DEF RawOK
<1> HIDE DEF Archives
<1>5. Coherent(raw) <=>
        /\ Fact(raw["capabilities.json"]) = Fact(raw["core.json"])
        /\ \A p \in PartNames : Bound(p)
        /\ raw["index"] = Archives /\ raw["auth"] = [apk |-> Archives, index |-> raw["index"]]
  BY PartsAre DEF Coherent, Bound, Archives, PartNames
<1> QED BY <1>2, <1>3, <1>4, <1>5 DEF Digests

(* While nobody has written, a budget is of the files there are.             *)
LEMMA BudgetFacts ==
  ASSUME ReasonInv, ~touched, raw["budget"] # Nothing
  PROVE  /\ Coherent(raw)
         /\ Fact(raw["capabilities.json"]) = Fact(raw["core.json"])
         /\ raw["index"] = raw["auth"].index
         /\ \A p \in PartNames : /\ Bound(p) /\ Digests(p)
                                 /\ raw["index"][p] = raw["auth"].apk[p]
         /\ LET b == raw["budget"] IN
            /\ b.protocols = raw["core.json"] /\ b.core = raw["core.json"]
            /\ b.caps = raw["capabilities.json"] /\ b.server = raw["server.json"]
            /\ b.dump = Archives /\ b.sha = Archives /\ b.auth = raw["auth"]
            /\ b.receipt = Received /\ b.volatile = Binaries
            /\ b.staging = Staging(Archives, Binaries)
<1>1. Coherent(raw) /\ \E terms \in Terms : raw["budget"] = TrueBudget(terms)
  BY DEF ReasonInv, Alone, BudgetTrue
<1>2. PICK v \in Terms : raw["budget"] = TrueBudget(v)
  BY <1>1
<1>3. LET b == TrueBudget(v) IN
      /\ b.protocols = raw["core.json"] /\ b.core = raw["core.json"]
      /\ b.caps = raw["capabilities.json"] /\ b.server = raw["server.json"]
      /\ b.dump = Archives /\ b.sha = Archives /\ b.auth = raw["auth"]
      /\ b.receipt = Received /\ b.volatile = Binaries
      /\ b.staging = Staging(Archives, Binaries)
  BY DEF TrueBudget
<1> QED BY <1>1, <1>2, <1>3, CoherentIs DEF ReasonInv

LEMMA HashDocumentReason ==
  ASSUME ReasonInv, HashDocument
  PROVE  ReasonInv'
<1> DEFINE d == Documents[tool.at]
<1>1. /\ tool.pc = "hash" /\ Keeps /\ FiveInv' /\ DOMAIN tool = ToolFields
      /\ tool' = [tool EXCEPT !.pc = "parse", !.hash[d] = raw[Doc[d]]]
  BY DocumentSteps DEF HashDocument, To, OthersThanTool, Keeps, ReasonInv, FiveInv
<1>2. /\ tool'.pc = "parse" /\ tool'.at = tool.at
      /\ tool'.hash = [tool.hash EXCEPT ![d] = raw[Doc[d]]]
      /\ tool'.run = tool.run /\ tool'.dev = tool.dev /\ tool'.parsed = tool.parsed
      /\ tool'.dump = tool.dump /\ tool'.sha = tool.sha /\ tool'.auth = tool.auth
      /\ tool'.index = tool.index /\ tool'.payload = tool.payload
      /\ tool'.volatile = tool.volatile /\ tool'.receipt = tool.receipt
      /\ tool'.budget = tool.budget /\ tool'.copy = tool.copy
  BY <1>1 DEF ToolFields
<1>3. /\ tool.at \in {1, 2, 3} /\ tool.run = "catalog" /\ d \in {"core", "caps", "server"}
      /\ tool.at = 1 => d = "core"
      /\ tool.at = 2 => d = "caps"
      /\ tool.at = 3 => d = "server"
      /\ raw[Doc[d]] \in Nat
  BY <1>1, PartsAre
  DEF ReasonInv, PlaceOK, RawOK, Docs, Dumping, Payloads, Indexed, Digested, Covered,
      Measured
<1>4. PlaceOK'
  BY <1>1, <1>2, <1>3
  DEF ReasonInv, PlaceOK, Docs, Dumping, Payloads, Indexed, Digested, Covered, Measured
<1>5. HandsOK'
  BY <1>2, <1>3 DEF ReasonInv, HandsOK
<1>6. /\ tool'.hash[d] = raw[Doc[d]]
      /\ tool.at >= 2 => tool'.hash["core"] = tool.hash["core"]
      /\ tool.at = 3 => tool'.hash["caps"] = tool.hash["caps"]
  BY <1>2, <1>3 DEF ReasonInv, HandsOK
<1>7. ASSUME ~touched PROVE /\ DocsTrue' /\ PackagesTrue' /\ BindingsTrue' /\ PayloadsTrue'
                            /\ CopiesTrue' /\ Found'
  <2> USE <1>1, <1>2, <1>3, <1>7 DEF ReasonInv, Alone, Keeps, Docs, Dumping, Payloads,
      Indexed, Digested, Covered, Measured
  <2>1. DocsTrue'
    BY <1>6 DEF DocsTrue, Catalogs
  <2>2. PackagesTrue' /\ BindingsTrue' /\ PayloadsTrue' /\ CopiesTrue' /\ Found'
    BY DEF PackagesTrue, BindingsTrue, PayloadsTrue, CopiesTrue, Found
  <2> QED BY <2>1, <2>2
<1> QED BY <1>1, <1>2, <1>4, <1>5, <1>7, GoesOnFor DEF Docs, Dumping, Payloads, Indexed,
    Digested, Covered, Measured

LEMMA ParseDocumentReason ==
  ASSUME ReasonInv, ParseDocument
  PROVE  ReasonInv'
<1> DEFINE d == Documents[tool.at]
           next == [tool EXCEPT !.parsed[d] = raw[Doc[d]]]
           first == <<"core", "caps">>
<1>0. Len(first) = 2 /\ Len(Documents) = 3
  BY PartsAre
<1>1. /\ tool.pc = "parse" /\ FiveInv' /\ DOMAIN tool = ToolFields
      /\ tool.run \in {"budget", "catalog"}
  BY DocumentSteps
  DEF ParseDocument, ReasonInv, FiveInv, PlaceOK, Docs, Dumping, Payloads, Indexed,
      Digested, Covered, Measured
<1>2. /\ tool.at \in {1, 2, 3} /\ d \in {"core", "caps", "server"}
      /\ tool.at = 1 => d = "core"
      /\ tool.at = 2 => d = "caps"
      /\ tool.at = 3 => d = "server" /\ tool.run = "catalog"
      /\ raw[Doc[d]] \in Nat
  BY <1>1, PartsAre
  DEF ReasonInv, PlaceOK, RawOK, Docs, Dumping, Payloads, Indexed, Digested, Covered,
      Measured
<1>3. CASE d = "caps" /\ Fact(raw[Doc[d]]) # Fact(tool.parsed["core"])
  <2>1. Refuse
    BY <1>3 DEF ParseDocument
  <2>2. ~touched => Fact(raw["capabilities.json"]) # Fact(raw["core.json"])
    BY <1>1, <1>2, <1>3, PartsAre DEF ReasonInv, Alone, DocsTrue, Docs
  <2>3. ~touched => Reason
    BY <1>1, <2>2, BudgetFacts, CoherentIs DEF Reason, ReasonInv
  <2> QED BY <1>1, <2>1, <2>3, RefusesFor
<1>4. CASE ~(d = "caps" /\ Fact(raw[Doc[d]]) # Fact(tool.parsed["core"]))
  <2>1. /\ Keeps
        /\ tool' = IF tool.run = "budget" THEN Step(next, first, "parse", "dump")
                   ELSE Step(next, Documents, "hash", "budget")
    BY <1>4 DEF ParseDocument, To, OthersThanTool, Keeps
  <2>2. /\ DOMAIN next = ToolFields /\ next.at = tool.at
        /\ next.parsed = [tool.parsed EXCEPT ![d] = raw[Doc[d]]]
        /\ next.run = tool.run /\ next.dev = tool.dev /\ next.hash = tool.hash
        /\ next.dump = tool.dump /\ next.sha = tool.sha /\ next.auth = tool.auth
        /\ next.index = tool.index /\ next.payload = tool.payload
        /\ next.volatile = tool.volatile /\ next.receipt = tool.receipt
        /\ next.budget = tool.budget /\ next.copy = tool.copy
    BY <1>1 DEF ToolFields
  <2> HIDE DEF next, first
  <2>3. /\ tool'.parsed = [tool.parsed EXCEPT ![d] = raw[Doc[d]]]
        /\ tool'.run = tool.run /\ tool'.dev = tool.dev /\ tool'.hash = tool.hash
        /\ tool'.dump = tool.dump /\ tool'.sha = tool.sha /\ tool'.auth = tool.auth
        /\ tool'.index = tool.index /\ tool'.payload = tool.payload
        /\ tool'.volatile = tool.volatile /\ tool'.receipt = tool.receipt
        /\ tool'.budget = tool.budget /\ tool'.copy = tool.copy
        /\ tool.run = "budget" => \/ tool.at = 1 /\ tool'.pc = "parse" /\ tool'.at = 2
                                  \/ tool.at = 2 /\ tool'.pc = "dump" /\ tool'.at = 1
        /\ tool.run = "catalog" =>
             \/ tool.at < 3 /\ tool'.pc = "hash" /\ tool'.at = tool.at + 1
             \/ tool.at = 3 /\ tool'.pc = "budget" /\ tool'.at = 1
    <3>2. CASE tool.run = "budget"
      <4>1. tool.at \in {1, 2}
        BY <1>1, <1>2, <3>2 DEF ReasonInv, PlaceOK
      <4>2. tool' = Step(next, first, "parse", "dump")
        BY <2>1, <3>2
      <4>3. /\ \/ next.at < Len(first) /\ tool'.pc = "parse" /\ tool'.at = next.at + 1
               \/ ~(next.at < Len(first)) /\ tool'.pc = "dump" /\ tool'.at = 1
            /\ tool'.run = next.run /\ tool'.dev = next.dev /\ tool'.hash = next.hash
            /\ tool'.parsed = next.parsed /\ tool'.dump = next.dump /\ tool'.sha = next.sha
            /\ tool'.auth = next.auth /\ tool'.index = next.index
            /\ tool'.payload = next.payload /\ tool'.volatile = next.volatile
            /\ tool'.receipt = next.receipt /\ tool'.budget = next.budget
            /\ tool'.copy = next.copy
        BY <2>2, <4>2, StepGoes
      <4> QED BY <2>2, <1>0, <3>2, <4>1, <4>3
    <3>3. CASE tool.run = "catalog"
      <4>2. tool' = Step(next, Documents, "hash", "budget")
        BY <2>1, <3>3
      <4>3. /\ \/ next.at < Len(Documents) /\ tool'.pc = "hash" /\ tool'.at = next.at + 1
               \/ ~(next.at < Len(Documents)) /\ tool'.pc = "budget" /\ tool'.at = 1
            /\ tool'.run = next.run /\ tool'.dev = next.dev /\ tool'.hash = next.hash
            /\ tool'.parsed = next.parsed /\ tool'.dump = next.dump /\ tool'.sha = next.sha
            /\ tool'.auth = next.auth /\ tool'.index = next.index
            /\ tool'.payload = next.payload /\ tool'.volatile = next.volatile
            /\ tool'.receipt = next.receipt /\ tool'.budget = next.budget
            /\ tool'.copy = next.copy
        BY <2>2, <4>2, StepGoes
      <4> QED BY <1>2, <2>2, <1>0, <3>3, <4>3
    <3> QED BY <1>1, <3>2, <3>3
  <2>4. PlaceOK'
    BY <1>1, <1>2, <2>3
    DEF ReasonInv, PlaceOK, Docs, Dumping, Payloads, Indexed, Digested, Covered, Measured
  <2>5. HandsOK'
    BY <1>2, <2>3 DEF ReasonInv, HandsOK
  <2>6. /\ tool'.parsed[d] = raw[Doc[d]]
        /\ tool.at >= 2 => tool'.parsed["core"] = tool.parsed["core"]
    BY <1>2, <2>3 DEF ReasonInv, HandsOK
  <2>7. ASSUME ~touched PROVE /\ DocsTrue' /\ PackagesTrue' /\ BindingsTrue' /\ PayloadsTrue'
                              /\ CopiesTrue' /\ Found'
    <3>1. /\ tool'.parsed["core"] = raw["core.json"]
          /\ tool.at = 3 => tool'.parsed["server"] = raw["server.json"]
      BY <1>1, <1>2, <2>6, <2>7, PartsAre DEF ReasonInv, Alone, DocsTrue, Docs
    <3>2. tool.run = "catalog" =>
            /\ tool.hash["core"] = raw["core.json"]
            /\ tool.at >= 2 => tool.hash["caps"] = raw["capabilities.json"]
            /\ tool.at = 3 => tool.hash["server"] = raw["server.json"]
      BY <1>1, <1>2, <2>7, PartsAre DEF ReasonInv, Alone, DocsTrue, Catalogs, Docs
    <3>3. DocsTrue'
      BY <1>1, <1>2, <2>1, <2>3, <3>1, <3>2
      DEF Keeps, DocsTrue, Catalogs, Docs, Dumping, Payloads, Indexed, Digested, Covered,
          Measured
    <3>4. PackagesTrue' /\ BindingsTrue' /\ PayloadsTrue' /\ CopiesTrue'
      BY <1>1, <1>2, <2>3
      DEF PackagesTrue, BindingsTrue, PayloadsTrue, CopiesTrue, Catalogs, Docs, Dumping,
          Payloads, Indexed, Digested, Covered, Measured
    <3>5. tool.at = 2 => Fact(raw["capabilities.json"]) = Fact(raw["core.json"])
      BY <1>2, <1>4, <2>6, <3>1, PartsAre
    <3>6. Found'
      BY <1>1, <1>2, <2>1, <2>3, <3>5, KeepsFiles
      DEF Found, Keeps, ReasonInv, Docs, Dumping, Payloads, Indexed, Digested, Covered,
          Measured
    <3> QED BY <3>3, <3>4, <3>6
  <2> QED BY <1>1, <1>2, <2>1, <2>3, <2>4, <2>5, <2>7, GoesOnFor DEF Docs, Dumping,
      Payloads, Indexed, Digested, Covered, Measured
<1> QED BY <1>3, <1>4

LEMMA ReadBudgetReason ==
  ASSUME ReasonInv, ReadBudget
  PROVE  ReasonInv'
<1> DEFINE b == raw["budget"]
<1>1. /\ tool.pc = "budget" /\ FiveInv' /\ DOMAIN tool = ToolFields
      /\ tool.run = "catalog" /\ tool.at = 1
  BY DocumentSteps
  DEF ReadBudget, ReasonInv, FiveInv, PlaceOK, Docs, Dumping, Payloads, Indexed,
      Digested, Covered, Measured
<1>2. ~touched => /\ tool.hash["core"] = raw["core.json"] /\ tool.parsed["core"] = raw["core.json"]
                  /\ tool.hash["caps"] = raw["capabilities.json"]
                  /\ tool.hash["server"] = raw["server.json"]
                  /\ tool.parsed["server"] = raw["server.json"]
  BY <1>1 DEF ReasonInv, Alone, DocsTrue, Catalogs
<1>3. CASE ~BudgetBinds(b, tool.hash["core"], tool.hash["caps"], tool.parsed["core"])
  <2>1. Refuse
    BY <1>3 DEF ReadBudget
  <2>2. ~touched => b = Nothing \/ b.terms = "unsupported"
    BY <1>2, <1>3, BudgetFacts DEF BudgetBinds
  <2>3. ~touched => Reason
    BY <1>1, <2>2 DEF Reason
  <2> QED BY <1>1, <2>1, <2>3, RefusesFor
<1>4. CASE BudgetBinds(b, tool.hash["core"], tool.hash["caps"], tool.parsed["core"])
  <2>1. /\ Keeps /\ b # Nothing /\ b.terms # "unsupported"
        /\ b.core = tool.hash["core"] /\ b.caps = tool.hash["caps"]
        /\ tool' = [tool EXCEPT !.pc = "dump", !.budget = b, !.auth = b.auth]
    BY <1>4 DEF ReadBudget, To, OthersThanTool, Keeps, BudgetBinds
  <2>2. /\ tool'.pc = "dump" /\ tool'.at = tool.at /\ tool'.budget = b /\ tool'.auth = b.auth
        /\ tool'.run = tool.run /\ tool'.dev = tool.dev /\ tool'.hash = tool.hash
        /\ tool'.parsed = tool.parsed /\ tool'.dump = tool.dump
        /\ tool'.sha = tool.sha /\ tool'.index = tool.index
        /\ tool'.payload = tool.payload /\ tool'.volatile = tool.volatile
        /\ tool'.receipt = tool.receipt /\ tool'.copy = tool.copy
    BY <1>1, <2>1 DEF ToolFields
  <2>3. PlaceOK'
    BY <1>1, <2>2
    DEF ReasonInv, PlaceOK, Docs, Dumping, Payloads, Indexed, Digested, Covered, Measured
  <2>4. HandsOK'
    BY <2>2 DEF ReasonInv, HandsOK
  <2>5. ASSUME ~touched PROVE /\ DocsTrue' /\ PackagesTrue' /\ BindingsTrue' /\ PayloadsTrue'
                              /\ CopiesTrue' /\ Found'
    <3>1. b.auth = raw["auth"]
      BY <2>1, <2>5, BudgetFacts
    <3>2. DocsTrue'
      BY <1>1, <1>2, <2>1, <2>2, <2>5
      DEF Keeps, DocsTrue, Docs, Dumping, Payloads, Indexed, Digested, Covered, Measured
    <3>3. BindingsTrue'
      BY <1>1, <2>1, <2>2, <3>1
      DEF Keeps, BindingsTrue, Docs, Dumping, Payloads, Indexed, Digested, Covered, Measured
    <3>4. PackagesTrue' /\ PayloadsTrue' /\ CopiesTrue' /\ Found'
      BY <1>1, <2>2
      DEF PackagesTrue, PayloadsTrue, CopiesTrue, Found, Catalogs, Docs, Dumping,
          Payloads, Indexed, Digested, Covered, Measured
    <3> QED BY <3>2, <3>3, <3>4
  <2>6. /\ tool'.hash["core"] = tool'.budget.core /\ tool'.hash["caps"] = tool'.budget.caps
        /\ tool'.budget.terms # "unsupported" /\ tool'.pc # "refused"
    BY <2>1, <2>2
  <2> QED BY <2>1, <2>3, <2>4, <2>5, <2>6, <1>1, GoesOnFor
<1> QED BY <1>3, <1>4

LEMMA HashPackageReason ==
  ASSUME ReasonInv, HashPackage
  PROVE  ReasonInv'
<1> DEFINE next == [tool EXCEPT !.sha[Part] = raw[Apk[Part]]]
           after == IF tool.run = "budget" THEN "auth" ELSE "schema"
<1>1. /\ tool.pc = "sha" /\ FiveInv' /\ DOMAIN tool = ToolFields
      /\ tool.run \in {"budget", "catalog"}
  BY PackageSteps
  DEF HashPackage, ReasonInv, FiveInv, PlaceOK, Docs, Dumping, Payloads, Indexed,
      Digested, Covered, Measured
<1>2. /\ tool.at \in {1, 2} /\ Part \in PartNames
      /\ tool.at = 1 => Part = "core"
      /\ tool.at = 2 => Part = "server"
      /\ raw[Apk[Part]] \in Editions
  BY <1>1, PartAt, PartFiles
  DEF ReasonInv, PlaceOK, Docs, Dumping, Payloads, Indexed, Digested, Covered, Measured
<1>3. /\ DOMAIN next = ToolFields /\ next.at = tool.at
      /\ next.sha = [tool.sha EXCEPT ![Part] = raw[Apk[Part]]]
      /\ next.run = tool.run /\ next.dev = tool.dev /\ next.hash = tool.hash
      /\ next.parsed = tool.parsed /\ next.dump = tool.dump /\ next.auth = tool.auth
      /\ next.index = tool.index /\ next.payload = tool.payload
      /\ next.volatile = tool.volatile /\ next.receipt = tool.receipt
      /\ next.budget = tool.budget /\ next.copy = tool.copy
  BY <1>1 DEF ToolFields
<1>4. /\ next.sha[Part] = raw[Apk[Part]] /\ next.sha \in [PartNames -> Editions \cup {Nothing}]
      /\ tool.at = 2 => next.sha["core"] = tool.sha["core"]
  BY <1>2, <1>3 DEF ReasonInv, HandsOK
<1>5. ASSUME ~touched
      PROVE  /\ tool.at = 1 => next.dump["core"] = raw["core.apk"] /\ next.sha["core"] = raw["core.apk"]
             /\ tool.at = 2 => \A p \in PartNames : next.dump[p] = raw[Apk[p]] /\ next.sha[p] = raw[Apk[p]]
  BY <1>1, <1>2, <1>3, <1>4, <1>5, PartsAre
  DEF ReasonInv, Alone, PackagesTrue, Dumping, PartNames
<1> HIDE DEF next
<1>6. CASE tool.run # "budget" /\ tool.at = Len(Parts) /\ ~RowsAgree(tool.budget, next.dump, next.sha)
  <2>1. Refuse
    BY <1>6 DEF HashPackage, next
  <2>2. ASSUME ~touched PROVE FALSE
    <3>1. tool.budget = raw["budget"] /\ raw["budget"] # Nothing
      BY <1>1, <1>6, <2>2 DEF ReasonInv, Alone, BindingsTrue, Catalogs, Dumping
    <3>2. tool.budget.dump = Archives /\ tool.budget.sha = Archives
      BY <2>2, <3>1, BudgetFacts
    <3>3. \A p \in PartNames : Archives[p] = raw[Apk[p]]
      BY DEF Archives, Listed
    <3>4. \A p \in PartNames : next.dump[p] = raw[Apk[p]] /\ next.sha[p] = raw[Apk[p]]
      BY <1>2, <1>5, <1>6, <2>2, PartsAre
    <3> QED BY <1>6, <3>2, <3>3, <3>4 DEF RowsAgree
  <2> QED BY <1>1, <2>1, <2>2, RefusesFor
<1>7. CASE ~(tool.run # "budget" /\ tool.at = Len(Parts) /\ ~RowsAgree(tool.budget, next.dump, next.sha))
  <2>1. Keeps /\ tool' = Step(next, Parts, "dump", after)
    BY <1>7 DEF HashPackage, To, OthersThanTool, Keeps, next
  <2> HIDE DEF after
  <2>2. /\ \/ next.at < Len(Parts) /\ tool'.pc = "dump" /\ tool'.at = next.at + 1
           \/ ~(next.at < Len(Parts)) /\ tool'.pc = after /\ tool'.at = 1
        /\ tool'.run = next.run /\ tool'.dev = next.dev /\ tool'.hash = next.hash
        /\ tool'.parsed = next.parsed /\ tool'.dump = next.dump /\ tool'.sha = next.sha
        /\ tool'.auth = next.auth /\ tool'.index = next.index
        /\ tool'.payload = next.payload /\ tool'.volatile = next.volatile
        /\ tool'.receipt = next.receipt /\ tool'.budget = next.budget
        /\ tool'.copy = next.copy
    BY <1>3, <2>1, StepGoes
  <2>3. /\ tool.at = 1 => tool'.pc = "dump" /\ tool'.at = 2
        /\ tool.at = 2 => /\ tool'.at = 1
                          /\ \/ tool.run = "budget" /\ tool'.pc = "auth"
                             \/ tool.run = "catalog" /\ tool'.pc = "schema"
    BY <1>1, <1>2, <1>3, <2>2, PartsAre DEF after
  <2>4. /\ tool'.run = tool.run /\ tool'.dev = tool.dev /\ tool'.hash = tool.hash
        /\ tool'.parsed = tool.parsed /\ tool'.dump = tool.dump /\ tool'.auth = tool.auth
        /\ tool'.index = tool.index /\ tool'.payload = tool.payload
        /\ tool'.volatile = tool.volatile /\ tool'.receipt = tool.receipt
        /\ tool'.budget = tool.budget /\ tool'.copy = tool.copy
        /\ tool'.sha = next.sha
    BY <1>3, <2>2
  <2>5. PlaceOK'
    BY <1>1, <1>2, <2>3, <2>4
    DEF ReasonInv, PlaceOK, Docs, Dumping, Payloads, Indexed, Digested, Covered, Measured
  <2>6. HandsOK'
    BY <1>4, <2>4 DEF ReasonInv, HandsOK
  <2>7. ASSUME ~touched PROVE  /\ DocsTrue' /\ PackagesTrue' /\ BindingsTrue'
                               /\ PayloadsTrue' /\ CopiesTrue' /\ Found'
    <3>a. /\ raw' = raw /\ tool'.pc # "sha"
          /\ tool'.dump = next.dump /\ tool'.sha = next.sha
      BY <1>2, <1>3, <2>1, <2>3, <2>4 DEF Keeps
    <3>2. PackagesTrue'
      <4>1. CASE tool.at = 1
        <5>1. tool'.pc = "dump" /\ tool'.pc \notin Measured
          BY <2>3, <4>1 DEF Payloads, Indexed, Digested, Covered, Measured
        <5>2. tool'.dump["core"] = raw'["core.apk"] /\ tool'.sha["core"] = raw'["core.apk"]
          BY <1>5, <2>7, <3>a, <4>1
        <5> QED BY <5>1, <5>2 DEF PackagesTrue
      <4>2. CASE tool.at = 2
        <5>1. tool'.at = 1 /\ tool'.pc # "sha"
          BY <2>3, <3>a, <4>2
        <5>2. \A p \in PartNames : tool'.dump[p] = raw'[Apk[p]] /\ tool'.sha[p] = raw'[Apk[p]]
          BY <1>5, <2>7, <3>a, <4>2
        <5> QED BY <5>1, <5>2 DEF PackagesTrue
      <4> QED BY <1>2, <4>1, <4>2
    <3> USE <1>1, <1>2, <2>1, <2>3, <2>4, <2>7 DEF ReasonInv, Alone, Keeps, Docs,
        Dumping, Payloads, Indexed, Digested, Covered, Measured
    <3>1. DocsTrue'
      BY DEF DocsTrue, Catalogs
    <3>3. BindingsTrue'
      BY DEF BindingsTrue, Catalogs
    <3>4. PayloadsTrue' /\ CopiesTrue'
      BY DEF PayloadsTrue, CopiesTrue
    <3>5. Found'
      BY KeepsFiles DEF Found
    <3> QED BY <3>1, <3>2, <3>3, <3>4, <3>5
  <2>8. /\ tool'.pc # "refused"
        /\ tool'.run = "catalog" => tool.pc \in Dumping
    BY <1>1, <1>2, <2>3 DEF Dumping
  <2> QED BY <1>1, <2>1, <2>4, <2>5, <2>6, <2>7, <2>8, GoesOnFor DEF ReasonInv,
      CatalogRepeats
<1> QED BY <1>6, <1>7

LEMMA ReadAuthReason ==
  ASSUME ReasonInv, ReadAuth
  PROVE  ReasonInv'
<1>1. /\ tool.pc = "auth" /\ Keeps /\ FiveInv' /\ DOMAIN tool = ToolFields
      /\ tool' = [tool EXCEPT !.pc = "schema", !.auth = raw["auth"]]
      /\ tool.run = "budget" /\ tool.at = 1
  BY DocumentSteps
  DEF ReadAuth, To, OthersThanTool, Keeps, ReasonInv, FiveInv, PlaceOK, Docs, Dumping,
      Payloads, Indexed, Digested, Covered, Measured
<1>2. /\ tool'.pc = "schema" /\ tool'.at = tool.at /\ tool'.auth = raw["auth"]
      /\ tool'.run = tool.run /\ tool'.dev = tool.dev /\ tool'.hash = tool.hash
      /\ tool'.parsed = tool.parsed /\ tool'.dump = tool.dump /\ tool'.sha = tool.sha
      /\ tool'.index = tool.index /\ tool'.payload = tool.payload
      /\ tool'.volatile = tool.volatile /\ tool'.receipt = tool.receipt
      /\ tool'.budget = tool.budget /\ tool'.copy = tool.copy
  BY <1>1 DEF ToolFields
<1>3. PlaceOK'
  BY <1>1, <1>2
  DEF ReasonInv, PlaceOK, Docs, Dumping, Payloads, Indexed, Digested, Covered, Measured
<1>4. HandsOK'
  BY <1>2 DEF ReasonInv, HandsOK
<1>5. ASSUME ~touched PROVE  /\ DocsTrue' /\ PackagesTrue' /\ BindingsTrue'
                             /\ PayloadsTrue' /\ CopiesTrue' /\ Found'
  <2> USE <1>1, <1>2, <1>5 DEF ReasonInv, Alone, Keeps, Docs, Dumping, Payloads, Indexed,
      Digested, Covered, Measured
  <2>1. DocsTrue' /\ PackagesTrue'
    BY DEF DocsTrue, PackagesTrue, Catalogs
  <2>2. BindingsTrue' /\ PayloadsTrue' /\ CopiesTrue'
    BY DEF BindingsTrue, PayloadsTrue, CopiesTrue, Catalogs
  <2>3. Found'
    BY KeepsFiles DEF Found
  <2> QED BY <2>1, <2>2, <2>3
<1> QED BY <1>1, <1>2, <1>3, <1>4, <1>5, GoesOnFor

LEMMA CheckSchemaReason ==
  ASSUME ReasonInv, CheckSchema
  PROVE  ReasonInv'
<1>1. /\ tool.pc = "schema" /\ FiveInv' /\ DOMAIN tool = ToolFields
      /\ tool.run \in {"budget", "catalog"} /\ tool.at = 1
  BY PackageSteps
  DEF CheckSchema, ReasonInv, FiveInv, PlaceOK, Docs, Dumping, Payloads, Indexed,
      Digested, Covered, Measured
<1>2. ~touched => /\ tool.auth = raw["auth"]
                  /\ \A p \in PartNames : tool.dump[p] = raw[Apk[p]]
  BY <1>1
  DEF ReasonInv, Alone, BindingsTrue, PackagesTrue, Docs, Dumping, Payloads, Indexed,
      Digested, Covered, Measured
<1>3. CASE ~AuthCovers(tool.auth, tool.dump)
  <2>1. Refuse
    BY <1>3 DEF CheckSchema
  <2>2. ~touched => \E p \in PartNames : ~Digests(p)
    BY <1>2, <1>3 DEF AuthCovers, ApkRow, Digests
  <2>3. ~touched => ~Coherent(raw)
    BY <2>2, CoherentIs DEF ReasonInv
  <2>4. ~touched => tool.run = "budget"
    BY <1>1, <2>3, BudgetFacts
    DEF ReasonInv, Alone, BindingsTrue, Catalogs, Docs, Dumping, Payloads, Indexed,
        Digested, Covered, Measured
  <2>5. ~touched => Reason
    BY <2>3, <2>4 DEF Reason
  <2> QED BY <1>1, <2>1, <2>5, RefusesFor
<1>4. CASE AuthCovers(tool.auth, tool.dump)
  <2>1. Keeps /\ tool' = [tool EXCEPT !.pc = "digest"]
    BY <1>4 DEF CheckSchema, To, OthersThanTool, Keeps
  <2>2. /\ tool'.pc = "digest" /\ tool'.at = tool.at
        /\ tool'.run = tool.run /\ tool'.dev = tool.dev /\ tool'.hash = tool.hash
        /\ tool'.parsed = tool.parsed /\ tool'.dump = tool.dump /\ tool'.sha = tool.sha
        /\ tool'.auth = tool.auth /\ tool'.index = tool.index
        /\ tool'.payload = tool.payload /\ tool'.volatile = tool.volatile
        /\ tool'.receipt = tool.receipt /\ tool'.budget = tool.budget
        /\ tool'.copy = tool.copy
    BY <1>1, <2>1 DEF ToolFields
  <2>3. PlaceOK'
    BY <1>1, <2>2
    DEF ReasonInv, PlaceOK, Docs, Dumping, Payloads, Indexed, Digested, Covered, Measured
  <2>4. HandsOK'
    BY <2>2 DEF ReasonInv, HandsOK
  <2>5. ASSUME ~touched PROVE  /\ DocsTrue' /\ PackagesTrue' /\ BindingsTrue'
                               /\ PayloadsTrue' /\ CopiesTrue' /\ Found'
    <3> USE <1>1, <2>1, <2>2, <2>5 DEF ReasonInv, Alone, Keeps, Docs, Dumping, Payloads,
        Indexed, Digested, Covered, Measured
    <3>1. DocsTrue' /\ PackagesTrue'
      BY DEF DocsTrue, PackagesTrue, Catalogs
    <3>2. BindingsTrue' /\ PayloadsTrue' /\ CopiesTrue'
      BY DEF BindingsTrue, PayloadsTrue, CopiesTrue, Catalogs
    <3>3. Found'
      BY KeepsFiles DEF Found
    <3> QED BY <3>1, <3>2, <3>3
  <2>6. /\ tool'.pc # "refused" /\ tool.pc \in Covered
    BY <1>1, <2>2 DEF Docs, Dumping, Payloads, Indexed, Digested, Covered, Measured
  <2> QED BY <1>1, <2>1, <2>2, <2>3, <2>4, <2>5, <2>6, GoesOnFor DEF ReasonInv,
      CatalogRepeats
<1> QED BY <1>3, <1>4

LEMMA DigestAssetReason ==
  ASSUME ReasonInv, DigestAsset
  PROVE  ReasonInv'
<1> DEFINE files == <<"core", "server", "index">>
           f == files[tool.at]
           same == IF f = "index" THEN raw["index"] = tool.auth.index
                   ELSE raw[Apk[f]] = tool.auth.apk[f]
           after == IF tool.pc = "digest" THEN "index" ELSE "volatile"
<1>0. Len(files) = 3 /\ files[1] = "core" /\ files[2] = "server" /\ files[3] = "index"
  OBVIOUS
<1>1. /\ tool.pc \in {"digest", "again"} /\ FiveInv' /\ DOMAIN tool = ToolFields
      /\ tool.run \in {"budget", "catalog"}
      /\ tool.pc = "again" => tool.run = "catalog"
  BY PayloadSteps
  DEF DigestAsset, ReasonInv, FiveInv, PlaceOK, Docs, Dumping, Payloads, Indexed,
      Digested, Covered, Measured
<1>2. /\ tool.at \in {1, 2, 3}
      /\ tool.at = 1 => f = "core"
      /\ tool.at = 2 => f = "server"
      /\ tool.at = 3 => f = "index"
  BY <1>0, <1>1, PartAt DEF ReasonInv, PlaceOK, Docs
<1> HIDE DEF files
<1>3. ASSUME ~touched
      PROVE  /\ tool.auth = raw["auth"]
             /\ tool.run = "catalog" => Coherent(raw)
             /\ same <=> /\ tool.at = 1 => Digests("core")
                         /\ tool.at = 2 => Digests("server")
                         /\ tool.at = 3 => raw["index"] = raw["auth"].index
  <2>1. tool.auth = raw["auth"]
    BY <1>1, <1>3
    DEF ReasonInv, Alone, BindingsTrue, Docs, Dumping, Payloads, Indexed, Digested,
        Covered, Measured
  <2>2. tool.run = "catalog" => Coherent(raw)
    BY <1>1, <1>3, BudgetFacts
    DEF ReasonInv, Alone, BindingsTrue, Catalogs, Docs, Dumping, Payloads, Indexed,
        Digested, Covered, Measured
  <2> QED BY <1>2, <2>1, <2>2 DEF Digests
<1>4. CASE ~same
  <2>1. Refuse
    BY <1>4 DEF DigestAsset, files
  <2>2. ~touched => \/ ~Digests("core") \/ ~Digests("server") \/ raw["index"] # raw["auth"].index
    BY <1>2, <1>3, <1>4
  <2>3. "core" \in PartNames /\ "server" \in PartNames
    BY DEF PartNames
  <2>4. ~touched => ~Coherent(raw)
    <3>1. Coherent(raw) => \A p \in PartNames : Digests(p)
      BY CoherentIs DEF ReasonInv
    <3>2. Coherent(raw) => raw["index"] = raw["auth"].index
      BY CoherentIs DEF ReasonInv
    <3> QED BY <2>2, <2>3, <3>1, <3>2
  <2>5. ~touched => Reason
    BY <1>1, <1>3, <2>4 DEF Reason
  <2> QED BY <1>1, <2>1, <2>5, RefusesFor
<1>5. CASE same
  <2>1. Keeps /\ tool' = Step(tool, files, tool.pc, after)
    BY <1>5 DEF DigestAsset, To, OthersThanTool, Keeps, files
  <2> HIDE DEF after
  <2>2. /\ \/ tool.at < Len(files) /\ tool'.pc = tool.pc /\ tool'.at = tool.at + 1
           \/ ~(tool.at < Len(files)) /\ tool'.pc = after /\ tool'.at = 1
        /\ tool'.run = tool.run /\ tool'.dev = tool.dev /\ tool'.hash = tool.hash
        /\ tool'.parsed = tool.parsed /\ tool'.dump = tool.dump /\ tool'.sha = tool.sha
        /\ tool'.auth = tool.auth /\ tool'.index = tool.index
        /\ tool'.payload = tool.payload /\ tool'.volatile = tool.volatile
        /\ tool'.receipt = tool.receipt /\ tool'.budget = tool.budget
        /\ tool'.copy = tool.copy
    BY <1>1, <2>1, StepGoes
  <2>3. \/ tool.at \in {1, 2} /\ tool'.pc = tool.pc /\ tool'.at = tool.at + 1
        \/ /\ tool.at = 3 /\ tool'.at = 1
           /\ \/ tool.pc = "digest" /\ tool'.pc = "index"
              \/ tool.pc = "again" /\ tool'.pc = "volatile"
    BY <1>0, <1>1, <1>2, <2>2 DEF after
  <2>4. PlaceOK'
    BY <1>1, <1>2, <2>2, <2>3
    DEF ReasonInv, PlaceOK, Docs, Dumping, Payloads, Indexed, Digested, Covered, Measured
  <2>5. HandsOK'
    BY <2>2 DEF ReasonInv, HandsOK
  <2>6. ASSUME ~touched PROVE  /\ DocsTrue' /\ PackagesTrue' /\ BindingsTrue'
                               /\ PayloadsTrue' /\ CopiesTrue' /\ Found'
    <3>a. DocsTrue'
      BY <1>1, <1>2, <2>1, <2>2, <2>3, <2>6
      DEF ReasonInv, Alone, Keeps, DocsTrue, Catalogs, Docs, Dumping, Payloads, Indexed,
          Digested, Covered, Measured
    <3>b. PackagesTrue'
      BY <1>1, <1>2, <2>1, <2>2, <2>3, <2>6
      DEF ReasonInv, Alone, Keeps, PackagesTrue, Dumping, Payloads, Indexed, Digested,
          Covered, Measured
    <3>1. DocsTrue' /\ PackagesTrue'
      BY <3>a, <3>b
    <3>2. BindingsTrue'
      BY <1>1, <1>2, <2>1, <2>2, <2>3, <2>6
      DEF ReasonInv, Alone, Keeps, BindingsTrue, Catalogs, Docs, Dumping, Payloads,
          Indexed, Digested, Covered, Measured
    <3>3. PayloadsTrue'
      BY <1>1, <1>2, <2>2, <2>3
      DEF PayloadsTrue, Catalogs, Docs, Dumping, Payloads, Indexed, Digested, Covered,
          Measured
    <3>4. CopiesTrue'
      BY <1>1, <1>2, <2>2, <2>3 DEF CopiesTrue
    <3>5. /\ tool.at = 1 => Digests("core")
          /\ tool.at = 2 => Digests("server")
          /\ tool.at = 3 => raw["index"] = raw["auth"].index
      BY <1>3, <1>5, <2>6
    <3>6. ASSUME tool.run = "budget" PROVE Found'
      <4>1. tool.pc = "digest"
        BY <1>1, <3>6
      <4>2. /\ Fact(raw["capabilities.json"]) = Fact(raw["core.json"])
            /\ tool.at >= 2 => Digests("core")
            /\ tool.at = 3 => Digests("server")
        BY <2>6, <3>6, <4>1
        DEF ReasonInv, Alone, Found, Docs, Dumping, Payloads, Indexed, Digested, Covered,
            Measured
      <4>3. tool.at = 3 => \A p \in PartNames : Digests(p)
        BY <1>2, <4>2 DEF PartNames
      <4>4. /\ tool'.at >= 2 /\ tool'.pc = "digest" => Digests("core")
            /\ tool'.at = 3 /\ tool'.pc = "digest" => Digests("server")
        BY <1>2, <2>3, <3>5, <4>1, <4>2
      <4>5. /\ Digests("core")' <=> Digests("core")
            /\ Digests("server")' <=> Digests("server")
            /\ \A p \in PartNames : Digests(p)' <=> Digests(p)
        BY <2>1, KeepsFiles DEF ReasonInv, PartNames
      <4>6. tool'.pc \in {"digest", "index"} /\ (tool'.pc = "index" => tool.at = 3)
        BY <1>2, <2>3, <4>1
      <4>7. raw' = raw /\ told' = told
        BY <2>1 DEF Keeps
      <4>8. Fact(raw["capabilities.json"])' = Fact(raw["core.json"])'
        BY <4>2, <4>7 DEF Fact
      <4> QED BY <3>5, <4>2, <4>3, <4>4, <4>5, <4>6, <4>7, <4>8 DEF Found, Docs, Dumping,
          Payloads, Indexed, Digested, Covered, Measured
    <3>7. ASSUME tool.run # "budget" PROVE Found'
      BY <2>2, <3>7 DEF Found
    <3> QED BY <3>1, <3>2, <3>3, <3>4, <3>6, <3>7
  <2>7. tool'.pc # "refused" /\ tool.pc \in Covered
    BY <1>1, <2>3 DEF Docs, Dumping, Payloads, Indexed, Digested, Covered, Measured
  <2> QED BY <1>1, <2>1, <2>2, <2>4, <2>5, <2>6, <2>7, GoesOnFor DEF ReasonInv,
      CatalogRepeats
<1> QED BY <1>4, <1>5

LEMMA DumpIndexReason ==
  ASSUME ReasonInv, DumpIndex
  PROVE  ReasonInv'
<1>1. /\ tool.pc = "index" /\ FiveInv' /\ DOMAIN tool = ToolFields
      /\ tool.run \in {"budget", "catalog"} /\ tool.at = 1
  BY PackageSteps
  DEF DumpIndex, ReasonInv, FiveInv, PlaceOK, Docs, Dumping, Payloads, Indexed, Digested,
      Covered, Measured
<1>2. ASSUME ~touched
      PROVE  /\ tool.auth = raw["auth"] /\ \A p \in PartNames : tool.dump[p] = raw[Apk[p]]
             /\ tool.run = "catalog" => Coherent(raw)
             /\ \A p \in PartNames : Digests(p)
             /\ tool.run = "budget" => /\ raw["index"] = raw["auth"].index
                                       /\ Fact(raw["capabilities.json"]) = Fact(raw["core.json"])
  <2>1. tool.auth = raw["auth"] /\ \A p \in PartNames : tool.dump[p] = raw[Apk[p]]
    BY <1>1, <1>2
    DEF ReasonInv, Alone, BindingsTrue, PackagesTrue, Docs, Dumping, Payloads, Indexed,
        Digested, Covered, Measured
  <2>2. tool.run = "catalog" => Coherent(raw) /\ \A p \in PartNames : Digests(p)
    BY <1>1, <1>2, BudgetFacts
    DEF ReasonInv, Alone, BindingsTrue, Catalogs, Docs, Dumping, Payloads, Indexed,
        Digested, Covered, Measured
  <2>3. tool.run = "budget" => /\ \A p \in PartNames : Digests(p)
                               /\ raw["index"] = raw["auth"].index
                               /\ Fact(raw["capabilities.json"]) = Fact(raw["core.json"])
    BY <1>1, <1>2
    DEF ReasonInv, Alone, Found, Docs, Dumping, Payloads, Indexed, Digested, Covered,
        Measured
  <2> QED BY <1>1, <2>1, <2>2, <2>3
<1>3. CASE ~IndexBinds(raw["index"], tool.auth, tool.dump)
  <2>1. Refuse
    BY <1>3 DEF DumpIndex
  <2>2. ~touched => \E p \in PartNames : raw["index"][p] # raw["auth"].apk[p]
    BY <1>2, <1>3 DEF IndexBinds, ApkRow, Digests
  <2>3. ~touched => ~Coherent(raw)
    BY <2>2, CoherentIs DEF ReasonInv
  <2>4. ~touched => Reason
    BY <1>1, <1>2, <2>3 DEF Reason
  <2> QED BY <1>1, <2>1, <2>4, RefusesFor
<1>4. CASE IndexBinds(raw["index"], tool.auth, tool.dump)
  <2>1. Keeps /\ tool' = [tool EXCEPT !.pc = "fetch", !.index = raw["index"]]
    BY <1>4 DEF DumpIndex, To, OthersThanTool, Keeps
  <2>2. /\ tool'.pc = "fetch" /\ tool'.at = tool.at /\ tool'.index = raw["index"]
        /\ tool'.run = tool.run /\ tool'.dev = tool.dev /\ tool'.hash = tool.hash
        /\ tool'.parsed = tool.parsed /\ tool'.dump = tool.dump /\ tool'.sha = tool.sha
        /\ tool'.auth = tool.auth /\ tool'.payload = tool.payload
        /\ tool'.volatile = tool.volatile /\ tool'.receipt = tool.receipt
        /\ tool'.budget = tool.budget /\ tool'.copy = tool.copy
    BY <1>1, <2>1 DEF ToolFields
  <2>3. PlaceOK'
    BY <1>1, <2>2
    DEF ReasonInv, PlaceOK, Docs, Dumping, Payloads, Indexed, Digested, Covered, Measured
  <2>4. HandsOK'
    BY <2>2 DEF ReasonInv, HandsOK
  <2>5. ASSUME ~touched PROVE  /\ DocsTrue' /\ PackagesTrue' /\ BindingsTrue'
                               /\ PayloadsTrue' /\ CopiesTrue' /\ Found'
    <3> USE <1>1, <2>1, <2>2, <2>5 DEF ReasonInv, Alone, Keeps, Docs, Dumping, Payloads,
        Indexed, Digested, Covered, Measured
    <3>1. DocsTrue' /\ PackagesTrue'
      BY DEF DocsTrue, PackagesTrue, Catalogs
    <3>2. BindingsTrue' /\ PayloadsTrue' /\ CopiesTrue'
      BY DEF BindingsTrue, PayloadsTrue, CopiesTrue, Catalogs
    <3>3. \A p \in PartNames : raw["index"][p] = raw["auth"].apk[p]
      BY <1>2, <1>4 DEF IndexBinds
    <3>4. Found'
      BY <1>2, <3>3, KeepsFiles DEF Found
    <3> QED BY <3>1, <3>2, <3>4
  <2>6. /\ tool'.pc # "refused" /\ tool.pc \in Covered
    BY <1>1, <2>2 DEF Docs, Dumping, Payloads, Indexed, Digested, Covered, Measured
  <2> QED BY <1>1, <2>1, <2>2, <2>3, <2>4, <2>5, <2>6, GoesOnFor DEF ReasonInv,
      CatalogRepeats
<1> QED BY <1>3, <1>4

LEMMA FetchPackageReason ==
  ASSUME ReasonInv, FetchPackage
  PROVE  ReasonInv'
<1> DEFINE same == raw[Apk[Part]] = tool.index[Part] /\ raw[Apk[Part]] = tool.sha[Part]
           after == IF tool.run = "budget" THEN "extract" ELSE "again"
<1>1. /\ tool.pc = "fetch" /\ FiveInv' /\ DOMAIN tool = ToolFields
      /\ tool.run \in {"budget", "catalog"}
  BY PackageSteps
  DEF FetchPackage, ReasonInv, FiveInv, PlaceOK, Docs, Dumping, Payloads, Indexed,
      Digested, Covered, Measured
<1>2. /\ tool.at \in {1, 2} /\ Part \in PartNames
      /\ tool.at = 1 => Part = "core"
      /\ tool.at = 2 => Part = "server"
  BY <1>1, PartAt
  DEF ReasonInv, PlaceOK, Docs, Dumping, Payloads, Indexed, Digested, Covered, Measured
<1>3. CASE ~same
  <2>1. Refuse
    BY <1>3 DEF FetchPackage
  <2>2. ASSUME ~touched PROVE FALSE
    <3>1. tool.index = raw["index"] /\ tool.sha[Part] = raw[Apk[Part]]
      BY <1>1, <1>2, <2>2
      DEF ReasonInv, Alone, BindingsTrue, PackagesTrue, Docs, Dumping, Payloads, Indexed,
          Digested, Covered, Measured
    <3>2. tool.run = "catalog" => Digests(Part) /\ raw["index"][Part] = raw["auth"].apk[Part]
      BY <1>1, <1>2, <2>2, BudgetFacts
      DEF ReasonInv, Alone, BindingsTrue, Catalogs, Docs, Dumping, Payloads, Indexed,
          Digested, Covered, Measured
    <3>3. tool.run = "budget" => Digests(Part) /\ raw["index"][Part] = raw["auth"].apk[Part]
      BY <1>1, <1>2, <2>2
      DEF ReasonInv, Alone, Found, Docs, Dumping, Payloads, Indexed, Digested, Covered,
          Measured
    <3> QED BY <1>1, <1>3, <3>1, <3>2, <3>3 DEF Digests
  <2> QED BY <1>1, <2>1, <2>2, RefusesFor
<1>4. CASE same
  <2>1. Keeps /\ tool' = Step(tool, Parts, "fetch", after)
    BY <1>4 DEF FetchPackage, To, OthersThanTool, Keeps
  <2> HIDE DEF after
  <2>2. /\ \/ tool.at < Len(Parts) /\ tool'.pc = "fetch" /\ tool'.at = tool.at + 1
           \/ ~(tool.at < Len(Parts)) /\ tool'.pc = after /\ tool'.at = 1
        /\ tool'.run = tool.run /\ tool'.dev = tool.dev /\ tool'.hash = tool.hash
        /\ tool'.parsed = tool.parsed /\ tool'.dump = tool.dump /\ tool'.sha = tool.sha
        /\ tool'.auth = tool.auth /\ tool'.index = tool.index
        /\ tool'.payload = tool.payload /\ tool'.volatile = tool.volatile
        /\ tool'.receipt = tool.receipt /\ tool'.budget = tool.budget
        /\ tool'.copy = tool.copy
    BY <1>1, <2>1, StepGoes
  <2>3. \/ tool.at = 1 /\ tool'.pc = "fetch" /\ tool'.at = 2
        \/ /\ tool.at = 2 /\ tool'.at = 1
           /\ \/ tool.run = "budget" /\ tool'.pc = "extract"
              \/ tool.run = "catalog" /\ tool'.pc = "again"
    BY <1>1, <1>2, <2>2, PartsAre DEF after
  <2>4. PlaceOK'
    BY <1>1, <1>2, <2>2, <2>3
    DEF ReasonInv, PlaceOK, Docs, Dumping, Payloads, Indexed, Digested, Covered, Measured
  <2>5. HandsOK'
    BY <2>2 DEF ReasonInv, HandsOK
  <2>6. ASSUME ~touched PROVE  /\ DocsTrue' /\ PackagesTrue' /\ BindingsTrue'
                               /\ PayloadsTrue' /\ CopiesTrue' /\ Found'
    <3> USE <1>1, <1>2, <2>1, <2>2, <2>3, <2>6 DEF ReasonInv, Alone, Keeps, Docs,
        Dumping, Payloads, Indexed, Digested, Covered, Measured
    <3>1. DocsTrue' /\ PackagesTrue'
      BY DEF DocsTrue, PackagesTrue, Catalogs
    <3>2. BindingsTrue' /\ PayloadsTrue' /\ CopiesTrue'
      BY DEF BindingsTrue, PayloadsTrue, CopiesTrue, Catalogs
    <3>3. Found'
      BY KeepsFiles DEF Found
    <3> QED BY <3>1, <3>2, <3>3
  <2>7. tool'.pc # "refused" /\ tool.pc \in Covered
    BY <1>1, <2>3 DEF Docs, Dumping, Payloads, Indexed, Digested, Covered, Measured
  <2> QED BY <1>1, <2>1, <2>2, <2>4, <2>5, <2>6, <2>7, GoesOnFor DEF ReasonInv,
      CatalogRepeats
<1> QED BY <1>3, <1>4

LEMMA CheckVolatileReason ==
  ASSUME ReasonInv, CheckVolatile
  PROVE  ReasonInv'
<1> DEFINE next == [tool EXCEPT !.volatile[Part] = raw[Bin[Part]]]
           good == /\ raw[Bin[Part]] = tool.parsed[Part]
                   /\ raw[Bin[Part]] = tool.budget.volatile[Part]
                   /\ Part = "server" => tool.budget.server = tool.hash["server"]
           after == IF tool.run = "budget" THEN "write" ELSE "extract"
<1>1. /\ tool.pc = "volatile" /\ FiveInv' /\ DOMAIN tool = ToolFields
      /\ tool.run \in {"budget", "catalog"}
  BY PayloadSteps
  DEF CheckVolatile, ReasonInv, FiveInv, PlaceOK, Docs, Dumping, Payloads, Indexed,
      Digested, Covered, Measured
<1>2. /\ tool.at \in {1, 2} /\ Part \in PartNames
      /\ tool.at = 1 => Part = "core"
      /\ tool.at = 2 => Part = "server"
      /\ raw[Bin[Part]] \in Nat
  BY <1>1, PartAt, PartFiles
  DEF ReasonInv, PlaceOK, Docs, Dumping, Payloads, Indexed, Digested, Covered, Measured
<1>3. CASE tool.run # "budget" /\ ~good
  <2>1. Refuse
    BY <1>3 DEF CheckVolatile
  <2>2. ASSUME ~touched PROVE FALSE
    <3>1. tool.budget = raw["budget"] /\ raw["budget"] # Nothing
      BY <1>1, <1>3, <2>2
      DEF ReasonInv, Alone, BindingsTrue, Catalogs, Docs, Dumping, Payloads, Indexed,
          Digested, Covered, Measured
    <3>2. /\ tool.budget.volatile = Binaries /\ tool.budget.server = raw["server.json"]
          /\ Bound(Part)
      BY <1>2, <2>2, <3>1, BudgetFacts
    <3>3. /\ tool.parsed["core"] = raw["core.json"] /\ tool.parsed["server"] = raw["server.json"]
          /\ tool.hash["server"] = raw["server.json"]
      BY <1>1, <1>3, <2>2
      DEF ReasonInv, Alone, DocsTrue, Catalogs, Docs, Dumping, Payloads, Indexed,
          Digested, Covered, Measured
    <3>4. tool.parsed[Part] = raw[Doc[Part]]
      BY <1>2, <3>3, PartsAre
    <3>5. Binaries[Part] = raw[Bin[Part]]
      BY <1>2 DEF Binaries
    <3> QED BY <1>3, <3>2, <3>3, <3>4, <3>5 DEF Bound
  <2> QED BY <1>1, <2>1, <2>2, RefusesFor
<1>4. CASE ~(tool.run # "budget" /\ ~good)
  <2>1. Keeps /\ tool' = Step(next, Parts, "volatile", after)
    BY <1>4 DEF CheckVolatile, To, OthersThanTool, Keeps
  <2>2. /\ DOMAIN next = ToolFields /\ next.at = tool.at
        /\ next.volatile = [tool.volatile EXCEPT ![Part] = raw[Bin[Part]]]
        /\ next.run = tool.run /\ next.dev = tool.dev /\ next.hash = tool.hash
        /\ next.parsed = tool.parsed /\ next.dump = tool.dump /\ next.sha = tool.sha
        /\ next.auth = tool.auth /\ next.index = tool.index
        /\ next.payload = tool.payload /\ next.receipt = tool.receipt
        /\ next.budget = tool.budget /\ next.copy = tool.copy
    BY <1>1 DEF ToolFields
  <2> HIDE DEF next, after, good
  <2>3. /\ \/ next.at < Len(Parts) /\ tool'.pc = "volatile" /\ tool'.at = next.at + 1
           \/ ~(next.at < Len(Parts)) /\ tool'.pc = after /\ tool'.at = 1
        /\ tool'.run = next.run /\ tool'.dev = next.dev /\ tool'.hash = next.hash
        /\ tool'.parsed = next.parsed /\ tool'.dump = next.dump /\ tool'.sha = next.sha
        /\ tool'.auth = next.auth /\ tool'.index = next.index
        /\ tool'.payload = next.payload /\ tool'.volatile = next.volatile
        /\ tool'.receipt = next.receipt /\ tool'.budget = next.budget
        /\ tool'.copy = next.copy
    BY <2>1, <2>2, StepGoes
  <2>4. \/ tool.at = 1 /\ tool'.pc = "volatile" /\ tool'.at = 2
        \/ /\ tool.at = 2 /\ tool'.at = 1
           /\ \/ tool.run = "budget" /\ tool'.pc = "write"
              \/ tool.run = "catalog" /\ tool'.pc = "extract"
    BY <1>1, <1>2, <2>2, <2>3, PartsAre DEF after
  <2>5. /\ tool'.run = tool.run /\ tool'.dev = tool.dev /\ tool'.hash = tool.hash
        /\ tool'.parsed = tool.parsed /\ tool'.dump = tool.dump /\ tool'.sha = tool.sha
        /\ tool'.auth = tool.auth /\ tool'.index = tool.index
        /\ tool'.payload = tool.payload /\ tool'.receipt = tool.receipt
        /\ tool'.budget = tool.budget /\ tool'.copy = tool.copy
        /\ tool'.volatile = [tool.volatile EXCEPT ![Part] = raw[Bin[Part]]]
    BY <2>2, <2>3
  <2>6. PlaceOK'
    BY <1>1, <1>2, <2>4, <2>5
    DEF ReasonInv, PlaceOK, Docs, Dumping, Payloads, Indexed, Digested, Covered, Measured
  <2>7. HandsOK'
    BY <1>2, <2>5 DEF ReasonInv, HandsOK
  <2>8. /\ tool'.volatile[Part] = raw[Bin[Part]]
        /\ tool.at = 2 => tool'.volatile["core"] = tool.volatile["core"]
    BY <1>2, <2>5 DEF ReasonInv, HandsOK
  <2>9. ASSUME ~touched PROVE  /\ DocsTrue' /\ PackagesTrue' /\ BindingsTrue'
                               /\ PayloadsTrue' /\ CopiesTrue' /\ Found'
    <3> USE <1>1, <1>2, <2>1, <2>4, <2>5, <2>9 DEF ReasonInv, Alone, Keeps, Docs,
        Dumping, Payloads, Indexed, Digested, Covered, Measured
    <3>a. DocsTrue'
      BY DEF DocsTrue, Catalogs
    <3>b. PackagesTrue'
      BY DEF PackagesTrue
    <3>1. DocsTrue' /\ PackagesTrue'
      BY <3>a, <3>b
    <3>2. BindingsTrue'
      BY DEF BindingsTrue, Catalogs
    <3>3. CopiesTrue'
      BY DEF CopiesTrue
    <3>4. /\ tool.at = 1 => tool'.volatile["core"] = raw["core.bin"]
          /\ tool.at = 2 => \A p \in PartNames : tool'.volatile[p] = raw[Bin[p]]
      BY <2>8, PartsAre DEF PayloadsTrue, PartNames
    <3>5. tool.run = "budget" => \A p \in PartNames : tool'.receipt[p] = Received'[p]
      BY KeepsFiles DEF PayloadsTrue, Catalogs
    <3>6. PayloadsTrue'
      BY <3>4, <3>5 DEF PayloadsTrue, Catalogs
    <3>7. Found'
      BY KeepsFiles DEF Found
    <3> QED BY <3>1, <3>2, <3>3, <3>6, <3>7
  <2>10. tool'.pc # "refused" /\ tool.pc \in Covered
    BY <1>1, <2>4 DEF Docs, Dumping, Payloads, Indexed, Digested, Covered, Measured
  <2> QED BY <1>1, <2>1, <2>5, <2>6, <2>7, <2>9, <2>10, GoesOnFor DEF ReasonInv,
      CatalogRepeats
<1> QED BY <1>3, <1>4

LEMMA ExtractPayloadReason ==
  ASSUME ReasonInv, ExtractPayload
  PROVE  ReasonInv'
<1> DEFINE parsed == IF Part = "server" THEN [tool.parsed EXCEPT !["server"] = raw[Doc["server"]]]
                     ELSE tool.parsed
<1>1. /\ tool.pc = "extract" /\ Keeps /\ FiveInv' /\ DOMAIN tool = ToolFields
      /\ tool' = [tool EXCEPT !.pc = "payload", !.payload = raw[Apk[Part]], !.parsed = parsed]
      /\ tool.run \in {"budget", "catalog"}
  BY PayloadSteps
  DEF ExtractPayload, To, OthersThanTool, Keeps, ReasonInv, FiveInv, PlaceOK, Docs,
      Dumping, Payloads, Indexed, Digested, Covered, Measured
<1>2. /\ tool.at \in {1, 2} /\ Part \in PartNames
      /\ tool.at = 1 => Part = "core"
      /\ tool.at = 2 => Part = "server"
      /\ raw[Doc["server"]] \in Nat
  BY <1>1, PartAt, PartsAre
  DEF ReasonInv, PlaceOK, RawOK, Docs, Dumping, Payloads, Indexed, Digested, Covered,
      Measured
<1> HIDE DEF parsed
<1>3. /\ tool'.pc = "payload" /\ tool'.at = tool.at /\ tool'.payload = raw[Apk[Part]]
      /\ tool'.parsed = parsed /\ Part' = Part
      /\ tool'.run = tool.run /\ tool'.dev = tool.dev /\ tool'.hash = tool.hash
      /\ tool'.dump = tool.dump /\ tool'.sha = tool.sha /\ tool'.auth = tool.auth
      /\ tool'.index = tool.index /\ tool'.volatile = tool.volatile
      /\ tool'.receipt = tool.receipt /\ tool'.budget = tool.budget
      /\ tool'.copy = tool.copy
  BY <1>1 DEF ToolFields, Part
<1>4. PlaceOK'
  BY <1>1, <1>2, <1>3
  DEF ReasonInv, PlaceOK, Docs, Dumping, Payloads, Indexed, Digested, Covered, Measured
<1>5. HandsOK'
  <2>1. parsed \in [{"core", "server", "caps"} -> Nat]
    BY <1>2 DEF ReasonInv, HandsOK, parsed
  <2> QED BY <1>3, <2>1 DEF ReasonInv, HandsOK
<1>6. /\ parsed["core"] = tool.parsed["core"]
      /\ tool.at = 1 => parsed["server"] = tool.parsed["server"]
      /\ tool.at = 2 => parsed["server"] = raw["server.json"]
  BY <1>2, PartsAre DEF ReasonInv, HandsOK, parsed
<1>7. ASSUME ~touched PROVE  /\ DocsTrue' /\ PackagesTrue' /\ BindingsTrue'
                             /\ PayloadsTrue' /\ CopiesTrue' /\ Found'
  <2> USE <1>1, <1>2, <1>3, <1>7 DEF ReasonInv, Alone, Keeps, Docs, Dumping, Payloads,
      Indexed, Digested, Covered, Measured
  <2>1. tool.parsed["core"] = raw["core.json"]
    BY DEF DocsTrue
  <2>2. parsed[Part] = raw[Doc[Part]]
    BY <1>6, <2>1, PartsAre
  <2>3. DocsTrue'
    BY <1>6, <2>1, <2>2 DEF DocsTrue, Catalogs
  <2>4. PackagesTrue'
    BY DEF PackagesTrue
  <2>5. BindingsTrue'
    BY DEF BindingsTrue, Catalogs
  <2>6. PayloadsTrue'
    BY KeepsFiles DEF PayloadsTrue, Catalogs
  <2>7. CopiesTrue'
    BY DEF CopiesTrue
  <2>8. Bound("core")' <=> Bound("core")
    BY DEF Bound
  <2>9. Found'
    BY <2>8, KeepsFiles DEF Found
  <2> QED BY <2>3, <2>4, <2>5, <2>6, <2>7, <2>9
<1>8. tool'.pc # "refused" /\ tool.pc \in Covered
  BY <1>1, <1>3 DEF Docs, Dumping, Payloads, Indexed, Digested, Covered, Measured
<1> QED BY <1>1, <1>3, <1>4, <1>5, <1>7, <1>8, GoesOnFor DEF ReasonInv, CatalogRepeats

LEMMA CheckPayloadReason ==
  ASSUME ReasonInv, CheckPayload
  PROVE  ReasonInv'
<1> DEFINE good == PayloadBinds(tool.payload, tool.parsed[Part], raw[Doc[Part]], raw[Bin[Part]])
<1>1. /\ tool.pc = "payload" /\ FiveInv' /\ DOMAIN tool = ToolFields
      /\ tool.run \in {"budget", "catalog"}
  BY PayloadSteps
  DEF CheckPayload, ReasonInv, FiveInv, PlaceOK, Docs, Dumping, Payloads, Indexed,
      Digested, Covered, Measured
<1>2. /\ tool.at \in {1, 2} /\ Part \in PartNames
      /\ tool.at = 1 => Part = "core"
      /\ tool.at = 2 => Part = "server"
  BY <1>1, PartAt
  DEF ReasonInv, PlaceOK, Docs, Dumping, Payloads, Indexed, Digested, Covered, Measured
<1>3. ASSUME ~touched PROVE good <=> Bound(Part)
  <2>1. tool.payload = raw[Apk[Part]] /\ tool.parsed[Part] = raw[Doc[Part]]
    BY <1>1, <1>3 DEF ReasonInv, Alone, PayloadsTrue, DocsTrue
  <2> QED BY <2>1 DEF PayloadBinds, Bound
<1>4. CASE ~good
  <2>1. Refuse
    BY <1>4 DEF CheckPayload
  <2>2. ~touched => ~Coherent(raw)
    BY <1>2, <1>3, <1>4, CoherentIs DEF ReasonInv
  <2>3. ~touched => tool.run = "budget"
    BY <1>1, <2>2, BudgetFacts
    DEF ReasonInv, Alone, BindingsTrue, Catalogs, Docs, Dumping, Payloads, Indexed,
        Digested, Covered, Measured
  <2>4. ~touched => Reason
    BY <2>2, <2>3 DEF Reason
  <2> QED BY <1>1, <2>1, <2>4, RefusesFor
<1>5. CASE good
  <2>1. Keeps /\ tool' = [tool EXCEPT !.pc = "receipt"]
    BY <1>5 DEF CheckPayload, To, OthersThanTool, Keeps
  <2> HIDE DEF good
  <2>2. /\ tool'.pc = "receipt" /\ tool'.at = tool.at /\ Part' = Part
        /\ tool'.run = tool.run /\ tool'.dev = tool.dev /\ tool'.hash = tool.hash
        /\ tool'.parsed = tool.parsed /\ tool'.dump = tool.dump /\ tool'.sha = tool.sha
        /\ tool'.auth = tool.auth /\ tool'.index = tool.index
        /\ tool'.payload = tool.payload /\ tool'.volatile = tool.volatile
        /\ tool'.receipt = tool.receipt /\ tool'.budget = tool.budget
        /\ tool'.copy = tool.copy
    BY <1>1, <2>1 DEF ToolFields, Part
  <2>3. PlaceOK'
    BY <1>1, <1>2, <2>2
    DEF ReasonInv, PlaceOK, Docs, Dumping, Payloads, Indexed, Digested, Covered, Measured
  <2>4. HandsOK'
    BY <2>2 DEF ReasonInv, HandsOK
  <2>5. ASSUME ~touched PROVE  /\ DocsTrue' /\ PackagesTrue' /\ BindingsTrue'
                               /\ PayloadsTrue' /\ CopiesTrue' /\ Found'
    <3> USE <1>1, <1>2, <2>1, <2>2, <2>5 DEF ReasonInv, Alone, Keeps, Docs, Dumping,
        Payloads, Indexed, Digested, Covered, Measured
    <3>1. DocsTrue' /\ PackagesTrue'
      BY DEF DocsTrue, PackagesTrue, Catalogs
    <3>2. BindingsTrue' /\ CopiesTrue'
      BY DEF BindingsTrue, CopiesTrue, Catalogs
    <3>3. PayloadsTrue'
      BY KeepsFiles DEF PayloadsTrue, Catalogs
    <3>4. Bound(Part)
      BY <1>3, <1>5
    <3>5. (Bound(Part)' <=> Bound(Part)) /\ (Bound("core")' <=> Bound("core"))
      BY DEF Bound
    <3>6. Found'
      BY <3>4, <3>5, KeepsFiles DEF Found
    <3> QED BY <3>1, <3>2, <3>3, <3>6
  <2>6. tool'.pc # "refused" /\ tool.pc \in Covered
    BY <1>1, <2>2 DEF Docs, Dumping, Payloads, Indexed, Digested, Covered, Measured
  <2> QED BY <1>1, <2>1, <2>2, <2>3, <2>4, <2>5, <2>6, GoesOnFor DEF ReasonInv,
      CatalogRepeats
<1> QED BY <1>4, <1>5

LEMMA WriteReceiptReason ==
  ASSUME ReasonInv, WriteReceipt
  PROVE  ReasonInv'
<1> DEFINE next == [tool EXCEPT !.receipt[Part] =
                      [sha |-> raw[Apk[Part]], producer |-> raw[Doc[Part]]]]
           after == IF tool.run = "budget" THEN "volatile" ELSE "write"
<1>1. /\ tool.pc = "receipt" /\ FiveInv' /\ DOMAIN tool = ToolFields
      /\ tool.run \in {"budget", "catalog"}
      /\ Keeps /\ tool' = Step(next, Parts, "extract", after)
  BY PayloadSteps
  DEF WriteReceipt, To, OthersThanTool, Keeps, ReasonInv, FiveInv, PlaceOK, Docs,
      Dumping, Payloads, Indexed, Digested, Covered, Measured
<1>2. /\ tool.at \in {1, 2} /\ Part \in PartNames
      /\ tool.at = 1 => Part = "core"
      /\ tool.at = 2 => Part = "server"
      /\ raw[Apk[Part]] \in Editions /\ raw[Doc[Part]] \in Nat
      /\ Received[Part] = [sha |-> raw[Apk[Part]], producer |-> raw[Doc[Part]]]
  BY <1>1, PartAt, PartFiles
  DEF ReasonInv, PlaceOK, Docs, Dumping, Payloads, Indexed, Digested, Covered, Measured
<1>3. /\ DOMAIN next = ToolFields /\ next.at = tool.at
      /\ next.receipt = [tool.receipt EXCEPT ![Part] = Received[Part]]
      /\ next.run = tool.run /\ next.dev = tool.dev /\ next.hash = tool.hash
      /\ next.parsed = tool.parsed /\ next.dump = tool.dump /\ next.sha = tool.sha
      /\ next.auth = tool.auth /\ next.index = tool.index
      /\ next.payload = tool.payload /\ next.volatile = tool.volatile
      /\ next.budget = tool.budget /\ next.copy = tool.copy
  BY <1>1, <1>2 DEF ToolFields
<1> HIDE DEF next, after
<1>4. /\ \/ next.at < Len(Parts) /\ tool'.pc = "extract" /\ tool'.at = next.at + 1
         \/ ~(next.at < Len(Parts)) /\ tool'.pc = after /\ tool'.at = 1
      /\ tool'.run = next.run /\ tool'.dev = next.dev /\ tool'.hash = next.hash
      /\ tool'.parsed = next.parsed /\ tool'.dump = next.dump /\ tool'.sha = next.sha
      /\ tool'.auth = next.auth /\ tool'.index = next.index
      /\ tool'.payload = next.payload /\ tool'.volatile = next.volatile
      /\ tool'.receipt = next.receipt /\ tool'.budget = next.budget
      /\ tool'.copy = next.copy
  BY <1>1, <1>3, StepGoes
<1>5. \/ tool.at = 1 /\ tool'.pc = "extract" /\ tool'.at = 2
      \/ /\ tool.at = 2 /\ tool'.at = 1
         /\ \/ tool.run = "budget" /\ tool'.pc = "volatile"
            \/ tool.run = "catalog" /\ tool'.pc = "write"
  BY <1>1, <1>2, <1>3, <1>4, PartsAre DEF after
<1>6. /\ tool'.run = tool.run /\ tool'.dev = tool.dev /\ tool'.hash = tool.hash
      /\ tool'.parsed = tool.parsed /\ tool'.dump = tool.dump /\ tool'.sha = tool.sha
      /\ tool'.auth = tool.auth /\ tool'.index = tool.index
      /\ tool'.payload = tool.payload /\ tool'.volatile = tool.volatile
      /\ tool'.budget = tool.budget /\ tool'.copy = tool.copy
      /\ tool'.receipt = [tool.receipt EXCEPT ![Part] = Received[Part]]
  BY <1>3, <1>4
<1>7. PlaceOK'
  BY <1>1, <1>2, <1>5, <1>6
  DEF ReasonInv, PlaceOK, Docs, Dumping, Payloads, Indexed, Digested, Covered, Measured
<1>8. HandsOK'
  <2>1. Received[Part] \in [sha : Editions \cup {Nothing}, producer : Nat]
    BY <1>2
  <2> QED BY <1>2, <1>6, <2>1 DEF ReasonInv, HandsOK
<1>9. /\ tool'.receipt[Part] = Received[Part]
      /\ tool.at = 2 => tool'.receipt["core"] = tool.receipt["core"]
  BY <1>2, <1>6 DEF ReasonInv, HandsOK
<1>10. ASSUME ~touched PROVE  /\ DocsTrue' /\ PackagesTrue' /\ BindingsTrue'
                              /\ PayloadsTrue' /\ CopiesTrue' /\ Found'
  <2> USE <1>1, <1>2, <1>5, <1>6, <1>10 DEF ReasonInv, Alone, Keeps, Docs, Dumping,
      Payloads, Indexed, Digested, Covered, Measured
  <2>1. DocsTrue' /\ PackagesTrue'
    BY DEF DocsTrue, PackagesTrue, Catalogs
  <2>2. BindingsTrue' /\ CopiesTrue'
    BY DEF BindingsTrue, CopiesTrue, Catalogs
  <2>3. Received' = Received
    BY KeepsFiles
  <2>4. tool.run = "catalog" => \A p \in PartNames : tool.volatile[p] = raw[Bin[p]]
    BY DEF PayloadsTrue, Catalogs
  <2>5. tool'.receipt["core"] = Received["core"]
    BY <1>9 DEF PayloadsTrue
  <2>6. tool.at = 2 => \A p \in PartNames : tool'.receipt[p] = Received[p]
    BY <1>9, <2>5 DEF PartNames
  <2>7. PayloadsTrue'
    BY <2>3, <2>4, <2>5, <2>6 DEF PayloadsTrue, Catalogs
  <2>8. ASSUME tool.run = "budget" PROVE Found'
    <3>1. /\ Bound("core")
          /\ tool.at = 2 => \A p \in PartNames : Bound(p)
      BY <2>8 DEF Found, PartNames
    <3>2. Bound("core")' <=> Bound("core")
      BY DEF Bound
    <3> QED BY <2>8, <3>1, <3>2, KeepsFiles DEF Found
  <2>9. ASSUME tool.run # "budget" PROVE Found'
    BY <2>9 DEF Found
  <2> QED BY <2>1, <2>2, <2>7, <2>8, <2>9
<1>11. tool'.pc # "refused" /\ tool.pc \in Covered
  BY <1>1, <1>5 DEF Docs, Dumping, Payloads, Indexed, Digested, Covered, Measured
<1> QED BY <1>1, <1>6, <1>7, <1>8, <1>10, <1>11, GoesOnFor DEF ReasonInv, CatalogRepeats

(* The staging budget is a number.                                           *)
LEMMA StagingIsNat ==
  ASSUME RawOK
  PROVE  Staging(Archives, Binaries) \in Nat
<1>1. \A p \in PartNames : Archives[p] = raw[Apk[p]] /\ Binaries[p] = raw[Bin[p]]
  BY DEF Archives, Listed, Binaries
<1>2. \A p \in PartNames : raw[Apk[p]].ed \in Nat /\ raw[Bin[p]] \in Nat
  BY PartFiles DEF Editions
<1>3. \A x \in Nat : Fact(x) \in Nat
  BY DEF Fact
<1>4. /\ [p \in PartNames |-> ApkRow(Archives[p])] \in [PartNames -> Nat]
      /\ [p \in PartNames |-> Fact(Binaries[p])] \in [PartNames -> Nat]
  BY <1>1, <1>2, <1>3 DEF ApkRow
<1>5. \A g \in [PartNames -> Nat] : Sum(g) \in Nat
  BY DEF Sum, PartNames
<1>6. /\ Sum([p \in PartNames |-> ApkRow(Archives[p])]) \in Nat
      /\ Sum([p \in PartNames |-> Fact(Binaries[p])]) \in Nat
  BY <1>4, <1>5
<1> QED BY <1>6 DEF Staging

(* What a budget is of stays when only budgets and catalogs are written.     *)
LEMMA KeepsMeasured ==
  ASSUME RawOK, told' = told, DOMAIN raw' = RawNames,
         \A f \in RawNames \ {"budget", "catalog"} : raw'[f] = raw[f]
  PROVE  /\ RawOK' /\ Archives' = Archives /\ Binaries' = Binaries /\ Received' = Received
         /\ (Coherent(raw))' <=> Coherent(raw)
         /\ \A v \in Terms : TrueBudget(v)' = TrueBudget(v)
<1>1. /\ raw'["core.json"] = raw["core.json"] /\ raw'["server.json"] = raw["server.json"]
      /\ raw'["capabilities.json"] = raw["capabilities.json"]
      /\ raw'["core.bin"] = raw["core.bin"] /\ raw'["server.bin"] = raw["server.bin"]
      /\ raw'["core.apk"] = raw["core.apk"] /\ raw'["server.apk"] = raw["server.apk"]
      /\ raw'["index"] = raw["index"] /\ raw'["auth"] = raw["auth"]
  BY DEF RawNames
<1>2. RawOK'
  BY <1>1 DEF RawOK
<1>3. \A p \in PartNames :
        raw'[Apk[p]] = raw[Apk[p]] /\ raw'[Bin[p]] = raw[Bin[p]] /\ raw'[Doc[p]] = raw[Doc[p]]
  BY <1>1, PartsAre DEF PartNames
<1>4. Archives' = Archives /\ Binaries' = Binaries /\ Received' = Received
  BY <1>3 DEF Archives, Listed, Binaries, Received
<1>5. (Coherent(raw))' <=> Coherent(raw)
  <2>1. Listed(raw)' = Listed(raw)
    BY <1>4 DEF Archives
  <2>2. \A x : Fact(x)' = Fact(x)
    BY DEF Fact
  <2>3. Fact(raw[Doc["caps"]])' = Fact(raw[Doc["caps"]]) /\ Fact(raw[Doc["core"]])' = Fact(raw[Doc["core"]])
    BY <1>1, PartsAre DEF Fact
  <2> QED BY <1>1, <1>3, <2>1, <2>3 DEF Coherent
<1>6. Staging(Archives, Binaries)' = Staging(Archives, Binaries)
  BY <1>4 DEF Staging, ApkRow, Fact, Sum
<1>7. \A v \in Terms : TrueBudget(v)' = TrueBudget(v)
  BY <1>1, <1>4, <1>6 DEF TrueBudget
<1> QED BY <1>2, <1>4, <1>5, <1>7

(* A tool that begins or has ended holds nothing, and so nothing wrong.      *)
LEMMA HoldsNothing ==
  ASSUME NEW pc \in {"parse", "hash", "select", "done"}, NEW run, NEW dev \in BOOLEAN,
         tool' = [Idle EXCEPT !.pc = pc, !.run = run, !.dev = dev],
         run \in {"budget", "catalog", "assemble"},
         pc = "parse" => run = "budget", pc = "hash" => run = "catalog",
         pc = "select" => run = "assemble",
         FiveInv', RawOK', ~touched' => BudgetTrue',
         raw'["catalog"] # Nothing => Vetted(raw'["catalog"])
  PROVE  ReasonInv'
<1>1. /\ tool'.pc = pc /\ tool'.run = run /\ tool'.dev = dev /\ tool'.at = 1
      /\ tool'.hash = Idle.hash /\ tool'.parsed = Idle.parsed /\ tool'.dump = Idle.dump
      /\ tool'.sha = Idle.sha /\ tool'.volatile = Idle.volatile
      /\ tool'.receipt = Idle.receipt
  BY DEF Idle
<1>2. PlaceOK'
  BY <1>1 DEF PlaceOK, Docs, Dumping, Payloads, Indexed, Digested, Covered, Measured
<1>3. HandsOK'
  BY <1>1, HandsIdle DEF HandsOK
<1>4. CatalogRepeats'
  BY <1>1
  DEF CatalogRepeats, Vetted, RowOf, Docs, Dumping, Payloads, Indexed, Digested, Covered, Measured
<1>5. DocsTrue'
  BY <1>1
  DEF DocsTrue, Catalogs, Docs, Dumping, Payloads, Indexed, Digested, Covered, Measured
<1>6. PackagesTrue' /\ BindingsTrue'
  BY <1>1
  DEF PackagesTrue, BindingsTrue, Catalogs, Docs, Dumping, Payloads, Indexed, Digested,
      Covered, Measured
<1>7. PayloadsTrue' /\ CopiesTrue'
  BY <1>1
  DEF PayloadsTrue, CopiesTrue, Catalogs, Docs, Dumping, Payloads, Indexed, Digested,
      Covered, Measured
<1>8. Found'
  BY <1>1 DEF Found, Docs, Dumping, Payloads, Indexed, Digested, Covered, Measured
<1>9. Alone'
  BY <1>1, <1>5, <1>6, <1>7, <1>8 DEF Alone
<1> QED BY <1>2, <1>3, <1>4, <1>9 DEF ReasonInv

LEMMA WriteBudgetReason ==
  ASSUME ReasonInv, WriteBudget
  PROVE  ReasonInv'
<1>1. /\ tool.pc = "write" /\ tool.run = "budget" /\ FiveInv' /\ tool.dev \in BOOLEAN
  BY WritingSteps DEF WriteBudget, ReasonInv, PlaceOK
<1>2. CASE raw["budget"] # Nothing
  <2>1. Refuse /\ Reason
    BY <1>1, <1>2 DEF WriteBudget, Reason
  <2> QED BY <1>1, <2>1, RefusesFor
<1>3. CASE raw["budget"] = Nothing
  <2> DEFINE NewBudget(v) ==
        [protocols |-> tool.parsed["core"], core |-> raw[Doc["core"]],
         caps |-> raw[Doc["caps"]], server |-> raw[Doc["server"]],
         dump |-> tool.dump, sha |-> tool.sha, auth |-> tool.auth,
         receipt |-> tool.receipt, volatile |-> tool.volatile,
         staging |-> Staging(tool.dump, tool.volatile), terms |-> v]
  <2>1. PICK v \in Terms : raw' = [raw EXCEPT !["budget"] = NewBudget(v)]
    BY <1>1, <1>3 DEF WriteBudget
  <2>2. /\ tool' = [Idle EXCEPT !.pc = "done", !.run = tool.run, !.dev = tool.dev]
        /\ told' = told /\ touched' = touched
    BY <1>1, <1>3 DEF WriteBudget, Ends, OthersThanTool
  <2> HIDE DEF NewBudget
  <2>3. /\ DOMAIN raw' = RawNames /\ raw'["budget"] = NewBudget(v)
        /\ raw'["catalog"] = raw["catalog"]
        /\ \A f \in RawNames \ {"budget", "catalog"} : raw'[f] = raw[f]
    BY <2>1 DEF ReasonInv, RawOK, RawNames
  <2>4. /\ RawOK' /\ ((Coherent(raw))' <=> Coherent(raw))
        /\ TrueBudget(v)' = TrueBudget(v)
    BY <2>2, <2>3, KeepsMeasured DEF ReasonInv
  <2>5. ASSUME ~touched PROVE Coherent(raw) /\ NewBudget(v) = TrueBudget(v)
    <3>1. /\ tool.parsed["core"] = raw["core.json"] /\ tool.auth = raw["auth"]
          /\ \A p \in PartNames : /\ tool.dump[p] = raw[Apk[p]] /\ tool.sha[p] = raw[Apk[p]]
                                  /\ tool.volatile[p] = raw[Bin[p]]
                                  /\ tool.receipt[p] = Received[p]
      BY <1>1, <2>5
      DEF ReasonInv, Alone, DocsTrue, BindingsTrue, PackagesTrue, PayloadsTrue, Docs,
          Dumping, Payloads, Indexed, Digested, Covered, Measured
    <3>2. /\ Fact(raw["capabilities.json"]) = Fact(raw["core.json"])
          /\ raw["index"] = raw["auth"].index
          /\ \A p \in PartNames : /\ Bound(p) /\ Digests(p)
                                  /\ raw["index"][p] = raw["auth"].apk[p]
      BY <1>1, <2>5
      DEF ReasonInv, Alone, Found, Docs, Dumping, Payloads, Indexed, Digested, Covered,
          Measured
    <3>3. Coherent(raw)
      BY <3>2, CoherentIs DEF ReasonInv
    <3>4. tool.dump = Archives /\ tool.sha = Archives
      BY <3>1 DEF ReasonInv, HandsOK, Archives, Listed
    <3>5. tool.volatile = Binaries
      BY <3>1 DEF ReasonInv, HandsOK, Binaries
    <3>6. tool.receipt = Received
      BY <3>1 DEF ReasonInv, HandsOK, Received
    <3>7. NewBudget(v) = TrueBudget(v)
      BY <3>1, <3>4, <3>5, <3>6, PartsAre DEF NewBudget, TrueBudget
    <3> QED BY <3>3, <3>7
  <2>6. ~touched' => BudgetTrue'
    BY <2>2, <2>3, <2>4, <2>5 DEF BudgetTrue
  <2>7. raw'["catalog"] # Nothing => Vetted(raw'["catalog"])
    BY <2>3 DEF ReasonInv, CatalogRepeats
  <2> QED BY <1>1, <2>2, <2>4, <2>6, <2>7, HoldsNothing
<1> QED BY <1>2, <1>3

LEMMA WriteCatalogReason ==
  ASSUME ReasonInv, WriteCatalog
  PROVE  ReasonInv'
<1> DEFINE b == tool.budget
           good == /\ tool.receipt = b.receipt /\ b.server = tool.hash["server"]
                   /\ Policy(b, tool.dev)
                   /\ b.staging >= Staging(tool.dump, tool.volatile)
                   /\ raw["catalog"] = Nothing
<1>1. /\ tool.pc = "write" /\ tool.run = "catalog" /\ FiveInv' /\ tool.dev \in BOOLEAN
  BY WritingSteps DEF WriteCatalog, ReasonInv, PlaceOK
<1>2. CASE ~good
  <2>1. Refuse
    BY <1>2 DEF WriteCatalog
  <2>2. ASSUME ~touched, Policy(raw["budget"], tool.dev) PROVE raw["catalog"] # Nothing
    <3>1. b = raw["budget"] /\ raw["budget"] # Nothing
      BY <1>1, <2>2
      DEF ReasonInv, Alone, BindingsTrue, Catalogs, Docs, Dumping, Payloads, Indexed,
          Digested, Covered, Measured
    <3>2. /\ b.receipt = Received /\ b.server = raw["server.json"]
          /\ b.staging = Staging(Archives, Binaries)
      BY <2>2, <3>1, BudgetFacts
    <3>3. /\ tool.hash["server"] = raw["server.json"]
          /\ \A p \in PartNames : /\ tool.dump[p] = raw[Apk[p]]
                                  /\ tool.volatile[p] = raw[Bin[p]]
                                  /\ tool.receipt[p] = Received[p]
      BY <1>1, <2>2
      DEF ReasonInv, Alone, DocsTrue, PackagesTrue, PayloadsTrue, Catalogs, Docs,
          Dumping, Payloads, Indexed, Digested, Covered, Measured
    <3>4. tool.dump = Archives
      BY <3>3 DEF ReasonInv, HandsOK, Archives, Listed
    <3>5. tool.volatile = Binaries
      BY <3>3 DEF ReasonInv, HandsOK, Binaries
    <3>6. tool.receipt = Received
      BY <3>3 DEF ReasonInv, HandsOK, Received
    <3>7. b.staging >= Staging(tool.dump, tool.volatile)
      BY <3>2, <3>4, <3>5, StagingIsNat DEF ReasonInv
    <3> QED BY <1>2, <2>2, <3>1, <3>2, <3>3, <3>6, <3>7
  <2>3. ~touched => Reason
    BY <1>1, <2>2 DEF Reason
  <2> QED BY <1>1, <2>1, <2>3, RefusesFor
<1>3. CASE good
  <2> DEFINE written == [dev |-> tool.dev,
                         row |-> [core |-> tool.hash["core"], caps |-> tool.hash["caps"],
                                  server |-> tool.hash["server"], budget |-> b]]
  <2>1. /\ raw' = [raw EXCEPT !["catalog"] = written]
        /\ tool' = [Idle EXCEPT !.pc = "done", !.run = tool.run, !.dev = tool.dev]
        /\ told' = told /\ touched' = touched
    BY <1>3 DEF WriteCatalog, Ends, OthersThanTool
  <2>2. Vetted(written)
    <3>1. written.row = RowOf(b) /\ written.row.budget = b /\ b.terms # "unsupported"
      BY <1>1, <1>3
      DEF ReasonInv, CatalogRepeats, RowOf, Docs, Dumping, Payloads, Indexed, Digested,
          Covered, Measured
    <3>2. written.dev = tool.dev /\ b.terms # "malformed" /\ (tool.dev \/ b.terms # "provisional")
      BY <1>3 DEF Policy, Qualified
    <3> HIDE DEF written, b
    <3> QED BY <3>1, <3>2, Zenon DEF Vetted
  <2> HIDE DEF written
  <2>3. /\ DOMAIN raw' = RawNames /\ raw'["catalog"] = written
        /\ raw'["budget"] = raw["budget"]
        /\ \A f \in RawNames \ {"budget", "catalog"} : raw'[f] = raw[f]
    BY <2>1 DEF ReasonInv, RawOK, RawNames
  <2>4. /\ RawOK' /\ ((Coherent(raw))' <=> Coherent(raw))
        /\ \A v \in Terms : TrueBudget(v)' = TrueBudget(v)
    BY <2>1, <2>3, KeepsMeasured DEF ReasonInv
  <2>5. ~touched' => BudgetTrue'
    BY <2>1, <2>3, <2>4 DEF ReasonInv, Alone, BudgetTrue
  <2>6. Vetted(raw'["catalog"])
    BY <2>2, <2>3
  <2> QED BY <1>1, <2>1, <2>4, <2>5, <2>6, HoldsNothing
<1> QED BY <1>2, <1>3

LEMMA SelectAssetsReason ==
  ASSUME ReasonInv, SelectAssets
  PROVE  ReasonInv'
<1> DEFINE c == raw["catalog"]
           good == /\ published = Nothing /\ c # Nothing /\ raw["budget"] # Nothing
                   /\ c.dev = tool.dev /\ Qualified(raw["budget"], tool.dev)
<1>1. /\ tool.pc = "select" /\ FiveInv' /\ DOMAIN tool = ToolFields
      /\ tool.run = "assemble" /\ tool.at = 1
  BY AssemblySteps
  DEF SelectAssets, ReasonInv, FiveInv, PlaceOK, Docs, Dumping, Payloads, Indexed,
      Digested, Covered, Measured
<1>2. CASE ~good
  <2>1. Refuse
    BY <1>2 DEF SelectAssets
  <2>2. ASSUME c # Nothing, c.dev = tool.dev, ~Qualified(raw["budget"], tool.dev)
        PROVE  c.row.budget # raw["budget"]
    BY <2>2 DEF Qualified, ReasonInv, CatalogRepeats, Vetted
  <2>3. Reason
    BY <1>1, <1>2, <2>2 DEF Reason
  <2> QED BY <1>1, <2>1, <2>3, RefusesFor
<1>3. CASE good
  <2>1. Keeps /\ tool' = [tool EXCEPT !.pc = "copy", !.copy = [f \in DOMAIN raw |-> Nothing]]
    BY <1>3 DEF SelectAssets, To, OthersThanTool, Keeps
  <2>2. /\ tool'.pc = "copy" /\ tool'.at = tool.at /\ tool'.copy = [f \in RawNames |-> Nothing]
        /\ tool'.run = tool.run /\ tool'.dev = tool.dev /\ tool'.hash = tool.hash
        /\ tool'.parsed = tool.parsed /\ tool'.dump = tool.dump /\ tool'.sha = tool.sha
        /\ tool'.auth = tool.auth /\ tool'.index = tool.index
        /\ tool'.payload = tool.payload /\ tool'.volatile = tool.volatile
        /\ tool'.receipt = tool.receipt /\ tool'.budget = tool.budget
    BY <1>1, <2>1 DEF ToolFields, ReasonInv, RawOK
  <2>3. PlaceOK'
    BY <1>1, <2>2
    DEF ReasonInv, PlaceOK, Docs, Dumping, Payloads, Indexed, Digested, Covered, Measured
  <2>4. HandsOK'
    BY <2>2 DEF ReasonInv, HandsOK
  <2>5. ASSUME ~touched PROVE  /\ DocsTrue' /\ PackagesTrue' /\ BindingsTrue'
                               /\ PayloadsTrue' /\ CopiesTrue' /\ Found'
    <3>1. DocsTrue' /\ PackagesTrue'
      BY <1>1, <2>2
      DEF DocsTrue, PackagesTrue, Docs, Dumping, Payloads, Indexed, Digested, Covered,
          Measured
    <3>2. BindingsTrue' /\ PayloadsTrue'
      BY <1>1, <2>2
      DEF BindingsTrue, PayloadsTrue, Catalogs, Docs, Dumping, Payloads, Indexed,
          Digested, Covered, Measured
    <3>3. CopiesTrue'
      BY <1>1, <1>3, <2>1, <2>2 DEF CopiesTrue, Keeps
    <3>4. Found'
      BY <1>1, <2>2 DEF Found
    <3> QED BY <3>1, <3>2, <3>3, <3>4
  <2> QED BY <1>1, <2>1, <2>2, <2>3, <2>4, <2>5, GoesOnFor
<1> QED BY <1>2, <1>3

(* The ten files of a bundle.                                                *)
Bundled == RawNames \ {"auth"}
LEMMA CopyOrderIs ==
  /\ Len(CopyOrder) = 10
  /\ \A n \in 1..10 : CopyOrder[n] \in Bundled
  /\ \A f \in Bundled : \E n \in 1..10 : CopyOrder[n] = f
<1>1. /\ CopyOrder[1] = "core.apk" /\ CopyOrder[2] = "server.apk" /\ CopyOrder[3] = "budget"
      /\ CopyOrder[4] = "capabilities.json" /\ CopyOrder[5] = "core.bin"
      /\ CopyOrder[6] = "core.json" /\ CopyOrder[7] = "index" /\ CopyOrder[8] = "catalog"
      /\ CopyOrder[9] = "server.bin" /\ CopyOrder[10] = "server.json"
      /\ Len(CopyOrder) = 10
  BY DEF CopyOrder
<1>2. \A n \in 1..10 : n \in {1, 2, 3, 4, 5, 6, 7, 8, 9, 10}
  OBVIOUS
<1>3. \A n \in 1..10 : CopyOrder[n] \in Bundled
  BY <1>1, <1>2 DEF Bundled, RawNames
<1>4. ASSUME NEW f \in Bundled PROVE \E n \in 1..10 : CopyOrder[n] = f
  <2>1. f \in {"core.apk", "server.apk", "budget", "capabilities.json", "core.bin",
               "core.json", "index", "catalog", "server.bin", "server.json"}
    BY DEF Bundled, RawNames
  <2> QED BY <1>1, <2>1
<1> QED BY <1>1, <1>3, <1>4

LEMMA CopyAssetReason ==
  ASSUME ReasonInv, CopyAsset
  PROVE  ReasonInv'
<1> DEFINE f == CopyOrder[tool.at]
           next == [tool EXCEPT !.copy[f] = raw[f]]
<1>1. /\ tool.pc = "copy" /\ FiveInv' /\ DOMAIN tool = ToolFields
      /\ tool.run = "assemble" /\ tool.at \in 1..10
      /\ Keeps /\ tool' = Step(next, CopyOrder, "copy", "verify")
  BY AssemblySteps
  DEF CopyAsset, To, OthersThanTool, Keeps, ReasonInv, FiveInv, PlaceOK, Docs, Dumping,
      Payloads, Indexed, Digested, Covered, Measured
<1>2. /\ DOMAIN next = ToolFields /\ next.at = tool.at
      /\ next.copy = [tool.copy EXCEPT ![f] = raw[f]]
      /\ next.run = tool.run /\ next.dev = tool.dev /\ next.hash = tool.hash
      /\ next.parsed = tool.parsed /\ next.dump = tool.dump /\ next.sha = tool.sha
      /\ next.auth = tool.auth /\ next.index = tool.index
      /\ next.payload = tool.payload /\ next.volatile = tool.volatile
      /\ next.receipt = tool.receipt /\ next.budget = tool.budget
  BY <1>1 DEF ToolFields
<1> HIDE DEF next
<1>3. /\ \/ next.at < Len(CopyOrder) /\ tool'.pc = "copy" /\ tool'.at = next.at + 1
         \/ ~(next.at < Len(CopyOrder)) /\ tool'.pc = "verify" /\ tool'.at = 1
      /\ tool'.run = next.run /\ tool'.dev = next.dev /\ tool'.hash = next.hash
      /\ tool'.parsed = next.parsed /\ tool'.dump = next.dump /\ tool'.sha = next.sha
      /\ tool'.auth = next.auth /\ tool'.index = next.index
      /\ tool'.payload = next.payload /\ tool'.volatile = next.volatile
      /\ tool'.receipt = next.receipt /\ tool'.budget = next.budget
      /\ tool'.copy = next.copy
  BY <1>1, <1>2, StepGoes
<1>4. /\ \/ tool.at < 10 /\ tool'.pc = "copy" /\ tool'.at = tool.at + 1
         \/ tool.at = 10 /\ tool'.pc = "verify" /\ tool'.at = 1
      /\ tool'.run = tool.run /\ tool'.dev = tool.dev /\ tool'.hash = tool.hash
      /\ tool'.parsed = tool.parsed /\ tool'.dump = tool.dump /\ tool'.sha = tool.sha
      /\ tool'.auth = tool.auth /\ tool'.index = tool.index
      /\ tool'.payload = tool.payload /\ tool'.volatile = tool.volatile
      /\ tool'.receipt = tool.receipt /\ tool'.budget = tool.budget
      /\ tool'.copy = [tool.copy EXCEPT ![f] = raw[f]]
  BY <1>1, <1>2, <1>3, CopyOrderIs
<1>5. PlaceOK'
  BY <1>1, <1>4
  DEF ReasonInv, PlaceOK, Docs, Dumping, Payloads, Indexed, Digested, Covered, Measured
<1>6. HandsOK'
  BY <1>4 DEF ReasonInv, HandsOK
<1>7. ASSUME ~touched PROVE  /\ DocsTrue' /\ PackagesTrue' /\ BindingsTrue'
                             /\ PayloadsTrue' /\ CopiesTrue' /\ Found'
  <2>1. DocsTrue' /\ PackagesTrue'
    BY <1>1, <1>4
    DEF DocsTrue, PackagesTrue, Docs, Dumping, Payloads, Indexed, Digested, Covered,
        Measured
  <2>2. BindingsTrue' /\ PayloadsTrue'
    BY <1>1, <1>4
    DEF BindingsTrue, PayloadsTrue, Catalogs, Docs, Dumping, Payloads, Indexed, Digested,
        Covered, Measured
  <2>3. Found'
    BY <1>1, <1>4 DEF Found
  <2>4. /\ raw["catalog"] # Nothing /\ raw["budget"] # Nothing
        /\ raw["catalog"].dev = tool.dev
        /\ tool.copy = [g \in RawNames |-> tool.copy[g]]
        /\ \A n \in 1..10 : n < tool.at => tool.copy[CopyOrder[n]] = raw[CopyOrder[n]]
    BY <1>1, <1>7 DEF ReasonInv, Alone, CopiesTrue
  <2>5. /\ tool'.copy = [g \in RawNames |-> tool'.copy[g]]
        /\ \A g \in RawNames : tool'.copy[g] = IF g = f THEN raw[f] ELSE tool.copy[g]
    BY <1>4, <2>4
  <2>6. \A n \in 1..10 : CopyOrder[n] \in RawNames
    BY CopyOrderIs DEF Bundled
  <2>7. \A n \in 1..10 : n <= tool.at => tool'.copy[CopyOrder[n]] = raw[CopyOrder[n]]
    BY <1>1, <2>4, <2>5, <2>6
  <2>8. \A n \in 1..10 : tool'.pc = "verify" \/ n < tool'.at => n <= tool.at
    BY <1>1, <1>4
  <2>9. CopiesTrue'
    BY <1>1, <1>4, <2>4, <2>5, <2>7, <2>8 DEF CopiesTrue, Keeps
  <2> QED BY <2>1, <2>2, <2>3, <2>9
<1>8. tool'.pc # "refused" /\ tool'.run # "catalog"
  BY <1>1, <1>4
<1> QED BY <1>1, <1>5, <1>6, <1>7, <1>8, GoesOnFor

(* A copy of coherent files, their budget and the catalog of it passes.      *)
LEMMA CopyPasses ==
  ASSUME ReasonInv, ~touched, tool.pc = "verify",
         raw["catalog"].row.budget = raw["budget"]
  PROVE  BundleAccepts(tool.copy, tool.dev)
<1> DEFINE d == tool.copy
           b == raw["budget"]
<1>1. /\ raw["catalog"] # Nothing /\ b # Nothing
      /\ raw["catalog"].dev = tool.dev /\ Vetted(raw["catalog"])
      /\ b.terms # "unsupported" /\ Policy(b, tool.dev)
      /\ \A n \in 1..10 : d[CopyOrder[n]] = raw[CopyOrder[n]]
  BY DEF ReasonInv, Alone, CopiesTrue, CatalogRepeats, Vetted, Policy, Qualified
<1>2. \A f \in Bundled : d[f] = raw[f]
  BY <1>1, CopyOrderIs
<1>3. /\ d["core.json"] = raw["core.json"] /\ d["server.json"] = raw["server.json"]
      /\ d["capabilities.json"] = raw["capabilities.json"]
      /\ d["core.bin"] = raw["core.bin"] /\ d["server.bin"] = raw["server.bin"]
      /\ d["core.apk"] = raw["core.apk"] /\ d["server.apk"] = raw["server.apk"]
      /\ d["index"] = raw["index"] /\ d["budget"] = b /\ d["catalog"] = raw["catalog"]
  BY <1>2 DEF Bundled, RawNames
<1> HIDE DEF d
<1>4. \A p \in PartNames :
        d[Apk[p]] = raw[Apk[p]] /\ d[Bin[p]] = raw[Bin[p]] /\ d[Doc[p]] = raw[Doc[p]]
  BY <1>3, PartsAre DEF PartNames
<1>5. Listed(d) = Archives /\ [p \in PartNames |-> d[Bin[p]]] = Binaries
  BY <1>4 DEF Listed, Archives, Binaries
<1>6. /\ Coherent(raw)
      /\ Fact(raw["capabilities.json"]) = Fact(raw["core.json"])
      /\ raw["index"] = raw["auth"].index
      /\ \A p \in PartNames : /\ Bound(p) /\ Digests(p)
                              /\ raw["index"][p] = raw["auth"].apk[p]
      /\ b.protocols = raw["core.json"] /\ b.core = raw["core.json"]
      /\ b.caps = raw["capabilities.json"] /\ b.server = raw["server.json"]
      /\ b.dump = Archives /\ b.sha = Archives /\ b.auth = raw["auth"]
      /\ b.receipt = Received /\ b.volatile = Binaries
      /\ b.staging = Staging(Archives, Binaries)
  BY <1>1, BudgetFacts
<1> HIDE DEF b
<1>7. \A p \in PartNames : /\ Archives[p] = raw[Apk[p]] /\ Binaries[p] = raw[Bin[p]]
                           /\ Received[p] = [sha |-> raw[Apk[p]], producer |-> raw[Doc[p]]]
  BY DEF Archives, Listed, Binaries, Received
<1>8. raw["index"] = Archives /\ b.auth.apk = Archives /\ b.auth.index = raw["index"]
  BY <1>6 DEF Coherent, Archives
<1>9. /\ Fact(d[Doc["caps"]]) = Fact(d[Doc["core"]])
      /\ BudgetBinds(b, d[Doc["core"]], d[Doc["caps"]], d[Doc["core"]])
  BY <1>1, <1>3, <1>6, PartsAre DEF BudgetBinds, b
<1>10. RowsAgree(b, Archives, Archives) /\ AuthCovers(b.auth, Archives)
  BY <1>6, <1>8 DEF RowsAgree, AuthCovers
<1>11. IndexBinds(d["index"], b.auth, Archives)
  BY <1>3, <1>8 DEF IndexBinds
<1>12. \A p \in PartNames :
         /\ PayloadBinds(Archives[p], d[Doc[p]], d[Doc[p]], Binaries[p])
         /\ b.receipt[p] = [sha |-> Archives[p], producer |-> d[Doc[p]]]
  <2> SUFFICES ASSUME NEW p \in PartNames
               PROVE  /\ PayloadBinds(Archives[p], d[Doc[p]], d[Doc[p]], Binaries[p])
                      /\ b.receipt[p] = [sha |-> Archives[p], producer |-> d[Doc[p]]]
    OBVIOUS
  <2>1. d[Doc[p]] = raw[Doc[p]] /\ Archives[p] = raw[Apk[p]] /\ Binaries[p] = raw[Bin[p]]
    BY <1>4, <1>7
  <2>2. raw[Doc[p]] = raw[Apk[p]].native /\ raw[Bin[p]] = raw[Apk[p]].native
    BY <1>6 DEF Bound
  <2>3. b.receipt[p] = [sha |-> raw[Apk[p]], producer |-> raw[Doc[p]]]
    BY <1>6, <1>7
  <2> QED BY <2>1, <2>2, <2>3 DEF PayloadBinds
<1>13. b.staging >= Staging(Archives, Binaries)
  BY <1>6, StagingIsNat DEF ReasonInv
<1>14. VariantsAccept(d, tool.dev)
  BY <1>1, <1>3, <1>5, <1>6, <1>8, <1>9, <1>10, <1>11, <1>12, <1>13, PartsAre
  DEF VariantsAccept, b
<1>15. d["catalog"].row = VariantRow(d)
  <2>1. raw["catalog"].row = RowOf(b)
    BY <1>1 DEF Vetted, b
  <2>2. VariantRow(d) = RowOf(b)
    BY <1>3, <1>6, PartsAre DEF VariantRow, RowOf
  <2> QED BY <1>3, <2>1, <2>2
<1> QED BY <1>1, <1>3, <1>14, <1>15 DEF BundleAccepts, d

LEMMA PublishBundleReason ==
  ASSUME ReasonInv, PublishBundle
  PROVE  ReasonInv'
<1>1. /\ tool.pc = "verify" /\ tool.run = "assemble" /\ FiveInv' /\ tool.dev \in BOOLEAN
  BY Publishes
  DEF PublishBundle, ReasonInv, PlaceOK, Docs, Dumping, Payloads, Indexed, Digested,
      Covered, Measured
<1>2. CASE ~BundleAccepts(tool.copy, tool.dev)
  <2>1. Refuse
    BY <1>2 DEF PublishBundle
  <2>2. ~touched => Reason
    BY <1>1, <1>2, CopyPasses DEF Reason
  <2> QED BY <1>1, <2>1, <2>2, RefusesFor
<1>3. CASE BundleAccepts(tool.copy, tool.dev)
  <2>1. /\ tool' = [Idle EXCEPT !.pc = "done", !.run = tool.run, !.dev = tool.dev]
        /\ raw' = raw /\ told' = told /\ touched' = touched
    BY <1>3 DEF PublishBundle, Ends
  <2>2. DOMAIN raw' = RawNames /\ \A f \in RawNames \ {"budget", "catalog"} : raw'[f] = raw[f]
    BY <2>1 DEF ReasonInv, RawOK
  <2>3. /\ RawOK' /\ ((Coherent(raw))' <=> Coherent(raw))
        /\ \A v \in Terms : TrueBudget(v)' = TrueBudget(v)
    BY <2>1, <2>2, KeepsMeasured DEF ReasonInv
  <2>4. ~touched' => BudgetTrue'
    BY <2>1, <2>3 DEF ReasonInv, Alone, BudgetTrue
  <2>5. raw'["catalog"] # Nothing => Vetted(raw'["catalog"])
    BY <2>1 DEF ReasonInv, CatalogRepeats
  <2> QED BY <1>1, <2>1, <2>3, <2>4, <2>5, HoldsNothing
<1> QED BY <1>2, <1>3

LEMMA StartToolReason ==
  ASSUME ReasonInv, NEW run \in {"budget", "catalog", "assemble"}, NEW dev \in BOOLEAN,
         StartTool(run, dev), FiveInv'
  PROVE  ReasonInv'
<1> DEFINE first == [budget |-> "parse", catalog |-> "hash", assemble |-> "select"]
<1>1. /\ tool' = [Idle EXCEPT !.pc = first[run], !.run = run, !.dev = dev]
      /\ raw' \in {raw} \cup IF run = "assemble" THEN {} ELSE {[raw EXCEPT ![run] = Nothing]}
      /\ touched' = IF run = "budget" /\ raw'["budget"] = Nothing THEN FALSE ELSE touched
      /\ told' = told
  BY DEF StartTool
<1>2. /\ first[run] \in {"parse", "hash", "select", "done"}
      /\ first[run] = "parse" => run = "budget"
      /\ first[run] = "hash" => run = "catalog"
      /\ first[run] = "select" => run = "assemble"
  OBVIOUS
<1> HIDE DEF first
<1>3. raw' = raw \/ (run # "assemble" /\ raw' = [raw EXCEPT ![run] = Nothing])
  BY <1>1
<1>4. /\ DOMAIN raw' = RawNames
      /\ \A f \in RawNames \ {"budget", "catalog"} : raw'[f] = raw[f]
      /\ raw'["budget"] = raw["budget"] \/ raw'["budget"] = Nothing
      /\ raw'["catalog"] = raw["catalog"] \/ raw'["catalog"] = Nothing
  BY <1>3 DEF ReasonInv, RawOK, RawNames
<1>5. /\ RawOK' /\ ((Coherent(raw))' <=> Coherent(raw))
      /\ \A v \in Terms : TrueBudget(v)' = TrueBudget(v)
  BY <1>1, <1>4, KeepsMeasured DEF ReasonInv
<1>6. ~touched' => BudgetTrue'
  BY <1>1, <1>4, <1>5 DEF ReasonInv, Alone, BudgetTrue
<1>7. raw'["catalog"] # Nothing => Vetted(raw'["catalog"])
  BY <1>4 DEF ReasonInv, CatalogRepeats
<1> QED BY <1>1, <1>2, <1>5, <1>6, <1>7, HoldsNothing

(* Where neither the tools nor what they read change.                        *)
LEMMA ReasonStays ==
  ASSUME ReasonInv, Keeps, tool' = tool, FiveInv'
  PROVE  ReasonInv'
<1>1. /\ RawOK' /\ (BudgetTrue' <=> BudgetTrue) /\ Received' = Received
      /\ (Coherent(raw))' <=> Coherent(raw)
  BY KeepsFiles DEF ReasonInv
<1>2. PlaceOK' /\ HandsOK'
  BY DEF ReasonInv, PlaceOK, HandsOK
<1>3. CatalogRepeats'
  BY DEF ReasonInv, CatalogRepeats, Vetted, RowOf, Keeps
<1>4. raw' = raw /\ told' = told /\ touched' = touched /\ published' = published
  BY DEF Keeps
<1>5. ASSUME ~touched PROVE  /\ DocsTrue' /\ PackagesTrue' /\ BindingsTrue'
                             /\ PayloadsTrue' /\ CopiesTrue' /\ Found'
  <2>1. DocsTrue'
    BY <1>4, <1>5 DEF ReasonInv, Alone, DocsTrue, Catalogs, Part
  <2>2. PackagesTrue'
    BY <1>4, <1>5 DEF ReasonInv, Alone, PackagesTrue, Part
  <2>3. BindingsTrue'
    BY <1>4, <1>5 DEF ReasonInv, Alone, BindingsTrue, Catalogs
  <2>4. PayloadsTrue'
    BY <1>1, <1>4, <1>5 DEF ReasonInv, Alone, PayloadsTrue, Catalogs, Part
  <2>5. CopiesTrue'
    BY <1>4, <1>5 DEF ReasonInv, Alone, CopiesTrue
  <2>6. Found'
    BY <1>4, <1>5 DEF ReasonInv, Alone, Found, Bound, Digests, Fact, Part
  <2> QED BY <2>1, <2>2, <2>3, <2>4, <2>5, <2>6
<1>6. Reason' <=> Reason
  BY <1>1, <1>4 DEF Reason, Policy
<1>7. Alone'
  BY <1>1, <1>4, <1>5, <1>6 DEF ReasonInv, Alone
<1> QED BY <1>1, <1>2, <1>3, <1>7 DEF ReasonInv

LEMMA RebuildReason ==
  ASSUME ReasonInv, made \in Nat, Rebuild, FiveInv'
  PROVE  ReasonInv' /\ made' \in Nat
<1> DEFINE f == BuildOrder[(made % Len(BuildOrder)) + 1]
           edition == (made \div Len(BuildOrder)) + 2
           content == CASE f = "core.apk" -> [ed |-> edition, native |-> raw["core.json"]]
                        [] f = "server.apk" -> [ed |-> edition, native |-> raw["server.json"]]
                        [] f = "index" -> Listed(raw)
                        [] f = "auth" -> [apk |-> Listed(raw), index |-> raw["index"]]
                        [] OTHER -> edition
<1>1. made' \in Nat /\ tool' = tool
  BY DEF Rebuild
<1>2. edition \in Nat /\ (made % Len(BuildOrder)) + 1 \in 1..9
  BY BuildOrderIs
<1>3. f \in RawNames \ {"budget", "catalog"}
  <2>1. \A n \in 1..9 : n \in {1, 2, 3, 4, 5, 6, 7, 8, 9}
    OBVIOUS
  <2>2. \A n \in 1..9 : BuildOrder[n] \in RawNames \ {"budget", "catalog"}
    BY <2>1, BuildOrderIs DEF RawNames
  <2> QED BY <1>2, <2>2
<1>4. CASE UNCHANGED <<raw, touched>>
  <2>1. Keeps
    BY <1>4 DEF Rebuild, Keeps
  <2> QED BY <1>1, <2>1, ReasonStays
<1>5. CASE ~(UNCHANGED <<raw, touched>>)
  <2>1. raw' = [raw EXCEPT ![f] = content] /\ touched' = TRUE
    BY <1>5 DEF Rebuild
  <2> HIDE DEF f, edition
  <2>2. /\ f \in {"core.json", "server.json", "capabilities.json", "core.bin", "server.bin"} =>
             content = edition
        /\ f \in {"core.apk", "server.apk"} => content \in Editions
        /\ f = "index" => content \in [PartNames -> Editions]
        /\ f = "auth" => content \in [apk : [PartNames -> Editions], index : [PartNames -> Editions]]
    <3>1. /\ raw["core.json"] \in Nat /\ raw["server.json"] \in Nat
          /\ raw["index"] \in [PartNames -> Editions]
      BY DEF ReasonInv, RawOK
    <3>2. Listed(raw) \in [PartNames -> Editions]
      BY PartFiles DEF ReasonInv, Listed
    <3> QED BY <1>2, <3>1, <3>2 DEF Editions
  <2> HIDE DEF content
  <2>3. /\ DOMAIN raw' = RawNames
        /\ \A g \in RawNames : raw'[g] = IF g = f THEN content ELSE raw[g]
    BY <2>1 DEF ReasonInv, RawOK
  <2>4. RawOK'
    BY <1>2, <1>3, <2>2, <2>3 DEF ReasonInv, RawOK, RawNames
  <2>5. PlaceOK' /\ HandsOK'
    BY <1>1 DEF ReasonInv, PlaceOK, HandsOK
  <2>6. raw'["catalog"] = raw["catalog"]
    BY <1>3, <2>3 DEF RawNames
  <2>7. CatalogRepeats'
    BY <1>1, <2>6 DEF ReasonInv, CatalogRepeats, Vetted, RowOf
  <2>8. Alone'
    BY <2>1 DEF Alone
  <2> QED BY <1>1, <2>4, <2>5, <2>7, <2>8 DEF ReasonInv
<1> QED BY <1>4, <1>5

LEMMA ReasonKept ==
  ASSUME ReasonInv, made \in Nat, [RNext]_rvars
  PROVE  ReasonInv' /\ made' \in Nat
<1>1. LNext \/ UNCHANGED lvars
  BY DEF RNext, rvars
<1>2. FiveInv'
  BY <1>1, FiveKeeps DEF ReasonInv
<1>3. CASE UNCHANGED lvars
  <2>1. Keeps /\ tool' = tool /\ made' = made
    BY <1>3 DEF lvars, Keeps
  <2> QED BY <1>2, <2>1, ReasonStays
<1>4. CASE Rebuild
  BY <1>2, <1>4, RebuildReason
<1>5. ASSUME NEW run \in {"budget", "catalog", "assemble"}, NEW dev \in BOOLEAN, StartTool(run, dev)
      PROVE  ReasonInv' /\ made' \in Nat
  <2>1. made' = made
    BY <1>5 DEF StartTool
  <2> QED BY <1>2, <1>5, <2>1, StartToolReason
<1>6. CASE ToolRuns
  <2>1. made' = made
    BY <1>6
    DEF ToolRuns, HashDocument, ParseDocument, ReadBudget, DumpPackage, HashPackage,
        ReadAuth,
           CheckSchema, DigestAsset, DumpIndex, FetchPackage, CheckVolatile, ExtractPayload,
           CheckPayload, WriteReceipt, WriteBudget, WriteCatalog, SelectAssets, CopyAsset,
           PublishBundle, To, Refuse, OthersThanTool
  <2>2. ReasonInv'
    BY <1>6, HashDocumentReason, ParseDocumentReason, ReadBudgetReason, DumpPackageReason,
       HashPackageReason, ReadAuthReason, CheckSchemaReason, DigestAssetReason,
           DumpIndexReason,
       FetchPackageReason, CheckVolatileReason, ExtractPayloadReason, CheckPayloadReason,
       WriteReceiptReason, WriteBudgetReason, WriteCatalogReason, SelectAssetsReason,
       CopyAssetReason, PublishBundleReason DEF ToolRuns
  <2> QED BY <2>1, <2>2
<1> QED BY <1>1, <1>3, <1>4, <1>5, <1>6 DEF LNext

LEMMA ReasonStarts ==
  ASSUME LInit
  PROVE  ReasonInv /\ made \in Nat
<1>1. /\ tool = Idle /\ raw = FirstEdition /\ made = 0 /\ FiveInv
  BY FiveStarts DEF LInit
<1>2. /\ tool.pc = "idle" /\ tool.at = 1 /\ tool.run = "none"
  BY <1>1 DEF Idle
<1> DEFINE p == [ed |-> 1, native |-> 1]
           rows == [q \in PartNames |-> p]
<1>3. {BuildOrder[n] : n \in DOMAIN BuildOrder} \cup {"budget", "catalog"} = RawNames
  <2>1. \A n \in 1..9 : n \in {1, 2, 3, 4, 5, 6, 7, 8, 9}
    OBVIOUS
  <2>2. \A n \in DOMAIN BuildOrder : BuildOrder[n] \in RawNames
    BY <2>1, BuildOrderIs DEF RawNames
  <2>3. ASSUME NEW f \in RawNames \ {"budget", "catalog"}
        PROVE  \E n \in DOMAIN BuildOrder : BuildOrder[n] = f
    BY BuildOrderIs DEF RawNames
  <2>4. "budget" \in RawNames /\ "catalog" \in RawNames
    BY DEF RawNames
  <2> QED BY <2>2, <2>3, <2>4
<1>4. raw = [f \in RawNames |->
               CASE f \in {"core.apk", "server.apk"} -> p
                 [] f = "index" -> rows
                 [] f = "auth" -> [apk |-> rows, index |-> rows]
                 [] f \in {"budget", "catalog"} -> Nothing
                 [] OTHER -> 1]
  BY <1>1, <1>3 DEF FirstEdition
<1>5. p \in Editions /\ rows \in [PartNames -> Editions]
  BY DEF Editions
<1> HIDE DEF p, rows
<1>6. RawOK /\ raw["budget"] = Nothing /\ raw["catalog"] = Nothing
  <2>1. DOMAIN raw = RawNames
    BY <1>4
  <2>2. \A f \in {"core.json", "server.json", "capabilities.json", "core.bin", "server.bin"} :
          f \in RawNames /\ raw[f] = 1
    BY <1>4 DEF RawNames
  <2>3. raw["core.apk"] = p /\ raw["server.apk"] = p
    BY <1>4 DEF RawNames
  <2>4. raw["index"] = rows /\ raw["auth"] = [apk |-> rows, index |-> rows]
    BY <1>4 DEF RawNames
  <2>5. raw["budget"] = Nothing /\ raw["catalog"] = Nothing
    BY <1>4 DEF RawNames
  <2> QED BY <1>5, <2>1, <2>2, <2>3, <2>4, <2>5 DEF RawOK
<1>7. PlaceOK
  <2>1. tool.dev \in BOOLEAN
    BY <1>1, Zenon DEF Idle
  <2> QED BY <1>2, <2>1 DEF PlaceOK, Docs, Dumping, Payloads, Indexed, Digested, Covered,
      Measured
<1>8. HandsOK
  BY <1>1, HandsIdle DEF HandsOK
<1>9. CatalogRepeats
  BY <1>2, <1>6 DEF CatalogRepeats
<1>10. BudgetTrue /\ DocsTrue /\ PackagesTrue
  BY <1>2, <1>6
  DEF BudgetTrue, DocsTrue, PackagesTrue, Catalogs, Docs, Dumping, Payloads, Indexed,
      Digested, Covered, Measured
<1>11. BindingsTrue /\ PayloadsTrue /\ CopiesTrue /\ Found
  BY <1>2
  DEF BindingsTrue, PayloadsTrue, CopiesTrue, Found, Catalogs, Docs, Dumping, Payloads,
      Indexed, Digested, Covered, Measured
<1> QED BY <1>1, <1>2, <1>6, <1>7, <1>8, <1>9, <1>10, <1>11 DEF ReasonInv, Alone

(* With nobody writing meanwhile, no tool of the five-role line refuses what *)
(* the one before it wrote, however often tools are started and whatever was *)
(* built before.                                                             *)
THEOREM RefusalsHaveReasons == RSpec => []RefusalHasAReason
<1> DEFINE IInv == ReasonInv /\ made \in Nat
<1>1. RInit => IInv
  BY ReasonStarts DEF RInit
<1>2. IInv /\ [RNext]_rvars => IInv'
  BY ReasonKept
<1>3. IInv => RefusalHasAReason
  BY DEF ReasonInv, Alone, Reason, RefusalHasAReason
<1> HIDE DEF IInv
<1> QED BY <1>1, <1>2, <1>3, PTL DEF RSpec

=============================================================================
