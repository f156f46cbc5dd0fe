------------------------------ MODULE Signing ------------------------------
(* tools/sign-apks.py signs a directory of package candidates, and           *)
(* tools/stage-apk-assets.py gives signed packages the names they have in a  *)
(* release.                                                                  *)
(*                                                                           *)
(* A candidate may be built anew while it is being signed, two signing runs  *)
(* may be given one output directory, staging may start before signing has   *)
(* ended, and a signing run may be killed.  A package is the number of the   *)
(* build its content is of, and whether it is signed: that pair is its       *)
(* digest, the number alone the digest of its normalised content.            *)
EXTENDS Naturals, Sequences

CONSTANTS
  Packages,      \* the candidates' file names, in the order of sorted()
  Signers,       \* runs of sign-apks.py with the same --output
  MaxBuild       \* builds of one candidate

ASSUME SigningAssumption ==
  /\ Packages \in Seq(STRING) /\ Len(Packages) > 0 /\ MaxBuild \in Nat \ {0}
  /\ \A m, n \in DOMAIN Packages : Packages[m] = Packages[n] => m = n
  /\ "nobody" \notin Signers

VARIABLES
  cand,       \* the candidate directory
  signer,     \* the signing processes
  madeBy,     \* who created the output directory
  signed,     \* the packages in it
  record,     \* APK-SIGNATURES.json
  stager,     \* the staging process
  staged,     \* the files it copied, and the digests they are named after
  assets      \* apk-assets.json

svars == <<cand, signer, madeBy, signed, record, stager, staged, assets>>

PackageNames == {Packages[n] : n \in DOMAIN Packages}
NoSigner == "nobody"
NoPackage == [build |-> 0, sig |-> FALSE]
NoRow == [unsigned |-> NoPackage, signed |-> NoPackage, content |-> 0]
NoAsset == [version |-> 0, sha |-> NoPackage]

SInit ==
  /\ cand = [p \in PackageNames |-> 1]
  /\ signer = [s \in Signers |-> [pc |-> "start", at |-> 1, norm |-> 0,
                                  rows |-> [p \in PackageNames |-> NoRow]]]
  /\ madeBy = NoSigner
  /\ signed = [p \in PackageNames |-> NoPackage]
  /\ record = [p \in PackageNames |-> NoRow]
  /\ stager = [pc |-> "list", at |-> 1, todo |-> {},
               rows |-> [p \in PackageNames |-> NoAsset]]
  /\ staged = [p \in PackageNames |-> NoPackage]
  /\ assets = [p \in PackageNames |-> NoAsset]

Recandidate(p) ==
  /\ cand[p] < MaxBuild
  /\ cand' = [cand EXCEPT ![p] = @ + 1]
  /\ UNCHANGED <<signer, madeBy, signed, record, stager, staged, assets>>

-----------------------------------------------------------------------------
(* sign()                                                                    *)

Signing(s) == Packages[signer[s].at]
SignerGoto(s, pc) == signer' = [signer EXCEPT ![s].pc = pc]
OthersThanSigner == UNCHANGED <<cand, stager, staged, assets>>

(* The key pair has been compared; mkdir() refuses a directory that exists.  *)
X_SignBegin(s) ==
  /\ signer[s].pc = "start"
  /\ SignerGoto(s, "copy") /\ madeBy' = s
  /\ UNCHANGED <<signed, record>> /\ OthersThanSigner
SignBegin(s) ==
  /\ signer[s].pc = "start"
  /\ IF madeBy = NoSigner
       THEN SignerGoto(s, "copy") /\ madeBy' = s
       ELSE SignerGoto(s, "refused") /\ UNCHANGED madeBy
  /\ UNCHANGED <<signed, record>> /\ OthersThanSigner

SignCopy(s) ==
  /\ signer[s].pc = "copy"
  /\ SignerGoto(s, "sign")
  /\ signed' = [signed EXCEPT ![Signing(s)] = [build |-> cand[Signing(s)], sig |-> FALSE]]
  /\ UNCHANGED <<madeBy, record>> /\ OthersThanSigner

(* apk adbsign, and apk verify with the public key alone.                    *)
SignOne(s) ==
  /\ signer[s].pc = "sign"
  /\ SignerGoto(s, "normalize")
  /\ signed' = [signed EXCEPT ![Signing(s)].sig = TRUE]
  /\ UNCHANGED <<madeBy, record>> /\ OthersThanSigner

(* The candidate is read a second time for its normalised content ...        *)
Normalize(s) ==
  /\ signer[s].pc = "normalize"
  /\ signer' = [signer EXCEPT ![s].pc = "compare", ![s].norm = cand[Signing(s)]]
  /\ UNCHANGED <<madeBy, signed, record>> /\ OthersThanSigner

CompareContent(s) ==
  /\ signer[s].pc = "compare"
  /\ SignerGoto(s, IF signer[s].norm = signed[Signing(s)].build THEN "row" ELSE "refused")
  /\ UNCHANGED <<madeBy, signed, record>> /\ OthersThanSigner

(* ... and a third time for the record, which may thus name the digest of a  *)
(* later candidate as "unsigned".                                            *)
RecordRow(s) ==
  LET p == Signing(s)
      last == signer[s].at = Len(Packages) IN
  /\ signer[s].pc = "row"
  /\ signer' = [signer EXCEPT
       ![s].rows[p] = [unsigned |-> [build |-> cand[p], sig |-> FALSE],
                       signed |-> signed[p], content |-> signer[s].norm],
       ![s].pc = IF last THEN "record" ELSE "copy",
       ![s].at = IF last THEN @ ELSE @ + 1]
  /\ UNCHANGED <<madeBy, signed, record>> /\ OthersThanSigner

WriteRecord(s) ==
  /\ signer[s].pc = "record"
  /\ SignerGoto(s, "done")
  /\ record' = signer[s].rows
  /\ UNCHANGED <<madeBy, signed>> /\ OthersThanSigner

SignerKilled(s) ==
  /\ signer[s].pc \notin {"start", "done", "refused", "dead"}
  /\ SignerGoto(s, "dead")
  /\ UNCHANGED <<madeBy, signed, record>> /\ OthersThanSigner

-----------------------------------------------------------------------------
(* stage-apk-assets.py main()                                                *)

StagingFile == Packages[stager.at]
First(files) == {n \in files : \A m \in files : n <= m}
FilesOf(present) == {n \in DOMAIN Packages : Packages[n] \in present}
StageNext(here, after) ==
  LET rest == {n \in FilesOf(stager.todo) : n > stager.at} IN
  IF rest # {} THEN {here} \X First(rest) ELSE {after} \X First(FilesOf(stager.todo))
OthersThanStager == UNCHANGED <<cand, signer, madeBy, signed, record>>

StageList ==
  LET present == {p \in PackageNames : signed[p] # NoPackage} IN
  /\ stager.pc = "list"
  /\ \E n \in First(FilesOf(present)) :
       stager' = [stager EXCEPT !.pc = "dump", !.at = n, !.todo = present]
  /\ UNCHANGED <<staged, assets>> /\ OthersThanStager

(* metadata(): the version from apk adbdump, the digest from a second read.  *)
StageDump ==
  /\ stager.pc = "dump"
  /\ stager' = [stager EXCEPT !.pc = "hash", !.rows[StagingFile].version = signed[StagingFile].build]
  /\ UNCHANGED <<staged, assets>> /\ OthersThanStager

StageHash ==
  /\ stager.pc = "hash"
  /\ \E next \in StageNext("dump", "copy") :
       stager' = [stager EXCEPT !.pc = next[1], !.at = next[2],
                                !.rows[StagingFile].sha = signed[StagingFile]]
  /\ UNCHANGED <<staged, assets>> /\ OthersThanStager

StageCopy ==
  /\ stager.pc = "copy"
  /\ stager' = [stager EXCEPT !.pc = "check"]
  /\ staged' = [staged EXCEPT ![StagingFile] = signed[StagingFile]]
  /\ UNCHANGED assets /\ OthersThanStager

(* The copy must have the digest its name was made of.                       *)
X_StageCheck ==
  /\ stager.pc = "check"
  /\ \E next \in StageNext("copy", "write") :
       stager' = [stager EXCEPT !.pc = next[1], !.at = next[2]]
  /\ UNCHANGED <<staged, assets>> /\ OthersThanStager
StageCheck ==
  /\ stager.pc = "check"
  /\ IF staged[StagingFile] = stager.rows[StagingFile].sha
       THEN \E next \in StageNext("copy", "write") :
              stager' = [stager EXCEPT !.pc = next[1], !.at = next[2]]
       ELSE stager' = [stager EXCEPT !.pc = "refused"]
  /\ UNCHANGED <<staged, assets>> /\ OthersThanStager

StageWrite ==
  /\ stager.pc = "write"
  /\ stager' = [stager EXCEPT !.pc = "done"]
  /\ assets' = stager.rows
  /\ UNCHANGED staged /\ OthersThanStager

-----------------------------------------------------------------------------
SignStep(s) ==
  \/ SignBegin(s) \/ SignCopy(s) \/ SignOne(s) \/ Normalize(s) \/ CompareContent(s)
  \/ RecordRow(s) \/ WriteRecord(s) \/ SignerKilled(s)

StageStep == StageList \/ StageDump \/ StageHash \/ StageCopy \/ StageCheck \/ StageWrite

SNext ==
  \/ \E p \in PackageNames : Recandidate(p)
  \/ \E s \in Signers : SignStep(s)
  \/ StageStep

-----------------------------------------------------------------------------
(* Once APK-SIGNATURES.json is written, every package beside it is signed,   *)
(* is the one whose digest the record tells and has the content it tells:    *)
(* no second signing run and no candidate built anew during the run can      *)
(* change that.  (sign-apks.py sign())                                       *)
SignatureRecordIsTrue ==
  \A p \in PackageNames :
    record[p] # NoRow =>
      /\ signed[p].sig
      /\ record[p].signed = signed[p] /\ record[p].content = signed[p].build

(* A staged package has the digest its name tells and the version its row    *)
(* tells, even when staging overtakes signing.  (stage-apk-assets.py main()) *)
StagedIsWhatItIsCalled ==
  \A p \in PackageNames :
    assets[p] # NoAsset =>
      staged[p] = assets[p].sha /\ staged[p].build = assets[p].version

=============================================================================
