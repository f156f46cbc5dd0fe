------------------------------ MODULE Compact ------------------------------
(* The compact release line (schema 2): engines come as packages of their    *)
(* own.  tools/build-engine-catalog.py makes the engine catalog that the     *)
(* base package embeds, tools/compact-install-bundle.py assembles and        *)
(* rechecks a bundle.                                                        *)
(*                                                                           *)
(* The files they read may be built anew, file by file, at any moment.  A    *)
(* digest is the content it was taken of.  An engine package is its own      *)
(* build and the slot it installs; its file name tells the slot, and a slot  *)
(* is of one source commit, of the same number.                              *)
EXTENDS Naturals, Sequences

CONSTANTS
  CMaxEdition,   \* builds of the release directory
  CMaxSpared,    \* files a build may leave as they are
  CMaxStarts     \* tools the operator starts

ASSUME CompactAssumption ==
  CMaxEdition \in Nat \ {0} /\ {CMaxSpared, CMaxStarts} \subseteq Nat

VARIABLES
  crate,      \* the release directory: file -> content
  cmade,      \* files the build has gone through
  cspared,    \* those it has not written
  ctool,      \* the tool that is running and what it has read
  cstarts,    \* tools started so far
  wanted,     \* the operator's --development and --core-commit
  bundle      \* the output of compact-install-bundle.py

cvars == <<crate, cmade, cspared, ctool, cstarts, wanted, bundle>>

Engines == <<"e1", "e2">>
EngineNames == {"e1", "e2"}
CBuildOrder == <<"e1", "e2", "index", "base", "universe", "catalog">>
CFiles == {"e1", "e2", "index", "engines", "base", "universe", "catalog"}
CCopyOrder == <<"base", "e1", "e2", "engines", "index", "catalog", "universe">>
CNone == [none |-> TRUE]

EnginesOf(d) == [e \in EngineNames |-> d[e]]
(* One catalog entry: the slot, the archive's and the index's digest.        *)
Entry(package, sha, index) == [slot |-> package.slot, sha |-> sha, index |-> index]
UniverseOf(d) == [f \in {"e1", "e2", "index", "base"} |-> d[f]]

CFirst ==
  LET p == [slot |-> 1, ed |-> 1]
      rows == [e \in EngineNames |-> p]
      engines == [e \in EngineNames |-> Entry(p, p, rows)]
      universe == [f \in {"e1", "e2", "index", "base"} |->
                     CASE f = "index" -> rows [] f = "base" -> engines [] OTHER -> p] IN
  [f \in CFiles |->
     CASE f \in EngineNames -> p
       [] f = "index" -> rows
       [] f \in {"engines", "base"} -> engines
       [] f = "universe" -> universe
       [] OTHER -> [dev |-> FALSE, engines |-> engines, universe |-> universe]]

CIdle == [pc |-> "idle", at |-> 1, slot |-> <<>>, index |-> CNone,
          repo |-> CNone, sha |-> CNone, entries |-> <<>>, copy |-> <<>>]

CInit ==
  /\ crate = CFirst /\ cmade = 0 /\ cspared = 0
  /\ ctool = CIdle /\ cstarts = 0
  /\ wanted \in [dev : BOOLEAN, commit : 1..CMaxEdition]
  /\ bundle = CNone

-----------------------------------------------------------------------------
(* The build goes through the files in order and writes or spares each.  An  *)
(* engine is packed again from its slot or from a slot of another commit;    *)
(* the index lists, the universe and the catalog pin what they find, and the *)
(* base package embeds the engine catalog it finds.                          *)
CRebuild ==
  LET f == CBuildOrder[(cmade % Len(CBuildOrder)) + 1]
      edition == (cmade \div Len(CBuildOrder)) + 2 IN
  /\ edition <= CMaxEdition
  /\ cmade' = cmade + 1
  /\ \/ /\ cspared < CMaxSpared /\ cspared' = cspared + 1
        /\ UNCHANGED crate
     \/ /\ \E content \in
             CASE f \in EngineNames -> {[slot |-> slot, ed |-> edition] : slot \in {1, edition}}
               [] f = "index" -> {EnginesOf(crate)}
               [] f = "base" -> {crate["engines"]}
               [] f = "universe" -> {UniverseOf(crate)}
               [] OTHER -> {[dev |-> dev, engines |-> crate["engines"],
                             universe |-> crate["universe"]] : dev \in BOOLEAN} :
             crate' = [crate EXCEPT ![f] = content]
        /\ UNCHANGED cspared
  /\ UNCHANGED <<ctool, cstarts, wanted, bundle>>

OthersThanCTool == UNCHANGED <<cmade, cspared, cstarts, wanted>>
CEnds(pc) == ctool' = [CIdle EXCEPT !.pc = pc]
CRefuse == CEnds("refused") /\ UNCHANGED <<crate, bundle>> /\ OthersThanCTool
CTo(t) == ctool' = t /\ UNCHANGED <<crate, bundle>> /\ OthersThanCTool
CStep(t, names, here, after) ==
  IF t.at < Len(names) THEN [t EXCEPT !.pc = here, !.at = @ + 1]
  ELSE [t EXCEPT !.pc = after, !.at = 1]

(* The engine catalog is written to a new name; an operator who starts over  *)
(* removes the old one.                                                      *)
CStartTool(pc) ==
  /\ ctool.pc \in {"idle", "refused", "done"} /\ cstarts < CMaxStarts
  /\ cstarts' = cstarts + 1
  /\ ctool' = [CIdle EXCEPT !.pc = pc]
  /\ crate' \in {crate} \cup IF pc = "begin" THEN {[crate EXCEPT !["engines"] = CNone]} ELSE {}
  /\ UNCHANGED <<cmade, cspared, wanted, bundle>>

-----------------------------------------------------------------------------
(* build-engine-catalog.py main().  The archives are given by name; signature,*)
(* path and ACL checks, the same for every content here, always pass.        *)
Engine == Engines[ctool.at]

CatalogBegin ==
  /\ ctool.pc = "begin"
  /\ IF crate["engines"] # CNone THEN CRefuse
     ELSE CTo([ctool EXCEPT !.pc = "index",
                 !.slot = [e \in EngineNames |-> crate[e].slot],
                 !.entries = [e \in EngineNames |-> CNone],
                 !.copy = [e \in EngineNames |-> CNone]])

CatalogIndex ==
  /\ ctool.pc = "index"
  /\ CTo([ctool EXCEPT !.pc = "repo", !.index = crate["index"]])

CatalogRepository ==
  /\ ctool.pc = "repo"
  /\ CTo([ctool EXCEPT !.pc = "archive", !.repo = crate["index"]])

CatalogCopy ==
  /\ ctool.pc = "archive"
  /\ IF crate[Engine].slot # ctool.slot[Engine] THEN CRefuse
     ELSE CTo(CStep([ctool EXCEPT !.copy[Engine] = crate[Engine]], Engines, "archive", "digest"))

CatalogDigest ==
  /\ ctool.pc = "digest"
  /\ IF crate[Engine].slot # ctool.slot[Engine] THEN CRefuse
     ELSE CTo([ctool EXCEPT !.pc = "fetch", !.sha = crate[Engine]])

(* validate_unique_index_entry(): the slot is part of the package name.  The *)
(* native fetch compares the copied archive with the copied index, then the  *)
(* digests are compared.                                                     *)
CatalogFetch ==
  /\ ctool.pc = "fetch"
  /\ IF /\ ctool.index[Engine].slot = ctool.slot[Engine]
        /\ ctool.copy[Engine] = ctool.repo[Engine]
        /\ ctool.copy[Engine] = ctool.sha
       THEN CTo([ctool EXCEPT !.pc = "extract"])
       ELSE CRefuse

X_CatalogExtract ==
  LET e == Engine IN
  /\ ctool.pc = "extract"
  /\ IF crate[e].slot = wanted.commit
       THEN CTo(CStep([ctool EXCEPT !.entries[e] = Entry(crate[e], ctool.sha, crate["index"])],
                      Engines, "digest", "write"))
       ELSE CRefuse
(* The archive and the index are read once more for the entry.               *)
CatalogExtract ==
  LET e == Engine IN
  /\ ctool.pc = "extract"
  /\ IF crate[e].slot = ctool.slot[e] /\ crate[e].slot = wanted.commit
       THEN CTo(CStep([ctool EXCEPT !.entries[e] = Entry(crate[e], ctool.sha, crate["index"])],
                      Engines, "digest", "write"))
       ELSE CRefuse

CatalogWrite ==
  /\ ctool.pc = "write"
  /\ crate' = [crate EXCEPT !["engines"] = ctool.entries]
  /\ CEnds("done") /\ UNCHANGED bundle /\ OthersThanCTool

-----------------------------------------------------------------------------
(* compact-install-bundle.py                                                 *)

(* engine_artifact_rows() and assets() on the files of directory d.          *)
AssetsAgree(d, catalog) ==
  /\ catalog # CNone /\ d["engines"] # CNone
  /\ d["engines"] = catalog.engines /\ d["universe"] = catalog.universe
  /\ \A e \in EngineNames : d["engines"][e].sha = d[e]
  /\ d["universe"] = UniverseOf(d)

X_PayloadsAgree(d, commit) ==
  /\ \A e \in EngineNames : d["engines"][e].index = d["index"]
  /\ d["engines"] = [e \in EngineNames |-> Entry(d[e], d[e], d["index"])]
  /\ \A e \in EngineNames : d["index"][e] = d[e] /\ d[e].slot = commit
(* verify_payloads(): one index, the catalog this base package embeds, and   *)
(* the catalog that comes out of build-engine-catalog.py again.              *)
PayloadsAgree(d, commit) ==
  /\ d["base"] = d["engines"]
  /\ \A e \in EngineNames : d["engines"][e].index = d["index"]
  /\ d["engines"] = [e \in EngineNames |-> Entry(d[e], d[e], d["index"])]
  /\ \A e \in EngineNames : d["index"][e] = d[e] /\ d[e].slot = commit

(* verify(): every selection of engines is planned, its packages are compared*)
(* with the universe and go through indexed.verify() with the index.         *)
ClosuresAgree(d) == \A e \in EngineNames : d["universe"][e] = d[e] /\ d["index"][e] = d[e]

CompactAccepts(d, dev, commit) ==
  /\ d["catalog"].dev = dev
  /\ AssetsAgree(d, d["catalog"])
  /\ PayloadsAgree(d, commit)
  /\ ClosuresAgree(d)

CompactSelect ==
  /\ ctool.pc = "select"
  /\ IF bundle = CNone /\ AssetsAgree(crate, crate["catalog"])
       THEN CTo([ctool EXCEPT !.pc = "copy", !.copy = [f \in CFiles |-> CNone],
                   !.slot = [e \in EngineNames |-> crate[e].slot]])
       ELSE CRefuse

CompactCopy ==
  LET f == CCopyOrder[ctool.at] IN
  /\ ctool.pc = "copy"
  /\ IF f \in EngineNames /\ crate[f].slot # ctool.slot[f] THEN CRefuse
     ELSE CTo(CStep([ctool EXCEPT !.copy[f] = crate[f]], CCopyOrder, "copy", "verify"))

(* The copy is verified, gets its SHA256SUMS and is renamed.                 *)
CompactPublish ==
  /\ ctool.pc = "verify"
  /\ IF CompactAccepts(ctool.copy, wanted.dev, wanted.commit)
       THEN /\ bundle' = ctool.copy /\ CEnds("done")
            /\ UNCHANGED crate /\ OthersThanCTool
       ELSE CRefuse

-----------------------------------------------------------------------------
CToolRuns ==
  \/ CatalogBegin \/ CatalogIndex \/ CatalogRepository \/ CatalogCopy \/ CatalogDigest
  \/ CatalogFetch \/ CatalogExtract \/ CatalogWrite
  \/ CompactSelect \/ CompactCopy \/ CompactPublish

CNext == CRebuild \/ CStartTool("begin") \/ CStartTool("select") \/ CToolRuns

-----------------------------------------------------------------------------
(* A compact bundle is of one source: its engines have one commit, the index *)
(* lists exactly them, the catalog pins exactly them in this index, and this *)
(* catalog is the one the base package embeds.                               *)
OneSource(d) ==
  /\ d["e1"].slot = d["e2"].slot
  /\ d["index"] = EnginesOf(d) /\ d["base"] = d["engines"]
  /\ d["engines"] = [e \in EngineNames |-> Entry(d[e], d[e], d["index"])]

(* A catalog entry pins an archive of the very slot it describes, although   *)
(* archive and index are read several times for it.                          *)
(* (build-engine-catalog.py main())                                          *)
EntryIsOfItsSlot ==
  crate["engines"] # CNone =>
    \A e \in EngineNames : crate["engines"][e].slot = crate["engines"][e].sha.slot

=============================================================================
