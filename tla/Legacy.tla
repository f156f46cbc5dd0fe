------------------------------- MODULE Legacy -------------------------------
(* The release line of the five package roles (schema 1): one platform, in   *)
(* the RAM mode; the flash mode has no volatile binaries and takes the       *)
(* binary from the package instead.                                          *)
(*                                                                           *)
(* tools/package-budget.py measures a directory of packages, package-        *)
(* catalog.py binds the budget to the native producers, prepare-install-     *)
(* bundle.py copies what the catalog names into a directory of its own and   *)
(* lets verify-install-bundle.py check it; all of them go through            *)
(* indexed-auth.py.  An operator runs them one after another, again after a  *)
(* refusal, and with or without --development, while the packages they read  *)
(* may be built anew, file by file, at any moment.                           *)
(*                                                                           *)
(* A digest is the content it was taken of.  The content of a producer, of   *)
(* capabilities and of a binary is the number of its build; a package is its *)
(* own build and the native build it embeds; an index is what it lists.      *)
EXTENDS Naturals, Sequences

CONSTANTS
  MaxEdition,    \* builds of the release directory
  MaxSpared,     \* files the build may leave as they are
  MaxStarts      \* tools the operator starts

ASSUME LegacyAssumption == MaxEdition \in Nat \ {0} /\ {MaxSpared, MaxStarts} \subseteq Nat

VARIABLES
  raw,         \* the release directory: file -> content
  made,        \* files the build has gone through
  spared,      \* those it has not written
  told,        \* whether a new build shows in versions, protocols and sizes
  tool,        \* the tool that is running and what it has read
  starts,      \* tools started so far
  touched,     \* a file was written since the budget tool began
  published    \* the output of prepare-install-bundle.py

lvars == <<raw, made, spared, told, tool, starts, touched, published>>

Parts == <<"core", "server">>
PartNames == {"core", "server"}
Apk == [core |-> "core.apk", server |-> "server.apk"]
Bin == [core |-> "core.bin", server |-> "server.bin"]
Doc == [core |-> "core.json", server |-> "server.json", caps |-> "capabilities.json"]
Documents == <<"core", "caps", "server">>
BuildOrder == <<"core.json", "core.bin", "capabilities.json", "core.apk",
                "server.json", "server.bin", "server.apk", "index", "auth">>
CopyOrder == <<"core.apk", "server.apk", "budget", "capabilities.json", "core.bin", "core.json",
               "index", "catalog", "server.bin", "server.json">>

Nothing == [none |-> TRUE]
NoReceipt == [sha |-> Nothing, producer |-> 0]
Fact(build) == IF told THEN build ELSE 1
(* What the operator gives the budget tool and it writes down as it is: what *)
(* a release needs, or a firmware version, documents or sizes the catalog    *)
(* does not take, memory evidence without the form it asks for, a            *)
(* provisional policy.                                                       *)
Terms == {"release", "unsupported", "malformed", "provisional"}

Listed(d) == [p \in PartNames |-> d[Apk[p]]]
ApkRow(r) == Fact(r.ed)
FirstEdition ==
  LET p == [ed |-> 1, native |-> 1]
      rows == [q \in PartNames |-> p] IN
  [f \in {BuildOrder[n] : n \in DOMAIN BuildOrder} \cup {"budget", "catalog"} |->
     CASE f \in {"core.apk", "server.apk"} -> p
       [] f = "index" -> rows
       [] f = "auth" -> [apk |-> rows, index |-> rows]
       [] f \in {"budget", "catalog"} -> Nothing
       [] OTHER -> 1]

Idle == [pc |-> "idle", run |-> "none", at |-> 1, dev |-> FALSE,
         hash |-> [d \in DOMAIN Doc |-> 0], parsed |-> [d \in DOMAIN Doc |-> 0],
         dump |-> [p \in PartNames |-> Nothing], sha |-> [p \in PartNames |-> Nothing],
         auth |-> Nothing, index |-> Nothing, payload |-> Nothing,
         volatile |-> [p \in PartNames |-> 0],
         receipt |-> [p \in PartNames |-> NoReceipt], budget |-> Nothing, copy |-> <<>>]

LInit ==
  /\ raw = FirstEdition /\ made = 0 /\ spared = 0
  /\ told \in BOOLEAN
  /\ tool = Idle /\ starts = 0 /\ touched = FALSE
  /\ published = Nothing

-----------------------------------------------------------------------------
(* The build goes through the files in order and writes or spares each; a    *)
(* package embeds the producer it finds, the index lists the packages it     *)
(* finds, the authentication document pins both.                             *)
Rebuild ==
  LET f == BuildOrder[(made % Len(BuildOrder)) + 1]
      edition == (made \div Len(BuildOrder)) + 2 IN
  /\ edition <= MaxEdition
  /\ made' = made + 1
  /\ \/ /\ spared < MaxSpared /\ spared' = spared + 1
        /\ UNCHANGED <<raw, touched>>
     \/ /\ raw' = [raw EXCEPT ![f] =
             CASE f = "core.apk" -> [ed |-> edition, native |-> raw["core.json"]]
               [] f = "server.apk" -> [ed |-> edition, native |-> raw["server.json"]]
               [] f = "index" -> Listed(raw)
               [] f = "auth" -> [apk |-> Listed(raw), index |-> raw["index"]]
               [] OTHER -> edition]
        /\ touched' = TRUE /\ UNCHANGED spared
  /\ UNCHANGED <<told, tool, starts, published>>

OthersThanTool == UNCHANGED <<made, spared, told, starts, touched, published>>
Ends(pc) == tool' = [Idle EXCEPT !.pc = pc, !.run = tool.run, !.dev = tool.dev]
Refuse == Ends("refused") /\ UNCHANGED raw /\ OthersThanTool
Part == Parts[tool.at]

(* On to the next part at the same step, or after the last to another step.  *)
Step(t, names, here, after) ==
  IF t.at < Len(names) THEN [t EXCEPT !.pc = here, !.at = @ + 1]
  ELSE [t EXCEPT !.pc = after, !.at = 1]
To(t) == tool' = t /\ UNCHANGED raw /\ OthersThanTool

(* The budget and the catalog are written to a new name; an operator who     *)
(* starts over removes the old one.                                          *)
StartTool(run, dev) ==
  LET first == [budget |-> "parse", catalog |-> "hash", assemble |-> "select"] IN
  /\ tool.pc \in {"idle", "refused", "done"} /\ starts < MaxStarts
  /\ starts' = starts + 1
  /\ tool' = [Idle EXCEPT !.pc = first[run], !.run = run, !.dev = dev]
  /\ raw' \in {raw} \cup IF run = "assemble" THEN {} ELSE {[raw EXCEPT ![run] = Nothing]}
  /\ touched' = IF run = "budget" /\ raw'["budget"] = Nothing THEN FALSE ELSE touched
  /\ UNCHANGED <<made, spared, told, published>>

-----------------------------------------------------------------------------
(* The checks, as relations between contents.                                *)

(* package-catalog.py: the budget is of these native producers, for firmware *)
(* versions 25.12.N, and no document is above its limit (or names a protocol *)
(* twice or none the catalog knows); the budget tool asks for none of that.  *)
BudgetBinds(b, core, caps, parsed) ==
  /\ b # Nothing /\ b.terms # "unsupported"
  /\ b.core = core /\ b.caps = caps /\ Fact(b.protocols) = Fact(parsed)

RowsAgree(b, dump, sha) ==
  \A p \in PartNames : ApkRow(b.dump[p]) = ApkRow(dump[p]) /\ b.sha[p] = sha[p]

(* indexed-auth.py schema(): one binding per package, of its own identity.   *)
AuthCovers(auth, dump) == \A p \in PartNames : ApkRow(auth.apk[p]) = ApkRow(dump[p])

(* indexed-auth.py verify(): the signed entry is the bound one.              *)
IndexBinds(index, auth, dump) ==
  \A p \in PartNames : index[p] = auth.apk[p] /\ ApkRow(index[p]) = ApkRow(dump[p])

(* verify_core_payload(), verify_server_payload(): receipt, wrapper and      *)
(* licences against the parsed producer, the volatile binary as well.        *)
PayloadBinds(package, producer, doc, binary) ==
  package.native = doc /\ package.native = producer /\ binary = producer

(* Without --development no provisional policy.                              *)
Qualified(b, dev) == dev \/ b.terms # "provisional"
(* memory_policy(): the budget tool asks neither for flags that are booleans *)
(* nor for a description of 4096 characters at most.                         *)
Policy(b, dev) == b.terms # "malformed" /\ Qualified(b, dev)

Sum(f) == f["core"] + f["server"]
(* Twice the archives and once what they unpack to, and the binaries; index  *)
(* and keys, whose size no build changes, are left out.                      *)
Staging(apks, binaries) ==
  3 * Sum([p \in PartNames |-> ApkRow(apks[p])]) + Sum([p \in PartNames |-> Fact(binaries[p])])

(* package-catalog.py variants() on a directory nobody writes to.            *)
VariantsAccept(d, dev) ==
  LET b == d["budget"]
      apks == Listed(d)
      bins == [p \in PartNames |-> d[Bin[p]]] IN
  /\ Fact(d[Doc["caps"]]) = Fact(d[Doc["core"]])
  /\ BudgetBinds(b, d[Doc["core"]], d[Doc["caps"]], d[Doc["core"]])
  /\ RowsAgree(b, apks, apks)
  /\ AuthCovers(b.auth, apks)
  /\ b.auth.apk = apks /\ b.auth.index = d["index"]
  /\ IndexBinds(d["index"], b.auth, apks)
  /\ d["index"] = apks
  /\ b.volatile = bins /\ b.server = d[Doc["server"]]
  /\ \A p \in PartNames :
       /\ PayloadBinds(apks[p], d[Doc[p]], d[Doc[p]], bins[p])
       /\ b.receipt[p] = [sha |-> apks[p], producer |-> d[Doc[p]]]
  /\ Policy(b, dev)
  /\ b.staging >= Staging(apks, bins)

VariantRow(d) ==
  [core |-> d[Doc["core"]], caps |-> d[Doc["caps"]], server |-> d[Doc["server"]],
   budget |-> d["budget"]]

-----------------------------------------------------------------------------
(* The two measuring tools, one read after another.                          *)

(* package-catalog.py document(): the digest first, then the text.           *)
HashDocument ==
  /\ tool.pc = "hash"
  /\ To([tool EXCEPT !.pc = "parse", !.hash[Documents[tool.at]] = raw[Doc[Documents[tool.at]]]])

ParseDocument ==
  LET d == Documents[tool.at]
      next == [tool EXCEPT !.parsed[d] = raw[Doc[d]]] IN
  /\ tool.pc = "parse"
  /\ IF d = "caps" /\ Fact(raw[Doc[d]]) # Fact(tool.parsed["core"]) THEN Refuse
     ELSE To(IF tool.run = "budget" THEN Step(next, <<"core", "caps">>, "parse", "dump")
             ELSE Step(next, Documents, "hash", "budget"))

ReadBudget ==
  /\ tool.pc = "budget"
  /\ IF BudgetBinds(raw["budget"], tool.hash["core"], tool.hash["caps"], tool.parsed["core"])
       THEN To([tool EXCEPT !.pc = "dump", !.budget = raw["budget"], !.auth = raw["budget"].auth])
       ELSE Refuse

(* metadata(): adbdump and stat, then the digest.                            *)
DumpPackage ==
  /\ tool.pc = "dump"
  /\ To([tool EXCEPT !.pc = "sha", !.dump[Part] = raw[Apk[Part]]])

HashPackage ==
  LET next == [tool EXCEPT !.sha[Part] = raw[Apk[Part]]] IN
  /\ tool.pc = "sha"
  /\ IF tool.run = "budget" THEN To(Step(next, Parts, "dump", "auth"))
     ELSE IF tool.at = Len(Parts) /\ ~RowsAgree(tool.budget, next.dump, next.sha) THEN Refuse
     ELSE To(Step(next, Parts, "dump", "schema"))

ReadAuth ==
  /\ tool.pc = "auth"
  /\ To([tool EXCEPT !.pc = "schema", !.auth = raw["auth"]])

CheckSchema ==
  /\ tool.pc = "schema"
  /\ IF AuthCovers(tool.auth, tool.dump) THEN To([tool EXCEPT !.pc = "digest"]) ELSE Refuse

(* verify() compares every pinned digest; the catalog does so once more      *)
(* afterwards.                                                               *)
DigestAsset ==
  LET files == <<"core", "server", "index">>
      f == files[tool.at] IN
  /\ tool.pc \in {"digest", "again"}
  /\ IF IF f = "index" THEN raw["index"] = tool.auth.index ELSE raw[Apk[f]] = tool.auth.apk[f]
       THEN To(Step(tool, files, tool.pc, IF tool.pc = "digest" THEN "index" ELSE "volatile"))
       ELSE Refuse

DumpIndex ==
  /\ tool.pc = "index"
  /\ IF IndexBinds(raw["index"], tool.auth, tool.dump)
       THEN To([tool EXCEPT !.pc = "fetch", !.index = raw["index"]])
       ELSE Refuse

(* The staged names are links to the originals: apk compares what it fetches *)
(* with the index entry, verify() with the row's digest.                     *)
FetchPackage ==
  /\ tool.pc = "fetch"
  /\ IF raw[Apk[Part]] = tool.index[Part] /\ raw[Apk[Part]] = tool.sha[Part]
       THEN To(Step(tool, Parts, "fetch", IF tool.run = "budget" THEN "extract" ELSE "again"))
       ELSE Refuse

X_CheckVolatile ==
  LET next == [tool EXCEPT !.volatile[Part] = IF Part = "core" THEN raw[Bin[Part]] ELSE 0] IN
  /\ tool.pc = "volatile"
  /\ IF tool.run = "budget" THEN To(Step(next, Parts, "volatile", "write"))
     ELSE IF /\ raw[Bin[Part]] = tool.parsed[Part]
             /\ raw[Bin[Part]] = tool.budget.volatile[Part]
            THEN To(Step(next, Parts, "volatile", "extract"))
     ELSE Refuse
(* The core binary and the server binary: digest and size.                   *)
CheckVolatile ==
  LET next == [tool EXCEPT !.volatile[Part] = raw[Bin[Part]]] IN
  /\ tool.pc = "volatile"
  /\ IF tool.run = "budget" THEN To(Step(next, Parts, "volatile", "write"))
     ELSE IF /\ raw[Bin[Part]] = tool.parsed[Part]
             /\ raw[Bin[Part]] = tool.budget.volatile[Part]
             /\ Part = "server" => tool.budget.server = tool.hash["server"]
            THEN To(Step(next, Parts, "volatile", "extract"))
     ELSE Refuse

(* The server's producer is parsed for itself, the core's was before.        *)
ExtractPayload ==
  /\ tool.pc = "extract"
  /\ To([tool EXCEPT !.pc = "payload", !.payload = raw[Apk[Part]],
           !.parsed = IF Part = "server" THEN [@ EXCEPT !["server"] = raw[Doc["server"]]] ELSE @])

CheckPayload ==
  /\ tool.pc = "payload"
  /\ IF PayloadBinds(tool.payload, tool.parsed[Part], raw[Doc[Part]], raw[Bin[Part]])
       THEN To([tool EXCEPT !.pc = "receipt"])
       ELSE Refuse

WriteReceipt ==
  LET next == [tool EXCEPT !.receipt[Part] =
                 [sha |-> raw[Apk[Part]], producer |-> raw[Doc[Part]]]] IN
  /\ tool.pc = "receipt"
  /\ To(Step(next, Parts, "extract", IF tool.run = "budget" THEN "volatile" ELSE "write"))

(* The terms are arguments of the run.                                       *)
WriteBudget ==
  /\ tool.pc = "write" /\ tool.run = "budget"
  /\ IF raw["budget"] # Nothing THEN Refuse
     ELSE /\ \E terms \in Terms : raw' = [raw EXCEPT !["budget"] =
               [protocols |-> tool.parsed["core"], core |-> raw[Doc["core"]],
                caps |-> raw[Doc["caps"]], server |-> raw[Doc["server"]],
                dump |-> tool.dump, sha |-> tool.sha, auth |-> tool.auth,
                receipt |-> tool.receipt, volatile |-> tool.volatile,
                staging |-> Staging(tool.dump, tool.volatile), terms |-> terms]]
          /\ Ends("done") /\ OthersThanTool

WriteCatalog ==
  LET b == tool.budget IN
  /\ tool.pc = "write" /\ tool.run = "catalog"
  /\ IF /\ tool.receipt = b.receipt /\ b.server = tool.hash["server"]
        /\ Policy(b, tool.dev)
        /\ b.staging >= Staging(tool.dump, tool.volatile)
        /\ raw["catalog"] = Nothing
       THEN /\ raw' = [raw EXCEPT !["catalog"] =
                 [dev |-> tool.dev, row |-> [core |-> tool.hash["core"], caps |-> tool.hash["caps"],
                                             server |-> tool.hash["server"], budget |-> b]]]
            /\ Ends("done") /\ OthersThanTool
       ELSE Refuse

-----------------------------------------------------------------------------
(* prepare-install-bundle.py                                                 *)

SelectAssets ==
  LET c == raw["catalog"] IN
  /\ tool.pc = "select"
  /\ IF /\ published = Nothing /\ c # Nothing /\ raw["budget"] # Nothing
        /\ c.dev = tool.dev /\ Qualified(raw["budget"], tool.dev)
       THEN To([tool EXCEPT !.pc = "copy", !.copy = [f \in DOMAIN raw |-> Nothing]])
       ELSE Refuse

CopyAsset ==
  LET f == CopyOrder[tool.at] IN
  /\ tool.pc = "copy"
  /\ To(Step([tool EXCEPT !.copy[f] = raw[f]], CopyOrder, "copy", "verify"))

X_BundleAccepts(d, dev) ==
  d["catalog"].dev = dev /\ d["catalog"].row = VariantRow(d)
(* verify-install-bundle.py on the copy, which has got its own SHA256SUMS:   *)
(* the whole catalog must come out again.                                    *)
BundleAccepts(d, dev) ==
  /\ d["catalog"].dev = dev
  /\ VariantsAccept(d, dev)
  /\ d["catalog"].row = VariantRow(d)

(* The copy that passes is renamed to the output.                            *)
PublishBundle ==
  /\ tool.pc = "verify"
  /\ IF BundleAccepts(tool.copy, tool.dev)
       THEN /\ published' = tool.copy /\ Ends("done")
            /\ UNCHANGED <<raw, made, spared, told, starts, touched>>
       ELSE Refuse

-----------------------------------------------------------------------------
ToolRuns ==
  \/ HashDocument \/ ParseDocument \/ ReadBudget \/ DumpPackage \/ HashPackage \/ ReadAuth
  \/ CheckSchema \/ DigestAsset \/ DumpIndex \/ FetchPackage \/ CheckVolatile
  \/ ExtractPayload \/ CheckPayload \/ WriteReceipt \/ WriteBudget \/ WriteCatalog
  \/ SelectAssets \/ CopyAsset \/ PublishBundle

LNext ==
  \/ Rebuild
  \/ StartTool("budget", FALSE)
  \/ \E run \in {"catalog", "assemble"}, dev \in BOOLEAN : StartTool(run, dev)
  \/ ToolRuns

-----------------------------------------------------------------------------
(* Every part of a bundle is of one native build: the package, the producer  *)
(* beside it and the volatile binary; the signed index, the budget and the   *)
(* catalog are those of exactly these files.                                 *)
WholeBundle(d) ==
  \A p \in PartNames :
    LET package == d[Apk[p]] IN
    /\ d[Doc[p]] = package.native /\ d[Bin[p]] = package.native
    /\ d["index"][p] = package /\ d["budget"].sha[p] = package
    /\ d["budget"].receipt[p].sha = package
    /\ d["catalog"].row.budget = d["budget"]

(* What the files of one build must be to one another.                       *)
Coherent(d) ==
  /\ Fact(d[Doc["caps"]]) = Fact(d[Doc["core"]])
  /\ \A p \in PartNames : d[Doc[p]] = d[Apk[p]].native /\ d[Bin[p]] = d[Apk[p]].native
  /\ d["index"] = Listed(d) /\ d["auth"] = [apk |-> Listed(d), index |-> d["index"]]

(* When nothing is written meanwhile, each tool accepts what the one before  *)
(* it wrote: it refuses only incoherent files, a missing input, an output    *)
(* that exists, another trust mode, or what the catalog does not take though *)
(* the budget tool does: an unsupported version or size, malformed memory    *)
(* evidence, a provisional policy.                                           *)
RefusalHasAReason ==
  tool.pc = "refused" /\ ~touched =>
    CASE tool.run = "budget" -> raw["budget"] # Nothing \/ ~Coherent(raw)
      [] tool.run = "catalog" ->
           raw["budget"] = Nothing \/ raw["catalog"] # Nothing
           \/ raw["budget"].terms = "unsupported" \/ ~Policy(raw["budget"], tool.dev)
      [] OTHER ->
           raw["catalog"] = Nothing \/ raw["budget"] = Nothing \/ published # Nothing
           \/ raw["catalog"].dev # tool.dev \/ raw["catalog"].row.budget # raw["budget"]

=============================================================================
