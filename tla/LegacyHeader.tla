---------------------------- MODULE LegacyHeader ----------------------------
(***************************************************************************)
(* The header of a legacy package.  It is written front to back behind a   *)
(* summary that does not know yet where things will be; then the exports   *)
(* and the summary are written again in place.  What is written depends on *)
(* the version of the package, which the file of an unversioned package    *)
(* does not name: the reader is told it or has to find it out.             *)
(*                                                                         *)
(* A version is zero for UE4 and the UE5 file version otherwise.           *)
(***************************************************************************)
EXTENDS Integers, FiniteSets, Sequences, ByteStream

CONSTANTS Packages,      \* packages written
          Fallbacks      \* versions the reader is told; -1 if none

VARIABLES package, fallback,
          file,
          summary,       \* the summary in memory
          end,           \* where the header ends so far
          pc,
          result         \* what the reader makes of the file

vars == <<package, fallback, file, summary, end, pc, result>>

RECURSIVE Total(_, _)
Total(sizes, v) ==
    IF sizes = {} THEN 0
    ELSE LET s == CHOOSE x \in sizes : TRUE
         IN  (IF v >= s[1] THEN s[2] ELSE 0) + Total(sizes \ {s}, v)

\* The summary has a few members only from a version on, and two only with data
\* for the editor; that there is a UE5 version the file itself says.
SummarySize(v) ==
    (IF package.filtered THEN 208 ELSE 228) + (IF package.version = 0 THEN 0 ELSE 4)
        + Total({<<1001, 4>>, <<1002, 8>>, <<1008, 8>>, <<1009, 4>>}, v)

ImportSize(v) == (IF package.filtered THEN 28 ELSE 36) + Total({<<1003, 4>>}, v)

ExportSize(v) ==
    88 + Total({<<1003, 4>>, <<1006, 4>>}, v) + (IF v < 1005 THEN 16 ELSE 0)
       + (IF package.unversionedProperties THEN 0 ELSE Total({<<1010, 16>>}, v))

NameItems == [i \in DOMAIN package.names |-> <<<<"name", i>>, package.names[i] + 8>>]
ImportItems == [i \in DOMAIN package.imports |-> <<<<"import", package.imports[i]>>, ImportSize(package.version)>>]
ExportItem(i, shift) ==
    <<<<"export", i, package.exports[i].offset + shift, package.exports[i].size>>, ExportSize(package.version)>>
ExportItems(shift) == [i \in DOMAIN package.exports |-> ExportItem(i, shift)]
DependsItems == [i \in DOMAIN package.exports |-> <<<<"depends">>, 4>>]
PreloadItems == [i \in DOMAIN package.preload |-> <<<<"preload", package.preload[i]>>, 4>>]
ResourceItems ==
    IF package.resources = <<>> THEN <<>>
    ELSE << <<<<"resources", Len(package.resources)>>, 8>> >>
         \o [i \in DOMAIN package.resources |-> <<<<"resource", package.resources[i]>>, 44>>]

SummaryItem(s) == << <<<<"summary", s>>, SummarySize(package.version)>> >>

------------------------------------------------------------------------------
\* FLegacyPackageHeader::serialize.

\* The summary as the package has it; it has no place for soft object paths.
WriteSummary ==
    /\ pc = "summary"
    /\ file' = WriteAt(file, 0, SummaryItem(summary))
    /\ end' = SummarySize(package.version)
    /\ pc' = "sections"
    /\ UNCHANGED <<package, fallback, summary, result>>

WriteSections ==
    /\ pc = "sections"
    /\ LET imports == EndAt(end, NameItems)
           exports == EndAt(imports, ImportItems)
           depends == EndAt(exports, ExportItems(0))
           registry == EndAt(depends, DependsItems)
           preload == registry + 4
           resources == EndAt(preload, PreloadItems)
           data == EndAt(resources, ResourceItems)
           total == IF package.desired > data THEN package.desired ELSE data
       IN  /\ file' = WriteAt(file, end,
                        NameItems \o ImportItems \o ExportItems(0) \o DependsItems
                        \o << <<<<"registry">>, 4>> >> \o PreloadItems \o ResourceItems
                        \o << <<<<"padding">>, total - data>> >>)
           /\ summary' = [summary EXCEPT
                            !.names = <<Len(package.names), end>>,
                            !.soft = <<0, imports>>,
                            !.imports = <<Len(package.imports), imports>>,
                            !.exports = <<Len(package.exports), exports>>,
                            !.depends = depends, !.registry = registry,
                            !.preload = <<Len(package.preload), preload>>,
                            !.resources = IF package.resources = <<>> THEN -1 ELSE resources,
                            !.total = total]
           /\ end' = total
    /\ pc' = "exports"
    /\ UNCHANGED <<package, fallback, result>>

Largest(S) == CHOOSE n \in S : \A m \in S : m <= n

\* A variant of RewriteExports that places them behind the data of the header.
RewriteExportsUnpadded ==
    /\ pc = "exports"
    /\ LET data == EndAt(EndAt(summary.preload[2], PreloadItems), ResourceItems)
       IN  file' = WriteAt(file, summary.exports[2], ExportItems(data))
    /\ summary' = [summary EXCEPT !.bulk =
                     Largest({summary.total} \cup
                             {summary.total + package.exports[i].offset + package.exports[i].size :
                                i \in DOMAIN package.exports})]
    /\ pc' = "patch"
    /\ UNCHANGED <<package, fallback, end, result>>

\* Exports are placed behind the header, whose size is known now.
RewriteExports ==
    /\ pc = "exports"
    /\ file' = WriteAt(file, summary.exports[2], ExportItems(summary.total))
    /\ summary' = [summary EXCEPT !.bulk =
                     Largest({summary.total} \cup
                             {summary.total + package.exports[i].offset + package.exports[i].size :
                                i \in DOMAIN package.exports})]
    /\ pc' = "patch"
    /\ UNCHANGED <<package, fallback, end, result>>

RewriteSummary ==
    /\ pc = "patch"
    /\ file' = WriteAt(file, 0, SummaryItem(summary))
    /\ pc' = "detect"
    /\ UNCHANGED <<package, fallback, summary, end, result>>

------------------------------------------------------------------------------
\* heuristic_package_version_from_legacy_package.

\* The vector the header is read into has room for it and is empty: nothing is
\* read.  The vectors for an import and an export are no different.
Payload == 0

\* What a reader of a version consumes of the summary: all members of that
\* version, if so many bytes are there.
Fits(v) ==
    /\ SummarySize(v) <= Payload /\ SummarySize(v) = summary.names[2]
    /\ summary.names[2] < summary.imports[2] /\ summary.imports[2] < summary.exports[2]
    /\ summary.exports[2] < summary.depends
    /\ summary.imports[1] > 0 =>
          /\ ImportSize(v) <= Payload
          /\ ImportSize(v) = (summary.exports[2] - summary.imports[2]) \div summary.imports[1]
    /\ summary.exports[1] > 0 =>
          /\ ExportSize(v) <= Payload
          /\ ExportSize(v) = (summary.depends - summary.exports[2]) \div summary.exports[1]

Tried == <<1013, 1012, 1009, 1008, 1004, 0>>

\* The version the package is read with; -1 if there is none.
DetectedVersion ==
    LET fitting == {i \in DOMAIN Tried : Fits(Tried[i])}
    IN  IF ~package.unversioned THEN package.version
        ELSE IF fallback # -1 THEN fallback
        ELSE IF ~package.cooked \/ ~package.filtered \/ fitting = {} THEN -1
        ELSE Tried[CHOOSE i \in fitting : \A j \in fitting : i <= j]

------------------------------------------------------------------------------
\* FLegacyPackageHeader::deserialize with a version.

\* A name says itself how long it is.
ReadSections(v, s) ==
    [version |-> v,
     names |-> [i \in 1 .. s.names[1] |-> ReadAt(file, Places(s.names[2], NameItems)[i], package.names[i] + 8)],
     imports |-> ReadMany(file, s.imports[2], ImportSize(v), s.imports[1]),
     exports |-> ReadMany(file, s.exports[2], ExportSize(v), s.exports[1]),
     preload |-> ReadMany(file, s.preload[2], 4, s.preload[1]),
     resources |->
        IF v < 1009 \/ s.resources <= 0 THEN <<>>
        ELSE ReadMany(file, s.resources + 8, 44, ReadAt(file, s.resources, 8)[2])]

\* With another version than its own, a summary of another size is garbage.
ReadHeader ==
    /\ pc = "detect"
    /\ IF DetectedVersion = -1 THEN pc' = "refused" /\ UNCHANGED result
       ELSE LET read == ReadAt(file, 0, SummarySize(DetectedVersion))
            IN  IF read = Garbage THEN pc' = "misread" /\ UNCHANGED result
                ELSE pc' = "read" /\ result' = ReadSections(DetectedVersion, read[2])
    /\ UNCHANGED <<package, fallback, file, summary, end>>

Done == pc \in {"refused", "misread", "read"} /\ UNCHANGED vars

Init ==
    /\ package \in Packages /\ fallback \in Fallbacks
    /\ file = [p \in {} |-> Garbage]
    /\ summary = [names |-> <<0, 0>>, soft |-> <<0, 0>>, imports |-> <<0, 0>>, exports |-> <<0, 0>>,
                  depends |-> 0, registry |-> 0, preload |-> <<0, 0>>, resources |-> -1,
                  total |-> 0, bulk |-> 0]
    /\ end = 0 /\ pc = "summary" /\ result = [version |-> -1]

Next ==
    \/ WriteSummary \/ WriteSections \/ RewriteExports \/ RewriteSummary
    \/ ReadHeader \/ Done

Spec == Init /\ [][Next]_vars

------------------------------------------------------------------------------
Values(items) == [i \in DOMAIN items |-> items[i][1]]

\* Items follow each other without a gap up to the end of the header.
TypeOK ==
    /\ pc \in {"summary", "sections", "exports", "patch", "detect", "refused", "misread", "read"}
    /\ \A p \in DOMAIN file : p + file[p][2] \in DOMAIN file \cup {end}

\* A reader who has the version of the package gets what was written, though the
\* exports and the summary were written twice: what was written in between is
\* whole.
WhatIsWrittenIsRead ==
    pc = "read" /\ result.version = package.version =>
        /\ result.names = Values(NameItems)
        /\ result.imports = Values(ImportItems)
        /\ result.exports = Values(ExportItems(summary.total))
        /\ result.preload = Values(PreloadItems)
        /\ result.resources = [i \in DOMAIN package.resources |-> <<"resource", package.resources[i]>>]

\* An export's data starts at its offset in the .uexp file behind the whole
\* header, padding included, and bulk data behind all exports.  A header as large
\* as the one the package was cooked with keeps the offsets it had.
ExportsFollowHeader ==
    pc \in {"detect", "read"} =>
        /\ end >= package.desired
        /\ \A p \in DOMAIN file : file[p][1][1] = "export" =>
              file[p][1][3] = end + package.exports[file[p][1][2]].offset
        /\ \A i \in DOMAIN package.exports :
              summary.bulk >= end + package.exports[i].offset + package.exports[i].size

\* A cooked package without a version is read with its own version, or with one
\* that writes the same, if that is one of those tried: what the comments on the
\* versions tried say.
TriedVersionIsFound ==
    pc = "refused" =>
        ~(package.cooked /\ package.filtered /\ \E i \in DOMAIN Tried : Tried[i] = package.version)
=============================================================================
