------------------------------ MODULE Headers ------------------------------
(***************************************************************************)
(* The three headers the program writes and reads back: that of a          *)
(* container, of a legacy package and of a Zen package.  They have nothing *)
(* in common but that each is patched after it has been written and that   *)
(* its reader must know a version it may not record, so a behaviour is     *)
(* about one of them, and the variables of the other two stay Idle.        *)
(***************************************************************************)
EXTENDS ContainerHeader

CONSTANTS LegacyPackages, Fallbacks, ZenPackages,
          Parts     \* the headers looked at

VARIABLES part,
          package, file, summary, pc, result,   \* of LegacyHeader and ZenHeader
          fallback, end,                        \* of LegacyHeader
          store, arcs                           \* of ZenHeader

Legacy == INSTANCE LegacyHeader WITH Packages <- LegacyPackages
Zen == INSTANCE ZenHeader WITH Packages <- ZenPackages

packageVars == <<package, file, summary, pc, result>>
legacyVars == <<fallback, end>>
zenVars == <<store, arcs>>
headersVars == <<part, vars, packageVars, legacyVars, zenVars>>

Idle == "idle"
NoContainerHeader == header = Idle /\ built = Idle /\ told = Idle /\ phase = Idle
NoPackageHeader == package = Idle /\ file = Idle /\ summary = Idle /\ pc = Idle /\ result = Idle
NoLegacyHeader == fallback = Idle /\ end = Idle
NoZenHeader == store = Idle /\ arcs = Idle

HeadersInit ==
    /\ part \in Parts
    /\ \/ part = "container" /\ Init /\ NoPackageHeader /\ NoLegacyHeader /\ NoZenHeader
       \/ part = "legacy" /\ Legacy!Init /\ NoContainerHeader /\ NoZenHeader
       \/ part = "zen" /\ Zen!Init /\ NoContainerHeader /\ NoLegacyHeader

HeadersNext ==
    /\ \/ part = "container" /\ Next /\ UNCHANGED <<packageVars, legacyVars, zenVars>>
       \/ part = "legacy" /\ Legacy!Next /\ UNCHANGED <<vars, zenVars>>
       \/ part = "zen" /\ Zen!Next /\ UNCHANGED <<vars, legacyVars>>
    /\ UNCHANGED part

HeadersSpec == HeadersInit /\ [][HeadersNext]_headersVars

-----------------------------------------------------------------------------
\* The header of a container comes back as it was built: every package with its
\* entry, every array where its offset says, the last redirect of a package; and
\* the version is found whenever the header or the user names it, or is Initial in a
\* container whose id does not begin with the magic number.
ContainerHeaderSurvives ==
    part = "container" =>
        /\ TypeOK /\ EntriesSurvive /\ OffsetsPointFromMember /\ LastRedirectWins
        /\ LocalizedOnce /\ ReadableByVersion

\* The header of a legacy package, with its exports and summary written twice, is
\* read as it was written, and its exports follow it.
LegacyHeaderSurvives ==
    part = "legacy" =>
        Legacy!TypeOK /\ Legacy!WhatIsWrittenIsRead /\ Legacy!ExportsFollowHeader

\* The header of a Zen package is read as it was written, though the counts of its
\* sections are differences of offsets and bulk data has to be guessed.
ZenHeaderSurvives ==
    part = "zen" =>
        /\ Zen!TypeOK /\ Zen!SectionsSurvive /\ Zen!ArcsSurvive
        /\ Zen!BulkDataIsFound /\ Zen!BulkDataAligned

\* A cooked package without a version is read with its own version, or with one
\* that writes the same, if that is one of those tried: what the comments on the
\* versions tried say.
VersionIsFound == part = "legacy" => Legacy!TriedVersionIsFound
=============================================================================
