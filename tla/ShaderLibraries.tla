-------------------------- MODULE ShaderLibraries --------------------------
(***************************************************************************)
(* A shader library all the way: written into a container, read back from  *)
(* it (ShaderArchive), and laid out in a file again from the code and the  *)
(* maps that were read (ShaderLayout).  From the moment the layout begins  *)
(* nothing of the archive is used but these, and the model forgets it.     *)
(***************************************************************************)
EXTENDS ShaderArchive, ShaderLayout

CONSTANTS Extracted     \* bound: the libraries extracted again

CodeRead(compress) ==
    [sizes |-> [k \in DOMAIN read |-> Len(read[k])],
     maps |-> [m \in DOMAIN library.maps |->
                  [i \in 1 .. library.maps[m].num |-> indices[library.maps[m].first + i]]],
     compress |-> compress]

LibraryInit == Init /\ NoLayout

\* rebuild_shader_library_from_io_store begins.
StartLayout ==
    /\ pc = "done" /\ library \in Extracted
    /\ pc' = "extracting"
    /\ \E b \in BOOLEAN : extracted' = CodeRead(b)
    /\ Begin
    /\ groups' = <<>> /\ entries' = <<>> /\ chunks' = <<>> /\ indices' = library.indices
    /\ method' = FALSE
    /\ UNCHANGED <<library, read>>

LibraryNext ==
    \/ Next /\ UNCHANGED layoutVars
    \/ StartLayout
    \/ pc = "extracting" /\ LayoutNext /\ UNCHANGED vars

LibrarySpec == LibraryInit /\ [][LibraryNext]_<<vars, layoutVars>> /\ LayoutFairness

-----------------------------------------------------------------------------
\* What goes into a container comes out of it: each group holds shaders that are
\* used alike, one list of indices serves maps and groups, no check refuses what
\* the writer laid out, and the code of every shader is read back.
ArchiveSurvives ==
    pc # "extracting" =>
        GroupsLieWithin /\ GroupsFollowMaps /\ IndicesServeBoth /\ NeverRefused /\ CodeSurvives

\* A layout that has begun comes to its end, also when the consumer leaves while
\* the producer waits for room in the channel.
LayoutEnds == result = "none" ~> result # "none"
=============================================================================
