------------------------- MODULE MCShaderLibraries -------------------------
(***************************************************************************)
(* Four shaders of one, two or three bytes, some for ray tracing and some  *)
(* compressed in the library, and the lists of two maps: disjoint,         *)
(* overlapping, with a shader listed twice, with shaders in no map.        *)
(* A few of the small ones are laid out again; the channel holds two       *)
(* messages, and so do the workers.                                        *)
(***************************************************************************)
EXTENDS ShaderLibraries

Shader(size, stored, ray, offset) == [size |-> size, stored |-> stored, ray |-> ray, offset |-> offset]

MCShaders ==
    {[k \in 1 .. 4 |-> Shader(sizes[k], IF small THEN 1 ELSE sizes[k], k \in rays, k)] :
        sizes \in {<<2, 2, 2, 2>>, <<3, 1, 2, 1>>, <<3, 3, 3, 2>>},
        small \in BOOLEAN, rays \in {{}, {2, 3}}}

MCMaps ==
    { [indices |-> <<1, 2, 3, 4>>, maps |-> <<[first |-> 0, num |-> 4]>>],
      [indices |-> <<1, 2, 3, 2, 3, 4>>, maps |-> <<[first |-> 0, num |-> 3], [first |-> 3, num |-> 3]>>],
      [indices |-> <<2, 1, 2, 1, 4>>, maps |-> <<[first |-> 0, num |-> 3], [first |-> 3, num |-> 2]>>],
      [indices |-> <<1, 3, 1, 4, 2>>, maps |-> <<[first |-> 0, num |-> 5]>>],
      [indices |-> <<4, 1>>, maps |-> <<[first |-> 0, num |-> 2], [first |-> 1, num |-> 1]>>],
      [indices |-> <<4>>, maps |-> <<[first |-> 0, num |-> 1]>>] }

MCLibraries ==
    {[indices |-> m.indices, maps |-> m.maps, shaders |-> s, separate |-> b] :
        m \in MCMaps, s \in MCShaders, b \in BOOLEAN}
MCExtracted ==
    {l \in MCLibraries :
        /\ ~l.separate
        /\ l.shaders = [k \in 1 .. 4 |-> Shader(2, 2, FALSE, k)]}
=============================================================================
