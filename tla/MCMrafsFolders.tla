--------------------------- MODULE MCMrafsFolders ---------------------------
(***************************************************************************)
(* Instances of MrafsFolders for TLC: two folders, and what may lie in them *)
(***************************************************************************)
EXTENDS MrafsFolders

CONSTANTS f, g

MCPaths == {<<f>>, <<g>>, <<f, f>>, <<f, g>>, <<g, f>>, <<g, g>>,
            <<f, f, f>>, <<g, f, f>>}
=============================================================================
