----------------------------- MODULE MCZeroCopy -----------------------------
(* Instances of ZeroCopy for TLC: linear buffers with and without external *)
(* images (asked for, denied by another option, or without the pair to     *)
(* fall back on), tiled buffers, and machines on which only the download   *)
(* path works or nothing is drawn; on drivers that use surface ids again   *)
(* and drivers that do not.                                                *)
EXTENDS ZeroCopy

Machine(linear, compiles, env) ==
  [reuseIds : BOOLEAN, linear : {linear}, compiles : {compiles},
   gl : {{"import", "OES_EGL_image_external"}}, env : {env}]

MCMachines ==
  Machine(TRUE, Shaders, {"ZC_EXTERNAL"}) \cup Machine(TRUE, {"external"}, {"ZC_EXTERNAL"})
    \cup Machine(TRUE, Shaders, {"ZC_EXTERNAL", "ZC_COMPUTE"}) \cup Machine(TRUE, Shaders, {})
    \cup Machine(FALSE, Shaders, {"ZC_TILED"}) \cup Machine(FALSE, Shaders, {})
    \cup Machine(TRUE, Shaders, {"NO_ZC"}) \cup Machine(TRUE, Shaders, {"NO_DRAW"})
    \cup [reuseIds : {FALSE}, linear : BOOLEAN, compiles : {Shaders},
          gl : SUBSET {"OES_EGL_image_external"}, env : {{"ZC_EXTERNAL", "ZC_TILED"}}]
=============================================================================
