------------------------------ MODULE Requests ------------------------------
(***************************************************************************)
(* The mem_fetch objects (src/src/gpgpu-sim/mem_fetch.h) that a partition  *)
(* works on, shared by the modules of its parts.                           *)
(***************************************************************************)
CONSTANT Req
=============================================================================
