----------------------------- MODULE MCGroupPump -----------------------------
(***************************************************************************)
(* Instances of GroupPump for TLC.  The cameras are interchangeable: the   *)
(* loops over the pump map are modelled in every order.                    *)
(***************************************************************************)
EXTENDS GroupPump, TLC

CameraSymmetry == Permutations(Cameras)
=============================================================================
