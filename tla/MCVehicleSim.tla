---------------------------- MODULE MCVehicleSim ----------------------------
(***************************************************************************)
(* Instances of VehicleSim with an orbit of 0.008 degrees: the vehicle with *)
(* the constructor's defaults (120 m, 14.5 m/s) and a tick every 10 s, which*)
(* keeps every sequence of commands within reach, and the vehicle of        *)
(* main_test.go (100 m, 14.5 m/s) at the deployed tick of 1 s, where the    *)
(* disagreements with its documentation show.                               *)
(***************************************************************************)
EXTENDS VehicleSim
=============================================================================
