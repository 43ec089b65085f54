------------------------------ MODULE MCGateway ------------------------------
(***************************************************************************)
(* Instances of Gateway with one or two vehicles, dashboards and handlers.  *)
(* Connections are interchangeable, and so are vehicles.                    *)
(***************************************************************************)
EXTENDS Gateway, TLC

Symmetry == Permutations(Clients) \cup Permutations(Vehicles)
=============================================================================
