----------------------------- MODULE MCParking -----------------------------
(* ParkingSystem on small instances: the symmetry of its model values. *)
EXTENDS ParkingSystem, TLC

MCSymmetry == Permutations(Users) \cup Permutations(Seeded)
                  \cup Permutations(Requests \ Earlier) \cup Permutations(Numbers)

=============================================================================
