------------------------------ MODULE MCRooms -------------------------------
(* Instances of Rooms for TLC. *)
EXTENDS Rooms, TLC

\* No action chooses a room, a user, a record or a call by name.
Symmetry == Permutations(Rooms) \union Permutations(Users) \union Permutations(Ids)
              \union Permutations(Calls)

=============================================================================
