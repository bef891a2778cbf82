CONSTANTS
  Rooms = {r1}
  Users = {u1, u2}
  Ids = {i1, i2}
  Calls = {c1}
  Types = {"public"}
  MaxParticipants = 2
  MaxCalls = 4
  NoRoom = NoRoom
  NoUser = NoUser
  NoId = NoId
SPECIFICATION Spec
SYMMETRY Symmetry
PROPERTY
  BlockedStaysOut
