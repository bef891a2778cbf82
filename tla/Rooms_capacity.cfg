CONSTANTS
  Rooms = {r1}
  Users = {u1, u2, u3}
  Ids = {i1, i2, i3}
  Calls = {c1}
  Types = {"public"}
  MaxParticipants = 2
  MaxCalls = 5
  NoRoom = NoRoom
  NoUser = NoUser
  NoId = NoId
SPECIFICATION Spec
SYMMETRY Symmetry
PROPERTY
  AdmitRespectsCapacity
