SPECIFICATION Spec
CONSTANTS
  None = None
  Channels = {a, b}
  Groups = {g, h}
  Clients = {k}
  Keys = {p, q}
  Requests = {r}
  Recorded <- ModelRecorded
SYMMETRY Symmetry
INVARIANTS TypeOK IsolatedService AccessStaysEditable
