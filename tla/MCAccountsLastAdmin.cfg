SPECIFICATION Spec
CONSTANTS
  ann = ann
  bob = bob
  w1 = w1
  w2 = w2
  w3 = w3
  Users = {ann, bob}
  Workers = {w1, w2, w3}
  NoWorker = NoWorker
  Cases <- TwoAdmins
PROPERTY AnActiveAdminIsLeft
