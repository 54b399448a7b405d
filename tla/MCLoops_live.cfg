SPECIFICATION LoopsSpec
CHECK_DEADLOCK FALSE
CONSTANTS
  Order = {o1, o2}
  ListedOrder = {l1, l2, l3}
  Broker = {b1}
  NoBroker = NoBroker
  Payer = {u1}
  NoUser = NoUser
  PublicKey = {k1}
  NoKey = NoKey
PROPERTIES
  EverySnapshotIsHandled
  EveryActionIsAttached
  ClientsGetOn
