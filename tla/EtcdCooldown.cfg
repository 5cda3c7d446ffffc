SPECIFICATION Spec
CONSTANTS
  Node = {n1, n2}
  Lease = {l1, l2}
  NoNode = NoNode
  NoLease = NoLease
INVARIANT TypeOK
PROPERTIES ImplementsCooldownMarker ConfirmedMarkersLast MarkersEnd
