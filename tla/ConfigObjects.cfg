CONSTANTS
  Requests = {"first", "second"}
  Groups = {"hosts", "more"}
  Ranges = {"night", "day"}
  Lists = {"web", "old", "new"}
  Interfaces = {"Vlan1", "Vlan2"}
  Text <- MCText
  Remarks = {"remark r"}
  Asks <- MCAsks
  Outset <- MCOutset
  Heard = {TRUE, FALSE}
  LastNumber = 9
SPECIFICATION Spec
INVARIANTS
  UndoReturns
  RestoredIsBack
  SuccessIsExact
CHECK_DEADLOCK FALSE
