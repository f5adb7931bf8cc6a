CONSTANTS
  t1 = t1
  w1 = w1
  h1 = h1
  i1 = i1
  Client = {t1, w1, h1}
  Tcp = {t1}
  Plugin = {h1}
  Hardware = {h1}
  Id = {i1}
  LogName = {"a.csv", "a.log", "b.json", "notes"}
  IdLists <- MCLists
  MaskSets <- MCMasks
  TypeOfName <- MCNames
  MaxMsgs = 2
  MaxControls = 4
SPECIFICATION MCSpec
INVARIANTS PrivateStaysPrivate DeliveredInOrder LogStatusAgrees HeaderBeforeRow
PROPERTIES OthersServed HubSpec
CHECK_DEADLOCK FALSE
