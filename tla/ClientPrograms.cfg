SPECIFICATION Spec
CONSTANTS
  a1 = a1
  a2 = a2
  unknown = unknown
  NoApp = NoApp
  Apps = {a1, a2}
  Orders <- MCOrders
  Options <- MCOptions
INVARIANTS PairingKnown PairReportsTruth NotKilledWhileConnected QuitAppIsSent
PROPERTIES SessionEnds
