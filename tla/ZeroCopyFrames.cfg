SPECIFICATION Spec
CONSTANTS
  PoolSize = 2
  Sizes = {480, 720}
  Spaces = {"bt709", "unspecified"}
  Ranges = {"limited"}
  MaxPools = 3
  MaxExports = 3
  MaxImages = 2
  Machines <- MCMachines
INVARIANTS ShowsTheFrame PictureFitsFrame NoImageLost
CHECK_DEADLOCK FALSE
