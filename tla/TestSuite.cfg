SPECIFICATION Spec
CONSTANTS
  MAX_IOQ_ID = 9
  MAX_Q_ENTRIES = 16
  MAX_ADMIN_Q_SIZE = 6
  MAX_NSID = 6
  MAX_MSIX_IRQ_VEC = 4
  MAX_U16 = 5
  LOG_NUMD = 3
  MAX_DATA_TX_SIZE = 8
  BLOCK_UNITS = 2
  MAX_CMDS = 7
  Programmes <- MCProgrammes
INVARIANTS NoFalseFailure NeverNull FlawFound PreserveKept FeaturesRestored
