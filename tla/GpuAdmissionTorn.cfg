SPECIFICATION GpuSpec
CONSTANTS
  Task = {1, 2, 3}
  Foreground = {1, 2}
  MayFail = {3}
  Exclusive = {}
  Need <- SharedNeed
  Count <- SharedCount
  Priority = {10}
  Gpu = {0, 1}
  Total <- MCTotal
  Noisy = {}
  Foreign = {0}
  Usage = {0}
  MaxSamples = 1
INVARIANTS
  CapacityRespected
