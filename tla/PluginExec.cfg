CONSTANTS
  plugin = plugin
  worker = worker
  p1 = p1
  p2 = p2
  p3 = p3
  NoThread = NoThread
  None = None
  Pids = {p1, p2, p3}
  Threads = {plugin, worker}
  RunLoop = plugin
  ForkFails = TRUE
SPECIFICATION FairSpec
INVARIANTS ExecInv ZombieIsNoticed
PROPERTIES ImplementsService ChildrenCalledBack
