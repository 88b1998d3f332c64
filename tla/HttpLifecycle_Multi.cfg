CONSTANTS
  k1 = k1
  k2 = k2
  w1 = w1
  Conns <- MCConns
  Fds = {5}
  Main = main
  SubLoops <- MCSubLoops
  NoConn = noConn
  MaxBacklog = 2
SPECIFICATION FairSpec
INVARIANTS NoDanglingChannel ExpiryRequestsClose
PROPERTIES ErasesOwnEntry CloseCompletes
CHECK_DEADLOCK FALSE
