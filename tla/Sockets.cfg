SPECIFICATION Spec
CONSTANT MaxAddrs = 4
INVARIANT SocketsTracked
CHECK_DEADLOCK FALSE
