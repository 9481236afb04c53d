CONSTANTS
  tcp = tcp
  w1 = w1
  s1 = s1
  Servers = {tcp}
  Workers = {w1}
  Shards = {s1}
  ShardManager = ShardManager
  SessionManager = SessionManager
  Client = Client
  Main = Main
  None = None
  Adds <- MCAdds
SPECIFICATION LifeFairSpec
INVARIANT AllThreadsEnded
PROPERTY ShutdownEnds
