SPECIFICATION FairSpec
CONSTANTS
  t1 = t1
  r1 = r1
  s1 = s1
  Turns = {t1}
  Requests = {r1}
  Publishers = {t1, r1}
  Runtimes = {"subprocess", "grpc", "stub"}
  Scripts <- MCScripts
  PipeSize = 1
  Faulty = {t1}
  Streams = {s1}
  ChanSize = 2
INVARIANTS
  TypeOK
  NeverSendsToClosed
  StreamsFollow
  TurnIsComplete
PROPERTIES
  TurnEnds
CHECK_DEADLOCK FALSE
