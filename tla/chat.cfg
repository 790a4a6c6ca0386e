SPECIFICATION Spec
CONSTANTS
  Agents = {mei, amara}
  Mei = mei
  Amara = amara
  Pm = mei
  MaxDepth = 3
  Interval = 2
  MaxRetries = 2
  MaxInputs = 2
  MaxErrors = 2
  Programs = {p1, p2}
  MaxSaid = 2
  MaxMisses = 1
  Sizes = {3}
  MaxMessages = 2
  BaseCount = 3
  ShortCount = 1
  MaxChars = 3
  Frame = 1
  Warning = 3
  Critical = 4
  Truncation = 5
  Bots = {mei}
  Customer = owner
  Default = mei
  Cap = 1
  MaxPosts = 3
  ChatReqs = {c1}
  TaskReqs = {}
  ChanCap = 1
  MaxGen = 3
  Resetters = {"user", "monitor"}
  NoReq = NoReq
CHECK_DEADLOCK FALSE
INVARIANTS ThinkingIsAsked NothingIsForgotten
PROPERTIES TalkSettles
