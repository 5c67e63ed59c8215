SPECIFICATION Spec
CONSTANTS
  slack = slack
  cli = cli
  m1 = m1
  m2 = m2
  m3 = m3
  ann = ann
  bob = bob
  root = root
  thread = thread
  dm = dm
  Channels = {slack, cli}
  Messages = {m1, m2, m3}
  Keys = {ann, bob}
  Sessions = {root, thread, dm}
  KeyOf <- BobSendsOne
  SessionOf <- AnnInThread
  ChannelOf <- DmOnCli
  Prefixed <- TextPrefixes
PROPERTY ClearKeepsOtherSessions
