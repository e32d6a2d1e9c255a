SPECIFICATION Spec
CONSTANTS
  teleUpdateTask = teleUpdateTask
  helloSender = helloSender
  stop = stop
  motorrpm = motorrpm
  hello = hello
  u8 = u8
  i32 = i32
  Tasks = {teleUpdateTask, helloSender}
  Keys = {stop, motorrpm, hello}
  Types = {u8, i32}
  Buckets = {0}
  Bucket <- OneChain
  Nodes = {n1, n2, n3}
  NULL = NULL
  Receiver = teleUpdateTask
  Plan <- MCPlan
  Text <- MCText
  Code <- MCCode
  Width <- MCWidth
  Messages <- MCMessages
INVARIANTS
  TypeOK
  ChainsSound
  OnlyPublished
  AttachedIsFound
CHECK_DEADLOCK FALSE
