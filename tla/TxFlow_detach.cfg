\* The detach of a vdev against the timer of its pause queue.
SPECIFICATION FairSpec
CONSTANTS
  sta = sta
  be = be
  vo = vo
  vdev_list <- OneVdev
  Queues <- TwoQueues
  VdevOf <- BothOfSta
  Eapol = {}
  MaxFrames <- OneOfEach
  MaxMgmt = 0
  PoolSize = 3
  max_q_depth = 1
  tx_threshold = 3
  low_watermark = 0
  high_watermark_offset = 0
  SendMargin = 1
  Reasons = {"FW"}
  Levels = {}
  MayFlush = FALSE
  MayDetach = TRUE
  MaxPosts = 1
INVARIANT NoTimerDeadlock
CHECK_DEADLOCK FALSE
