\* Flow control: watermarks, the resume callback, the timer and the detach.
SPECIFICATION FairSpec
CONSTANTS
  sta = sta
  be = be
  vo = vo
  vdev_list <- OneVdev
  Queues <- TwoQueues
  VdevOf <- BothOfSta
  Eapol = {}
  MaxFrames <- OneOfEach
  MaxMgmt = 2
  PoolSize = 3
  max_q_depth = 1
  tx_threshold = 3
  low_watermark = 2
  high_watermark_offset = 0
  SendMargin = 1
  Reasons = {"VDEV_SUSPEND"}
  Levels = {}
  MayFlush = FALSE
  MayDetach = TRUE
  MaxPosts = 1
INVARIANTS FramesConserved WakeOwed
PROPERTY StoppedQueueWoken
CHECK_DEADLOCK FALSE
