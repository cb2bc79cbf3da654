\* Pausing, throttling and flushing, without flow control.
SPECIFICATION FairSpec
CONSTANTS
  sta = sta
  be = be
  vo = vo
  vdev_list <- OneVdev
  Queues <- OneQueue
  VdevOf <- BeOfSta
  Eapol <- FirstOfBe
  MaxFrames <- TwoOfBe
  MaxMgmt = 0
  PoolSize = 1
  max_q_depth = 2
  tx_threshold = 3
  low_watermark = 0
  high_watermark_offset = 0
  SendMargin = 0
  Reasons = {"FW", "PEER_UNAUTHORIZED"}
  Levels = {0, 1}
  MayFlush = TRUE
  MayDetach = FALSE
  MaxPosts = 1
PROPERTIES PauseHonoured OvertakenInHand BacklogServed
CHECK_DEADLOCK FALSE
