CONSTANTS
  log_buf_len = 8
  Size = {1, 2, 3}
  log_count_max = 5
  log_mail_thresh = 3
  MaxEvents = 7
SPECIFICATION Spec
INVARIANTS TypeOK LatestInOrder WalksMeetAll AllMailed
PROPERTY GivenUpForRoom
CHECK_DEADLOCK FALSE
