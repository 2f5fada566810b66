CONSTANTS
  log_buf_len = 8
  Size = {1, 2, 3}
  log_count_max = 5
  log_mail_thresh = 3
  MaxEvents = 7
SPECIFICATION Spec
INVARIANT WalkEnds
CHECK_DEADLOCK FALSE
