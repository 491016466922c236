\* The errors EIO and EBUSY: hd_stripe_done sees only the first.
SPECIFICATION Spec
CONSTANTS
  Req = {r1, r2}
  NPbuf = 2
  striping_width = 2 part_stripes = 2 stripe_blks = 2 NSets = 2
  Extent <- MCExtent Defects = {{}} Errno = {5, 16}
  MaxIssue = 2 MaxErr = 1 MaxMissing = 0
CHECK_DEADLOCK FALSE
INVARIANT ReturnedIsTrue
