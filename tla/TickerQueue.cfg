SPECIFICATION Spec
CONSTANTS
  Events = {ticker, timeout}
  Periodic = {ticker}
  Bits = 4
  Delays = {0, 3, 12}
  MaxMasked = 2
INVARIANTS TimeKept HeadArmed InTime LockedWhileQueued
