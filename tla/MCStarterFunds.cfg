\* Two servers, two accounts, two wallets, one payment a day.
SPECIFICATION StarterSpec
CONSTANTS
  Process = {s1, s2}
  Account = {l1, l2}
  Wallet = {w1, w2}
  Free = Free
  DailyLimit = 1
  MaxPayment = 3
  MaxLost = 2
  MaxDeath = 1
  MaxSpend = 1
SYMMETRY StarterSymmetry
CHECK_DEADLOCK FALSE
INVARIANT PaidOnceEver
