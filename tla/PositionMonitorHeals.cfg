SPECIFICATION Spec
CONSTANTS
    ce = ce
    pe = pe
    mx = mx
    nifty = nifty
    bank = bank
    idx = idx
    mcx = mcx
    Contracts = {ce, mx}
    Underlyings = {nifty, bank}
    Accounts = {idx, mcx}
    UnderlyingOf <- MCUnderlyingOf
    AccountOf <- MCAccountOf
    SubstringsOf <- MCSubstringsOf
    Commanders = {"telegram"}
    MaxTrades = 1
    MaxCalls = 2
    Faults = {"unread", "refused", "raise", "partial", "unsaved", "crash"}
    MaxFaults = 1
PROPERTIES
    TrackingFollowsBook
