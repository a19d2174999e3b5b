SPECIFICATION Spec
CONSTANTS
    ce = ce
    pe = pe
    mx = mx
    nifty = nifty
    bank = bank
    idx = idx
    mcx = mcx
    Contracts = {ce, pe}
    Underlyings = {nifty}
    Accounts = {idx}
    UnderlyingOf <- MCUnderlyingOf
    AccountOf <- MCAccountOf
    SubstringsOf <- MCSubstringsOf
    Commanders = {"telegram"}
    MaxTrades = 2
    MaxCalls = 1
    Faults = {"unread", "refused", "raise", "partial", "unsaved", "crash"}
    MaxFaults = 2
SYMMETRY Symmetry
INVARIANTS
    TypeOK
    OpenKeepsRecord
    CreditedOnce
    ReportedClosedIsClosed
    OneTradePerUnderlying
