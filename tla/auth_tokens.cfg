SPECIFICATION FairSpec
CONSTANTS
    Accounts = {alice, bob}
    Calls = {c1, c2}
    TokenFails = {bob}
    None = None
INVARIANT TypeOK
PROPERTIES OwnTokenOnly TokenPrepared EveryCallSettles
