SPECIFICATION Spec
CONSTANTS
    Accounts = {alice, bob}
    Calls = {c1}
    TokenFails = {}
    None = None
PROPERTY CurrentUserOnly
