SPECIFICATION FairSpec
CONSTANTS
    Accounts = {alice, bob}
    Groups = {g1}
    Leftovers = {g1}
    Offered = {"dialog", "exit"}
    None = None
INVARIANTS TypeOK BookmarksWereDue
PROPERTIES LossesStayTracked LossNoticed
