SPECIFICATION FairSpec
CONSTANTS
    TRAY_SIZE = 2
    VEGAN = "vegan"
    NON_VEGAN = "nonvegan"
    Chefs <- MCChefsOnce
    Once <- MCOnceVegan
    Customers <- MCCustomers
    Hybrids <- MCHybrids
    TrayOf <- MCTrayOf
INVARIANTS
    PlacesAddUp
    DishesAddUp
    SlotHolds
    AlwaysFound
PROPERTIES
    ImplementsTrays
    TraysServed
