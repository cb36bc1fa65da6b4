SPECIFICATION Spec
CONSTANTS
    TRAY_SIZE = 2
    VEGAN = "vegan"
    NON_VEGAN = "nonvegan"
    Chefs <- MCOnceBoth
    Once <- MCOnceBoth
    Customers <- MCCustomers
    Hybrids <- MCHybrids
    TrayOf <- MCTrayOf
INVARIANTS
    DishesAddUp
