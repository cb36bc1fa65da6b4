SPECIFICATION StatusSpec
CONSTANTS
    TRAY_SIZE = 5
    VEGAN = "vegan"
    NON_VEGAN = "nonvegan"
    Chefs = {"chef_vegan"}
    Once = {}
    Customers = {"customer_vegan", "second_customer"}
    Hybrids = {}
    TrayOf <- MCTrayOf
INVARIANTS
    CountIsReal
