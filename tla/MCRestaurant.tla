---------------------------- MODULE MCRestaurant ----------------------------
(* The five processes main() forks, and the callers of the unit tests.     *)
EXTENDS Restaurant

MCChefs     == {"chef_vegan", "chef_nonvegan"}
MCCustomers == {"customer_vegan", "customer_nonvegan", "customer_hybrid"}
MCHybrids   == {"customer_hybrid"}
MCTrayOf == [p \in Procs |->
    IF p \in {"chef_nonvegan", "customer_nonvegan", "add_nonvegan_dish_once"}
    THEN NON_VEGAN ELSE VEGAN]

MCOnceVegan  == {"add_vegan_dish_once"}
MCChefsOnce  == MCChefs \cup MCOnceVegan
MCOnceBoth   == {"add_vegan_dish_once", "add_nonvegan_dish_once"}
====
