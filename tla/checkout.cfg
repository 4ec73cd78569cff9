SPECIFICATION Spec
CONSTANTS
    c1 = c1
    c2 = c2
    q1 = q1
    q2 = q2
    soup = soup
    rice = rice
    cake = cake
    diner = diner
    bakery = bakery
    Customers = {c1, c2}
    Requests = {q1, q2}
    Items = {soup, rice, cake}
    Restaurants = {diner, bakery}
    RestaurantOf <- Menus
    InitialCarts <- CartsAtStart
    CallsOf <- RivalOrders
    Edited = {soup}
    Tracked = {soup}
    Prices = {1, 2}
    InitialStock = 1
    NoRestaurant = NoRestaurant
    MaxQty = 1
    MaxCalls = 3
    MaxTrouble = 1
    Threshold = 1
INVARIANTS
    NothingOversold
    PortionsAccounted
    PaidWhatWasShown
    OrderedOnce
CHECK_DEADLOCK FALSE
