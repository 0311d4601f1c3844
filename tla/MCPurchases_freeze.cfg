SPECIFICATION PartsSpec
CONSTANTS
    Parts = {"orders"}
    Workers = {w1, w2}
    Orders = {o1}
    Handlers <- EscrowHandlers
    methodOf <- Transfers
    w0 = w0
    w1 = w1
    w2 = w2
    car = car
    ann = ann
    ben = ben
    seller = seller
    o1 = o1
    o2 = o2
    o3 = o3
    f1 = f1
    Nobody = Nobody
    NoOrder = NoOrder
    NoOffer = NoOffer
    Vehicles = {car}
    Users = {ann, ben, seller}
    vehicleOf <- TheCar
    buyerOf <- TheBuyers
    sellerOf <- Seller
    offerVehicle <- TheOfferCar
    offerBuyer <- TheOfferAnn
    Offers = {}
PROPERTIES
    DisputeFreezes
CHECK_DEADLOCK FALSE
