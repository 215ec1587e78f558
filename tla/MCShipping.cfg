SPECIFICATION Spec
CHECK_DEADLOCK FALSE
CONSTANTS
    Shipments = {s1, s2}
    Updates = {u1, u2, u3, u4}
    MaxFaults = 1
SYMMETRY Symmetry
INVARIANTS
    OrderNeverAheadOfShipments
    DeliveryReachesTheOrder
    AnnouncedDeliveryStands
    ShipmentsAreAnnounced
