SPECIFICATION Spec
CONSTANTS
    p1 = p1  p2 = p2
    Invoicers <- MCInvoicers
    Bounds <- MCMissed
    Month = 2
    PayDays = 1
    Fee = 2
    Horizon = 6
SYMMETRY MCSymmetry
CHECK_DEADLOCK FALSE
INVARIANT OnlyDueBilled
