SPECIFICATION Spec
CONSTANTS
    c1 = c1
    c2 = c2
    irq1 = irq1
    irq2 = irq2
    Soft = Soft
    Clients = {c1}
    Irqs = {irq1, irq2}
    Interrupts = {irq1, irq2, Soft}
    MaxInterrupts = 2
    MaxSignals = 1
    MaxCalls = 1
    MaxTimeouts = 1
SYMMETRY Symmetry
INVARIANT Unwinds
INVARIANT HandlersMatch
INVARIANT ReadyIsFound
INVARIANT IrqHeardAgain
CHECK_DEADLOCK FALSE
