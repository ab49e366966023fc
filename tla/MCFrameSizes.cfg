CHECK_DEADLOCK FALSE
SPECIFICATION Quantities
INVARIANT FramesFit
