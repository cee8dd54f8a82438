--------------------------- MODULE MCKalmanFilter ---------------------------
EXTENDS KalmanFilter
=============================================================================
