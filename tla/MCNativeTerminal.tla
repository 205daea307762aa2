--------------------------- MODULE MCNativeTerminal ---------------------------
EXTENDS NativeTerminal
===============================================================================
