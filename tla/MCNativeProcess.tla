-------------------------- MODULE MCNativeProcess --------------------------
EXTENDS NativeProcess
=============================================================================
