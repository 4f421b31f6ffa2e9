------------------------------ MODULE MCHdlcSpi ------------------------------
EXTENDS HdlcSpi

\* DMA errors of a slave that receives.
SlaveRx == {<<"S", "rx">>}

=============================================================================
