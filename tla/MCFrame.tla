------------------------------ MODULE MCFrame ------------------------------
EXTENDS Frame

\* Every frame, restyling or deferring, with and without a place and the band.
MCPolicy ==
    {[defer |-> d, frame |-> f, on_top |-> t, placed |-> t] :
        d \in BOOLEAN, f \in {"framed", "frameless"}, t \in BOOLEAN}
=============================================================================
