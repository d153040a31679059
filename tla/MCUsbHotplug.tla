----------------------------- MODULE MCUsbHotplug -----------------------------
(* Either people wait for the console: three partitions, two with a         *)
(* library, four events, and binds may fail.  Or one key comes and goes     *)
(* twice at any moment, and unmounts and engines fail.                      *)
EXTENDS UsbHotplug

CONSTANTS d1, d2, d3

MCSessions ==
    {[devs |-> {d1, d2, d3}, plugs |-> 4, calm |-> TRUE, faults |-> {"bind"}],
     [devs |-> {d1}, plugs |-> 2, calm |-> FALSE, faults |-> {"umount", "ioError", "crash"}]}
=============================================================================
