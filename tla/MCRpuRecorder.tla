---------------------------- MODULE MCRpuRecorder ----------------------------
(* Small instances of RpuRecorder: a lane of five registers, the fewest on    *)
(* which a gap is split, and one of a single register beside it.             *)
EXTENDS RpuRecorder

CONSTANTS conv, pool

MCLanes    == {conv, pool}
MCRegWords == (conv :> 5) @@ (pool :> 1)
MCWritten  == (conv :> {1, 4, 5}) @@ (pool :> {})
MCOthers   == (conv :> {1}) @@ (pool :> {})
\* Other drivers write a register that this library's code never writes.
MCWrittenFew == (conv :> {5}) @@ (pool :> {})
=============================================================================
