------------------------------ MODULE MCAioCopy ------------------------------
(* Batch for TLC: files from empty to four blocks, the last one full or not; *)
(* a start at any nanosecond of a second; an input of up to three reads,      *)
(* without and with a byte that is 0.                                        *)
EXTENDS Batch

MCSizes == 0..8
MCInputs == 0..3
MCZeros == {{}, {2}}
MCStarts == [sec : {3}, nsec : 0..2]

=============================================================================
